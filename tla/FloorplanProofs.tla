-------------------------- MODULE FloorplanProofs --------------------------
(***************************************************************************)
(* Proofs about Floorplan and the builds of FloorplanTasks, for any input, *)
(* any number of tasks and any cutoff: the shared bound only falls,        *)
(* outside the critical section it belongs to the best board, and when the *)
(* search ends no layout is better.                                        *)
(***************************************************************************)
EXTENDS FloorplanTasks, SequenceTheorems, WellFoundedInduction, TLAPS

-----------------------------------------------------------------------------
(* The boards that are worked on are layouts of the first cells. *)
CallsInv ==
  \A board \in DOMAIN calls :
    /\ Len(board) < Len(Cells)
    /\ calls[board].alt \in DOMAIN Cells[Len(board) + 1].alt
    /\ \A r \in calls[board].todo : r.id = Len(board) + 1
    /\ IsFootprint(calls[board].footprint, board)

ItersInv == \A brd \in DOMAIN iters : IsFootprint(iters[brd].footprint, brd)

(* Who is past the lock holds it; between the comparison and the stores    *)
(* only the bound is new.                                                  *)
Consistent ==
  IF best = Null THEN minArea = MaxArea
  ELSE IsFootprint(footprint, best) /\ minArea = Area(footprint)
LockInv ==
  /\ \A brd \in DOMAIN iters : iters[brd].pc # "lock" => lock = brd
  /\ lock # Null => iters[lock].pc # "lock"
  /\ lock = Null \/ iters[lock].pc = "compare" => Consistent
  /\ lock # Null /\ iters[lock].pc = "store" => minArea = Area(iters[lock].footprint)

IInv == TypeOK /\ CallsInv /\ ItersInv /\ LockInv

-----------------------------------------------------------------------------
(* Geometry *)

(* The cell after the cells of a board is the one with the next number.    *)
LEMMA NextCellType ==
  ASSUME NEW board \in Boards, Len(board) < Len(Cells)
  PROVE  /\ NextCell(board) = Len(board) + 1 /\ NextCell(board) \in DOMAIN Cells
         /\ Cells[NextCell(board)] \in CellTypes
         /\ 1 \in DOMAIN Cells[NextCell(board)].alt
<1>1. Cells \in Seq(CellTypes) /\ Cells # <<>> BY CellsAssumption
<1>2. NextCell(board) = Len(board) + 1
  <2>1. CASE board = <<>> BY <2>1 DEF NextCell
  <2>2. CASE board # <<>>
    <3>1. Len(board) \in DOMAIN Cells /\ Len(board) # Len(Cells)
      BY <2>2, <1>1 DEF Boards
    <3> QED BY <3>1, <2>2, CellsAssumption DEF NextCell
  <2> QED BY <2>1, <2>2
<1>3. Len(board) + 1 \in DOMAIN Cells BY <1>1 DEF Boards
<1>4. Cells[Len(board) + 1] \in CellTypes BY <1>1, <1>3
<1>5. 1 \in DOMAIN Cells[Len(board) + 1].alt
  <2>1. Cells[Len(board) + 1].alt \in Seq(Nat \X Nat) BY <1>4 DEF CellTypes
  <2>2. Cells[Len(board) + 1].alt # <<>> BY <1>3, CellsAssumption
  <2> QED BY <2>1, <2>2
<1> QED BY <1>2, <1>3, <1>4, <1>5

(* The cells on the board are rectangles, and so are the places for the    *)
(* next one.                                                               *)
LEMMA StartsType ==
  ASSUME NEW board \in Boards, Len(board) < Len(Cells),
         NEW alt \in DOMAIN Cells[NextCell(board)].alt
  PROVE  /\ Starts(board, NextCell(board), alt) \subseteq Rectangles
         /\ \A r \in Starts(board, NextCell(board), alt) : r.id = NextCell(board)
<1> DEFINE id == NextCell(board)
           rows == Cells[id].alt[alt][1]
           cols == Cells[id].alt[alt][2]
           left == CellOn(board, Cells[id].left)
           above == CellOn(board, Cells[id].above)
           at(top, lhs) == [id |-> id, top |-> top, lhs |-> lhs,
                            bot |-> top + rows - 1, rhs |-> lhs + cols - 1]
<1>1. id = Len(board) + 1 /\ id \in DOMAIN Cells /\ Cells[id] \in CellTypes
  BY NextCellType
<1>2. Cells[id].left \in Int /\ Cells[id].above \in Int /\ Cells[id].alt \in Seq(Nat \X Nat)
  BY <1>1 DEF CellTypes
<1>3. rows \in Nat /\ cols \in Nat BY <1>2
<1>4. Cells[id].left < id /\ Cells[id].above < id /\ (Cells[id].left >= 0 \/ Cells[id].above >= 0)
  BY <1>1, CellsAssumption
<1>5. ASSUME NEW n \in Int, n >= 0, n < id PROVE CellOn(board, n) \in Rectangles
  <2>1. CASE n = 0 BY <2>1 DEF CellOn, Corner, Rectangles
  <2>2. CASE n # 0
    <3>1. n \in 1..Len(board) BY <2>2, <1>5, <1>1 DEF Boards
    <3> QED BY <3>1, <2>2 DEF CellOn, Boards
  <2> QED BY <2>1, <2>2
<1>6. ASSUME NEW t \in Int, NEW l \in Int PROVE at(t, l) \in Rectangles /\ at(t, l).id = id
  BY <1>3, <1>1 DEF Rectangles, Boards
<1>7. CASE Cells[id].left >= 0 /\ Cells[id].above >= 0
  <2>1. left \in Rectangles /\ above \in Rectangles BY <1>7, <1>5, <1>4, <1>2
  <2>2. above.bot + 1 \in Int /\ left.rhs + 1 \in Int BY <2>1 DEF Rectangles
  <2> DEFINE touches(r) == /\ r.top <= left.bot /\ r.bot + 1 >= left.top
                           /\ r.lhs <= above.rhs /\ r.rhs + 1 >= above.lhs
  <2>3. Starts(board, id, alt) = {r \in {at(above.bot + 1, left.rhs + 1)} : touches(r)}
    BY <1>7 DEF Starts
  <2> HIDE DEF left, above
  <2> QED BY <2>3, <2>2, <1>6
<1>8. CASE Cells[id].left >= 0 /\ Cells[id].above < 0
  <2>1. left \in Rectangles BY <1>8, <1>5, <1>4, <1>2
  <2>2. left.rhs + 1 \in Int /\ left.bot \in Int /\ Larger(left.top - rows + 1, 0) \in Int
    BY <2>1, <1>3 DEF Rectangles, Larger
  <2>3. Starts(board, id, alt)
          = {at(t, left.rhs + 1) : t \in Larger(left.top - rows + 1, 0)..left.bot}
    BY <1>8, <1>2 DEF Starts
  <2> HIDE DEF left, above
  <2> QED BY <2>3, <2>2, <1>6
<1>9. CASE Cells[id].left < 0
  <2>1. above \in Rectangles BY <1>9, <1>5, <1>4, <1>2
  <2>2. above.bot + 1 \in Int /\ above.rhs \in Int /\ Larger(above.lhs - cols + 1, 0) \in Int
    BY <2>1, <1>3 DEF Rectangles, Larger
  <2>3. Starts(board, id, alt)
          = {at(above.bot + 1, l) : l \in Larger(above.lhs - cols + 1, 0)..above.rhs}
    <3>1. ~ (Cells[id].left >= 0) BY <1>9, <1>2
    <3> QED BY <3>1, Zenon DEF Starts
  <2> HIDE DEF left, above
  <2> QED BY <2>3, <2>2, <1>6
<1> QED BY <1>7, <1>8, <1>9, <1>2

(* Extending the footprint by a rectangle gives the footprint of the board *)
(* with that rectangle.                                                    *)
LEMMA ExtendFootprint ==
  ASSUME NEW board \in Boards, NEW r \in Rectangles, NEW fp \in Nat \X Nat,
         IsFootprint(fp, board)
  PROVE  /\ Extend(fp, r) \in Nat \X Nat
         /\ IsFootprint(Extend(fp, r), Append(board, r))
         /\ Append(board, r) \in Boards /\ Len(Append(board, r)) = Len(board) + 1
<1> DEFINE brd == Append(board, r)
           new == Extend(fp, r)
<1>1. r.bot \in Int /\ r.rhs \in Int BY DEF Rectangles
<1>2. /\ brd \in Boards /\ Len(brd) = Len(board) + 1 /\ brd[Len(board) + 1] = r
      /\ \A k \in DOMAIN board : k \in DOMAIN brd /\ brd[k] = board[k]
      /\ \A k \in DOMAIN brd : k \in DOMAIN board \/ k = Len(board) + 1
      /\ Len(board) + 1 \in DOMAIN brd
  BY DEF Boards
<1>3. /\ new \in Nat \X Nat
      /\ new[1] >= fp[1] /\ new[1] > r.bot /\ (new[1] = fp[1] \/ new[1] = r.bot + 1)
      /\ new[2] >= fp[2] /\ new[2] > r.rhs /\ (new[2] = fp[2] \/ new[2] = r.rhs + 1)
  BY <1>1 DEF Extend, Larger
<1>4. \A k \in DOMAIN board : board[k].bot \in Int /\ board[k].rhs \in Int
  <2>1. \A k \in DOMAIN board : board[k] \in Rectangles BY DEF Boards
  <2> QED BY <2>1 DEF Rectangles
<1> HIDE DEF brd, new
<1>5. \A k \in DOMAIN brd : brd[k].bot < new[1] /\ brd[k].rhs < new[2]
  <2> SUFFICES ASSUME NEW k \in DOMAIN brd PROVE brd[k].bot < new[1] /\ brd[k].rhs < new[2]
    OBVIOUS
  <2>1. CASE k \in DOMAIN board
    <3>1. board[k].bot < fp[1] /\ board[k].rhs < fp[2] BY <2>1 DEF IsFootprint
    <3> QED BY <3>1, <2>1, <1>2, <1>3, <1>4
  <2>2. CASE k = Len(board) + 1 BY <2>2, <1>2, <1>3
  <2> QED BY <2>1, <2>2, <1>2
<1>6. new[1] = 0 \/ \E k \in DOMAIN brd : brd[k].bot = new[1] - 1
  <2>1. CASE new[1] = fp[1] BY <2>1, <1>2 DEF IsFootprint
  <2>2. CASE new[1] = r.bot + 1 BY <2>2, <1>2, <1>1
  <2> QED BY <2>1, <2>2, <1>3
<1>7. new[2] = 0 \/ \E k \in DOMAIN brd : brd[k].rhs = new[2] - 1
  <2>1. CASE new[2] = fp[2] BY <2>1, <1>2 DEF IsFootprint
  <2>2. CASE new[2] = r.rhs + 1 BY <2>2, <1>2, <1>1
  <2> QED BY <2>1, <2>2, <1>3
<1>8. IsFootprint(new, brd) BY <1>5, <1>6, <1>7 DEF IsFootprint
<1> QED BY <1>2, <1>3, <1>8 DEF brd, new

LEMMA AreaType == \A fp \in Nat \X Nat : Area(fp) \in Nat
BY DEF Area

-----------------------------------------------------------------------------
(* The steps of the search *)

(* What the parent's call keeps when one of its positions is done with.    *)
LEMMA FinishKeeps ==
  ASSUME NEW f, NEW brd, \A b \in DOMAIN f : f[b] \in Calls
  PROVE  /\ DOMAIN Finish(f, brd) = DOMAIN f
         /\ \A b \in DOMAIN f :
              /\ Finish(f, brd)[b] \in Calls
              /\ Finish(f, brd)[b].alt = f[b].alt
              /\ Finish(f, brd)[b].footprint = f[b].footprint
              /\ Finish(f, brd)[b].todo \subseteq f[b].todo
BY DEF Finish, Calls

(* So a step that finishes positions, and forgets calls, keeps the facts   *)
(* about the calls.                                                        *)
LEMMA FewerCalls ==
  ASSUME TypeOK, CallsInv, DOMAIN calls' \subseteq DOMAIN calls,
         \A b \in DOMAIN calls' :
           /\ calls'[b] \in Calls
           /\ calls'[b].alt = calls[b].alt
           /\ calls'[b].footprint = calls[b].footprint
           /\ calls'[b].todo \subseteq calls[b].todo
  PROVE  CallsInv'
BY DEF CallsInv, TypeOK

(* A call that may begin on a board: its positions are for the next cell,  *)
(* and it knows the footprint.                                             *)
IsCall(board, fp, call) ==
  /\ call \in Calls /\ call.footprint = fp
  /\ call.alt \in DOMAIN Cells[Len(board) + 1].alt
  /\ \A r \in call.todo : r.id = Len(board) + 1

(* Both ways to begin one give such a call: with the first orientation, or *)
(* with the positions of all.                                              *)
LEMMA CallOnType ==
  ASSUME NEW board \in Boards, Len(board) < Len(Cells), NEW fp \in Nat \X Nat
  PROVE  IsCall(board, fp, CallOn(board, fp))
<1>1. NextCell(board) = Len(board) + 1 /\ 1 \in DOMAIN Cells[NextCell(board)].alt
  BY NextCellType
<1>2. /\ Starts(board, NextCell(board), 1) \subseteq Rectangles
      /\ \A r \in Starts(board, NextCell(board), 1) : r.id = Len(board) + 1
  BY <1>1, StartsType
<1>3. CallOn(board, fp)
        = [alt |-> 1, todo |-> Starts(board, NextCell(board), 1), footprint |-> fp]
  BY DEF CallOn
<1> QED BY <1>1, <1>2, <1>3 DEF IsCall, Calls

LEMMA TaskCallType ==
  ASSUME NEW board \in Boards, Len(board) < Len(Cells), NEW fp \in Nat \X Nat
  PROVE  IsCall(board, fp, TaskCall(board, fp))
<1>1. CASE ~ Deferred(board) BY <1>1, CallOnType DEF TaskCall
<1>2. CASE Deferred(board)
  <2> DEFINE shapes == Cells[NextCell(board)].alt
             all == Positions(board, NextCell(board))
  <2>1. /\ NextCell(board) = Len(board) + 1 /\ shapes \in Seq(Nat \X Nat)
        /\ 1 \in DOMAIN shapes
    BY NextCellType DEF CellTypes
  <2>2. Len(shapes) \in DOMAIN shapes /\ Len(shapes) \in Nat
    <3> HIDE DEF shapes
    <3> QED BY <2>1
  <2>3. all \subseteq Rectangles /\ \A r \in all : r.id = Len(board) + 1
    <3> SUFFICES ASSUME NEW r \in all PROVE r \in Rectangles /\ r.id = Len(board) + 1
      OBVIOUS
    <3>1. PICK alt \in DOMAIN shapes : r \in Starts(board, NextCell(board), alt)
      BY DEF Positions
    <3> QED BY <3>1, <2>1, StartsType
  <2>4. TaskCall(board, fp) = [alt |-> Len(shapes), footprint |-> fp, todo |-> all]
    BY <1>2 DEF TaskCall
  <2> HIDE DEF all
  <2>5. TaskCall(board, fp) \in Calls BY <2>2, <2>3, <2>4 DEF Calls
  <2> QED BY <2>1, <2>2, <2>3, <2>4, <2>5 DEF IsCall
<1> QED BY <1>1, <1>2

(* The search begins with a call on the empty board. *)
LEMMA StartInv ==
  ASSUME minArea = MaxArea, footprint = <<0, 0>>, best = Null, lock = Null, iters = <<>>,
         NEW call, calls = With(<<>>, <<>>, call), IsCall(<<>>, <<0, 0>>, call)
  PROVE  IInv
<1>1. <<>> \in Boards /\ Len(<<>>) = 0 BY DEF Boards
<1>2. Len(Cells) \in Nat /\ Len(Cells) > 0 BY CellsAssumption
<1>3. DOMAIN calls = {<<>>} /\ calls[<<>>] = call /\ DOMAIN iters = {} BY DEF With
<1>4. TypeOK BY <1>1, <1>3, MaxAreaAssumption DEF TypeOK, IsCall
<1>5. IsFootprint(<<0, 0>>, <<>>) BY DEF IsFootprint
<1>6. CallsInv BY <1>1, <1>2, <1>3, <1>5 DEF CallsInv, IsCall
<1>7. ItersInv BY <1>3 DEF ItersInv
<1>8. LockInv BY <1>3 DEF LockInv, Consistent
<1> QED BY <1>4, <1>6, <1>7, <1>8 DEF IInv

LEMMA Start == <<>> \in Boards /\ Len(<<>>) < Len(Cells) /\ <<0, 0>> \in Nat \X Nat
BY CellsAssumption DEF Boards

LEMMA InitInv == Init => IInv
BY Start, CallOnType, StartInv DEF Init

LEMMA TryWithInv ==
  ASSUME IInv, NEW board \in DOMAIN calls, NEW r \in calls[board].todo,
         NEW newCall, TryWith(board, r, newCall),
         Len(board) + 1 < Len(Cells) =>
           IsCall(Append(board, r), Extend(calls[board].footprint, r), newCall)
  PROVE  IInv'
<1> DEFINE brd == Append(board, r)
           fp == Extend(calls[board].footprint, r)
           goesOn == LayDown(board, r) /\ Area(fp) < minArea
           last == Cells[r.id].next = 0
<1>1. TypeOK /\ CallsInv /\ ItersInv /\ LockInv BY DEF IInv
<1>2. board \in Boards /\ calls[board] \in Calls BY <1>1 DEF TypeOK
<1>3. r \in Rectangles /\ calls[board].footprint \in Nat \X Nat BY <1>2 DEF Calls
<1>4. Len(board) < Len(Cells) /\ r.id = Len(board) + 1
  BY <1>1 DEF CallsInv
<1>5. /\ fp \in Nat \X Nat /\ IsFootprint(fp, brd)
      /\ brd \in Boards /\ Len(brd) = Len(board) + 1
  BY <1>2, <1>3, <1>1, ExtendFootprint DEF CallsInv
<1>6. /\ brd \notin DOMAIN calls \union DOMAIN iters
      /\ calls' = CASE ~ goesOn -> Finish(calls, brd)
                    [] goesOn /\ ~ last -> With(calls, brd, newCall)
                    [] OTHER -> calls
      /\ iters' = IF goesOn /\ last THEN With(iters, brd, [pc |-> "lock", footprint |-> fp])
                  ELSE iters
      /\ UNCHANGED <<minArea, footprint, best, lock>>
      /\ Len(brd) < Len(Cells) => IsCall(brd, fp, newCall)
  BY <1>5 DEF TryWith, Fits
<1> HIDE DEF brd, fp, goesOn, last
<1>7. CASE ~ goesOn
  <2>1. calls' = Finish(calls, brd) /\ iters' = iters BY <1>6, <1>7
  <2>2. /\ DOMAIN calls' = DOMAIN calls
        /\ \A b \in DOMAIN calls : /\ calls'[b] \in Calls
                                   /\ calls'[b].alt = calls[b].alt
                                   /\ calls'[b].footprint = calls[b].footprint
                                   /\ calls'[b].todo \subseteq calls[b].todo
    BY <2>1, <1>1, FinishKeeps DEF TypeOK
  <2>3. CallsInv' BY <2>2, <1>1, FewerCalls
  <2>4. TypeOK' BY <2>1, <2>2, <1>1, <1>6 DEF TypeOK
  <2>5. ItersInv' /\ LockInv' BY <2>1, <1>1, <1>6 DEF ItersInv, LockInv, Consistent
  <2> QED BY <2>3, <2>4, <2>5 DEF IInv
<1>8. CASE goesOn /\ ~ last
  <2>1. calls' = With(calls, brd, newCall) /\ iters' = iters BY <1>6, <1>8
  <2>2. /\ DOMAIN calls' = DOMAIN calls \union {brd} /\ calls'[brd] = newCall
        /\ \A b \in DOMAIN calls : b # brd /\ calls'[b] = calls[b]
    BY <2>1, <1>6 DEF With
  <2>3. Len(brd) < Len(Cells)
    <3>1. r.id \in DOMAIN Cells /\ Cells[r.id].next # 0
      BY <1>2, <1>4, <1>8, CellsAssumption DEF Boards, last
    <3>2. r.id # Len(Cells) BY <3>1, CellsAssumption
    <3> QED BY <3>2, <1>2, <1>4, <1>5, CellsAssumption DEF Boards
  <2>4. IsCall(brd, fp, newCall) BY <2>3, <1>6
  <2>5. TypeOK' BY <2>1, <2>2, <2>4, <1>1, <1>5, <1>6 DEF TypeOK, IsCall
  <2>6. CallsInv' BY <2>2, <2>3, <2>4, <1>1, <1>5 DEF CallsInv, IsCall
  <2>7. ItersInv' /\ LockInv' BY <2>1, <1>1, <1>6 DEF ItersInv, LockInv, Consistent
  <2> QED BY <2>5, <2>6, <2>7 DEF IInv
<1>9. CASE goesOn /\ last
  <2>1. calls' = calls /\ iters' = With(iters, brd, [pc |-> "lock", footprint |-> fp])
    BY <1>6, <1>9
  <2>2. /\ DOMAIN iters' = DOMAIN iters \union {brd}
        /\ iters'[brd] = [pc |-> "lock", footprint |-> fp]
        /\ \A b \in DOMAIN iters : b # brd /\ iters'[b] = iters[b]
    BY <2>1, <1>6 DEF With
  <2>3. iters'[brd] \in Iterations BY <2>2, <1>5 DEF Iterations
  <2>4. TypeOK' BY <2>1, <2>2, <2>3, <1>1, <1>5, <1>6 DEF TypeOK
  <2>5. CallsInv' BY <2>1, <1>1 DEF CallsInv
  <2>6. ItersInv' BY <2>2, <1>1, <1>5 DEF ItersInv
  <2>7. lock # Null => lock \in DOMAIN iters /\ iters'[lock] = iters[lock]
    BY <2>2, <1>1 DEF TypeOK
  <2>8. LockInv' BY <2>2, <2>7, <1>1, <1>6 DEF LockInv, Consistent
  <2> QED BY <2>4, <2>5, <2>6, <2>8 DEF IInv
<1> QED BY <1>7, <1>8, <1>9

LEMMA CallAfterType ==
  ASSUME IInv, NEW board \in DOMAIN calls, NEW r \in calls[board].todo,
         Len(board) + 1 < Len(Cells)
  PROVE  LET brd == Append(board, r)
             fp == Extend(calls[board].footprint, r)
         IN  IsCall(brd, fp, CallOn(brd, fp)) /\ IsCall(brd, fp, CallAfter(board, r))
<1>1. board \in Boards /\ r \in Rectangles /\ calls[board].footprint \in Nat \X Nat
  BY DEF IInv, TypeOK, Calls
<1>2. IsFootprint(calls[board].footprint, board) BY DEF IInv, CallsInv
<1>3. /\ Append(board, r) \in Boards /\ Len(Append(board, r)) = Len(board) + 1
      /\ Extend(calls[board].footprint, r) \in Nat \X Nat
  BY <1>1, <1>2, ExtendFootprint
<1>4. Len(Append(board, r)) < Len(Cells) BY <1>3
<1> QED BY <1>3, <1>4, CallOnType, TaskCallType DEF CallAfter

LEMMA TryInv ==
  ASSUME IInv, NEW board \in DOMAIN calls, NEW r \in calls[board].todo, Try(board, r)
  PROVE  IInv'
BY CallAfterType, TryWithInv DEF Try

LEMMA LockStepInv ==
  ASSUME IInv, NEW brd \in DOMAIN iters, Lock(brd)
  PROVE  IInv'
<1>1. TypeOK /\ CallsInv /\ ItersInv /\ LockInv BY DEF IInv
<1>2. /\ iters[brd].pc = "lock" /\ lock = Null /\ lock' = brd
      /\ iters' = [iters EXCEPT ![brd].pc = "compare"]
      /\ UNCHANGED <<minArea, footprint, best, calls>>
  BY DEF Lock
<1>3. /\ DOMAIN iters' = DOMAIN iters
      /\ iters'[brd] \in Iterations /\ iters'[brd].pc = "compare"
      /\ iters'[brd].footprint = iters[brd].footprint
      /\ \A b \in DOMAIN iters : b # brd => iters'[b] = iters[b]
  BY <1>2, <1>1 DEF TypeOK, Iterations
<1>4. TypeOK' BY <1>1, <1>2, <1>3 DEF TypeOK
<1>5. CallsInv' BY <1>1, <1>2 DEF CallsInv
<1>6. ItersInv' BY <1>1, <1>3 DEF ItersInv
<1>7. Consistent' BY <1>1, <1>2 DEF LockInv, Consistent
<1>8. \A b \in DOMAIN iters : b # brd => iters[b].pc = "lock"
  <2> SUFFICES ASSUME NEW b \in DOMAIN iters, iters[b].pc # "lock" PROVE FALSE OBVIOUS
  <2>1. b \in Boards /\ lock = b BY <1>1 DEF TypeOK, LockInv
  <2> QED BY <2>1, <1>2, NullAssumption
<1>9. LockInv' BY <1>2, <1>3, <1>7, <1>8 DEF LockInv
<1> QED BY <1>4, <1>5, <1>6, <1>9 DEF IInv

(* An iteration that is done with the lock: it disappears, its position is *)
(* done with, and what it leaves behind must be consistent.                *)
LEMMA Unlock ==
  ASSUME IInv, NEW brd \in DOMAIN iters, iters[brd].pc # "lock",
         lock' = Null, iters' = Without(iters, brd), calls' = Finish(calls, brd),
         minArea' = minArea, Consistent',
         footprint' \in Nat \X Nat, best' \in Boards \union {Null}
  PROVE  IInv'
<1>1. TypeOK /\ CallsInv /\ ItersInv /\ LockInv BY DEF IInv
<1>2. /\ DOMAIN iters' = DOMAIN iters \ {brd}
      /\ \A b \in DOMAIN iters' : iters'[b] = iters[b]
  BY DEF Without
<1>3. /\ DOMAIN calls' = DOMAIN calls
      /\ \A b \in DOMAIN calls : /\ calls'[b] \in Calls
                                 /\ calls'[b].alt = calls[b].alt
                                 /\ calls'[b].footprint = calls[b].footprint
                                 /\ calls'[b].todo \subseteq calls[b].todo
  BY <1>1, FinishKeeps DEF TypeOK
<1>4. CallsInv' BY <1>3, <1>1, FewerCalls
<1>5. TypeOK' BY <1>1, <1>2, <1>3 DEF TypeOK
<1>6. ItersInv' BY <1>1, <1>2 DEF ItersInv
<1>7. \A b \in DOMAIN iters' : iters'[b].pc = "lock"
  <2> SUFFICES ASSUME NEW b \in DOMAIN iters', iters'[b].pc # "lock" PROVE FALSE OBVIOUS
  <2>1. b \in DOMAIN iters /\ b # brd /\ iters[b].pc # "lock" BY <1>2
  <2>2. lock = b /\ lock = brd BY <2>1, <1>1 DEF LockInv
  <2> QED BY <2>1, <2>2
<1>8. LockInv' BY <1>7 DEF LockInv
<1> QED BY <1>4, <1>5, <1>6, <1>8 DEF IInv

LEMMA CompareInv ==
  ASSUME IInv, NEW brd \in DOMAIN iters, Compare(brd)
  PROVE  IInv' /\ minArea' <= minArea
<1>1. TypeOK /\ CallsInv /\ ItersInv /\ LockInv BY DEF IInv
<1>2. iters[brd].pc = "compare" /\ UNCHANGED <<footprint, best>> BY DEF Compare
<1>3. brd \in Boards /\ brd # Null /\ lock = brd /\ iters[brd] \in Iterations
  BY <1>1, <1>2, NullAssumption DEF TypeOK, LockInv
<1>4. Consistent BY <1>1, <1>2, <1>3 DEF LockInv
<1>5. Area(iters[brd].footprint) \in Nat /\ minArea \in Nat
  BY <1>1, <1>3, AreaType DEF TypeOK, Iterations
<1>6. CASE Area(iters[brd].footprint) < minArea
  <2>1. /\ minArea' = Area(iters[brd].footprint)
        /\ iters' = [iters EXCEPT ![brd].pc = "store"]
        /\ UNCHANGED <<lock, calls>>
    BY <1>6 DEF Compare
  <2>2. /\ DOMAIN iters' = DOMAIN iters
        /\ iters'[brd] \in Iterations /\ iters'[brd].pc = "store"
        /\ iters'[brd].footprint = iters[brd].footprint
        /\ \A b \in DOMAIN iters : b # brd => iters'[b] = iters[b]
    BY <2>1, <1>3 DEF Iterations
  <2>3. TypeOK' BY <1>1, <1>2, <1>5, <2>1, <2>2 DEF TypeOK
  <2>4. CallsInv' BY <1>1, <2>1 DEF CallsInv
  <2>5. ItersInv' BY <1>1, <2>2 DEF ItersInv
  <2>6. LockInv' BY <1>1, <1>3, <2>1, <2>2 DEF LockInv
  <2> QED BY <2>1, <2>3, <2>4, <2>5, <2>6, <1>5, <1>6 DEF IInv
<1>7. CASE ~ (Area(iters[brd].footprint) < minArea)
  <2>1. /\ lock' = Null /\ iters' = Without(iters, brd) /\ calls' = Finish(calls, brd)
        /\ minArea' = minArea
    BY <1>7 DEF Compare
  <2>2. Consistent' BY <1>2, <1>4, <2>1 DEF Consistent
  <2>3. IInv' BY <1>1, <1>2, <2>1, <2>2, Unlock DEF TypeOK
  <2> QED BY <2>1, <2>3, <1>5
<1> QED BY <1>6, <1>7

LEMMA StoreInv ==
  ASSUME IInv, NEW brd \in DOMAIN iters, Store(brd)
  PROVE  IInv'
<1>1. TypeOK /\ CallsInv /\ ItersInv /\ LockInv BY DEF IInv
<1>2. /\ iters[brd].pc = "store"
      /\ footprint' = iters[brd].footprint /\ best' = brd /\ lock' = Null
      /\ iters' = Without(iters, brd) /\ calls' = Finish(calls, brd)
      /\ minArea' = minArea
  BY DEF Store
<1>3. brd \in Boards /\ brd # Null /\ lock = brd /\ iters[brd] \in Iterations
  BY <1>1, <1>2, NullAssumption DEF TypeOK, LockInv
<1>4. minArea = Area(iters[brd].footprint) BY <1>1, <1>2, <1>3 DEF LockInv
<1>5. IsFootprint(iters[brd].footprint, brd) BY <1>1 DEF ItersInv
<1>6. Consistent' BY <1>2, <1>3, <1>4, <1>5 DEF Consistent
<1>7. footprint' \in Nat \X Nat /\ best' \in Boards \union {Null}
  BY <1>2, <1>3 DEF Iterations
<1> QED BY <1>2, <1>6, <1>7, Unlock

LEMMA NextShapeInv ==
  ASSUME IInv, NEW board \in DOMAIN calls, NextShape(board)
  PROVE  IInv'
<1> DEFINE alt == calls[board].alt + 1
<1>1. TypeOK /\ CallsInv /\ ItersInv /\ LockInv BY DEF IInv
<1>2. /\ calls[board].alt < Len(Cells[NextCell(board)].alt)
      /\ calls' = [calls EXCEPT ![board].alt = alt,
                                ![board].todo = Starts(board, NextCell(board), alt)]
      /\ UNCHANGED <<minArea, footprint, best, lock, iters>>
  BY DEF NextShape
<1>3. board \in Boards /\ calls[board] \in Calls /\ Len(board) < Len(Cells)
  BY <1>1 DEF TypeOK, CallsInv
<1>4. /\ NextCell(board) = Len(board) + 1 /\ Cells[NextCell(board)] \in CellTypes
      /\ calls[board].alt \in DOMAIN Cells[NextCell(board)].alt
  BY <1>1, <1>3, NextCellType DEF CallsInv
<1>5. alt \in DOMAIN Cells[NextCell(board)].alt /\ alt \in Nat
  <2> DEFINE shapes == Cells[NextCell(board)].alt
             now == calls[board].alt
  <2>1. shapes \in Seq(Nat \X Nat) /\ now \in DOMAIN shapes /\ now < Len(shapes)
    BY <1>2, <1>4 DEF CellTypes
  <2> HIDE DEF shapes, now
  <2>2. now + 1 \in DOMAIN shapes /\ now + 1 \in Nat BY <2>1
  <2> QED BY <2>2 DEF shapes, now
<1>6. /\ Starts(board, NextCell(board), alt) \subseteq Rectangles
      /\ \A r \in Starts(board, NextCell(board), alt) : r.id = Len(board) + 1
  BY <1>3, <1>4, <1>5, StartsType
<1> HIDE DEF alt
<1>7. /\ DOMAIN calls' = DOMAIN calls
      /\ calls'[board] \in Calls
      /\ calls'[board].alt = alt
      /\ calls'[board].todo = Starts(board, NextCell(board), alt)
      /\ calls'[board].footprint = calls[board].footprint
      /\ \A b \in DOMAIN calls : b # board => calls'[b] = calls[b]
  BY <1>2, <1>3, <1>5, <1>6 DEF Calls
<1>8. TypeOK' BY <1>1, <1>2, <1>7 DEF TypeOK
<1>9. CallsInv' BY <1>1, <1>4, <1>5, <1>6, <1>7 DEF CallsInv
<1>10. ItersInv' /\ LockInv' BY <1>1, <1>2 DEF ItersInv, LockInv, Consistent
<1> QED BY <1>8, <1>9, <1>10 DEF IInv

LEMMA ReturnInv ==
  ASSUME IInv, NEW board \in DOMAIN calls, Return(board)
  PROVE  IInv'
<1> DEFINE rest == Without(calls, board)
<1>1. TypeOK /\ CallsInv /\ ItersInv /\ LockInv BY DEF IInv
<1>2. /\ calls' = IF board = <<>> THEN rest ELSE Finish(rest, board)
      /\ UNCHANGED <<minArea, footprint, best, lock, iters>>
  BY DEF Return
<1>3. /\ DOMAIN rest \subseteq DOMAIN calls
      /\ \A b \in DOMAIN rest : rest[b] = calls[b] /\ rest[b] \in Calls
  BY <1>1 DEF Without, TypeOK
<1>4. /\ DOMAIN calls' \subseteq DOMAIN calls
      /\ \A b \in DOMAIN calls' : /\ calls'[b] \in Calls
                                  /\ calls'[b].alt = calls[b].alt
                                  /\ calls'[b].footprint = calls[b].footprint
                                  /\ calls'[b].todo \subseteq calls[b].todo
  <2> HIDE DEF rest
  <2>1. CASE board = <<>> BY <2>1, <1>2, <1>3
  <2>2. CASE board # <<>> BY <2>2, <1>2, <1>3, FinishKeeps
  <2> QED BY <2>1, <2>2
<1>5. CallsInv' BY <1>4, <1>1, FewerCalls
<1>6. TypeOK' BY <1>1, <1>2, <1>4 DEF TypeOK
<1>7. ItersInv' /\ LockInv' BY <1>1, <1>2 DEF ItersInv, LockInv, Consistent
<1> QED BY <1>5, <1>6, <1>7 DEF IInv

LEMMA CriticalInv ==
  ASSUME IInv, NEW brd \in DOMAIN iters, Lock(brd) \/ Compare(brd) \/ Store(brd)
  PROVE  IInv' /\ minArea' <= minArea
<1> minArea \in Nat BY DEF IInv, TypeOK
<1>1. CASE Lock(brd)
  <2>1. minArea' = minArea BY <1>1 DEF Lock
  <2> QED BY <2>1, <1>1, LockStepInv
<1>2. CASE Compare(brd) BY <1>2, CompareInv
<1>3. CASE Store(brd)
  <2>1. minArea' = minArea BY <1>3 DEF Store
  <2> QED BY <2>1, <1>3, StoreInv
<1> QED BY <1>1, <1>2, <1>3

LEMMA NextInv == IInv /\ [Next]_vars => IInv' /\ minArea' <= minArea
<1> SUFFICES ASSUME IInv, [Next]_vars PROVE IInv' /\ minArea' <= minArea OBVIOUS
<1>1. minArea \in Nat BY DEF IInv, TypeOK
<1>2. CASE UNCHANGED vars
  BY <1>1, <1>2 DEF vars, IInv, TypeOK, CallsInv, ItersInv, LockInv, Consistent
<1>3. CASE \E board \in DOMAIN calls :
             (\E r \in calls[board].todo : Try(board, r)) \/ NextShape(board) \/ Return(board)
  <2>1. minArea' = minArea BY <1>3 DEF Try, TryWith, NextShape, Return
  <2>2. IInv' BY <1>3, TryInv, NextShapeInv, ReturnInv
  <2> QED BY <2>1, <2>2, <1>1
<1> QED BY <1>2, <1>3, CriticalInv DEF Next

-----------------------------------------------------------------------------
(* The steps of the other builds: the sequential one needs no lock. *)
TaskIInv == IInv /\ (build = "serial" => lock = Null)

LEMMA TaskInitInv == TaskInit => TaskIInv
BY Start, TaskCallType, StartInv DEF TaskInit, TaskIInv

LEMMA IterationInv ==
  ASSUME IInv, NEW board \in DOMAIN calls, NEW r \in calls[board].todo,
         TryWith(board, r, CallAfter(board, r))
  PROVE  IInv' /\ minArea' = minArea /\ lock' = lock
<1>1. minArea' = minArea /\ lock' = lock BY DEF TryWith
<1>2. IInv' BY CallAfterType, TryWithInv
<1> QED BY <1>1, <1>2

LEMMA SerialBestInv ==
  ASSUME IInv, lock = Null,
         NEW board \in DOMAIN calls, NEW r \in calls[board].todo, SerialBest(board, r)
  PROVE  IInv' /\ minArea' <= minArea /\ lock' = Null
<1> DEFINE brd == Append(board, r)
           fp == Extend(calls[board].footprint, r)
<1>1. TypeOK /\ CallsInv /\ ItersInv /\ LockInv BY DEF IInv
<1>2. /\ board \in Boards /\ r \in Rectangles /\ calls[board].footprint \in Nat \X Nat
      /\ minArea \in Nat
  BY <1>1 DEF TypeOK, Calls
<1>3. fp \in Nat \X Nat /\ IsFootprint(fp, brd) /\ brd \in Boards
  BY <1>1, <1>2, ExtendFootprint DEF CallsInv
<1>4. /\ minArea' = Area(fp) /\ Area(fp) < minArea
      /\ footprint' = fp /\ best' = brd /\ calls' = Finish(calls, brd)
      /\ UNCHANGED <<lock, iters>>
  BY DEF SerialBest, Betters, Fits
<1> HIDE DEF brd, fp
<1>5. /\ DOMAIN calls' = DOMAIN calls
      /\ \A b \in DOMAIN calls : /\ calls'[b] \in Calls
                                 /\ calls'[b].alt = calls[b].alt
                                 /\ calls'[b].footprint = calls[b].footprint
                                 /\ calls'[b].todo \subseteq calls[b].todo
  BY <1>4, <1>1, FinishKeeps DEF TypeOK
<1>6. CallsInv' BY <1>5, <1>1, FewerCalls
<1>7. Area(fp) \in Nat BY <1>3, AreaType
<1>8. TypeOK' BY <1>1, <1>3, <1>4, <1>5, <1>7 DEF TypeOK
<1>9. ItersInv' BY <1>1, <1>4 DEF ItersInv
<1>10. brd # Null BY <1>3, NullAssumption
<1>11. LockInv' BY <1>1, <1>3, <1>4, <1>10 DEF LockInv, Consistent
<1> QED BY <1>2, <1>4, <1>6, <1>7, <1>8, <1>9, <1>11 DEF IInv

LEMMA TaskNextInv == TaskIInv /\ [TaskNext]_taskVars => TaskIInv' /\ minArea' <= minArea
<1> SUFFICES ASSUME TaskIInv, [TaskNext]_taskVars PROVE TaskIInv' /\ minArea' <= minArea
  OBVIOUS
<1> IInv /\ minArea \in Nat BY DEF TaskIInv, IInv, TypeOK
<1>1. CASE UNCHANGED taskVars
  BY <1>1 DEF taskVars, vars, TaskIInv, IInv, TypeOK, CallsInv, ItersInv, LockInv, Consistent
<1>2. CASE build = "cilk" /\ Next /\ build' = build BY <1>2, NextInv DEF TaskIInv
<1>3. ASSUME NEW board \in DOMAIN calls, NEW r \in calls[board].todo, build' = build,
             \/ IfTask(board, r) \/ FinalTask(board, r) \/ PlainTask(board, r)
             \/ ManualTask(board, r) \/ ManualSer(board, r) \/ SerialTry(board, r)
      PROVE  TaskIInv' /\ minArea' <= minArea
  <2>1. TryWith(board, r, CallAfter(board, r))
    BY <1>3 DEF IfTask, FinalTask, PlainTask, ManualTask, ManualSer, SerialTry
  <2> QED BY <2>1, <1>3, IterationInv DEF TaskIInv
<1>4. ASSUME NEW board \in DOMAIN calls, NEW r \in calls[board].todo, build' = build,
             SerialBest(board, r)
      PROVE  TaskIInv' /\ minArea' <= minArea
  <2>1. lock = Null BY <1>4 DEF SerialBest, TaskIInv
  <2> QED BY <2>1, <1>4, SerialBestInv DEF TaskIInv
<1>5. ASSUME NEW board \in DOMAIN calls, build' = build, NextShape(board) \/ Return(board)
      PROVE  TaskIInv' /\ minArea' <= minArea
  <2>1. minArea' = minArea /\ lock' = lock BY <1>5 DEF NextShape, Return
  <2>2. IInv' BY <1>5, NextShapeInv, ReturnInv
  <2> QED BY <2>1, <2>2, <1>5 DEF TaskIInv
<1>6. ASSUME NEW brd \in DOMAIN iters, build' = build, Critical(brd)
      PROVE  TaskIInv' /\ minArea' <= minArea
  <2>1. build # "serial" /\ (Lock(brd) \/ Compare(brd) \/ Store(brd)) BY <1>6 DEF Critical
  <2> QED BY <2>1, <1>6, CriticalInv DEF TaskIInv
<1> QED BY <1>1, <1>2, <1>3, <1>4, <1>5, <1>6 DEF TaskNext, TaskStep

-----------------------------------------------------------------------------
(* Theorems *)

THEOREM Invariance == Spec => []IInv
<1>1. IInv /\ [Next]_vars => IInv' BY NextInv
<1> QED BY InitInv, <1>1, PTL DEF Spec

(* Outside the critical section the best board, its footprint and the      *)
(* bound belong together, though try_update_min changes them one by one    *)
(* and other tasks read the bound without the lock.                        *)
THEOREM ResultsBelongTogether == Spec => []BestIsConsistent
<1>1. IInv => BestIsConsistent BY DEF IInv, LockInv, Consistent, BestIsConsistent
<1> QED BY <1>1, Invariance, PTL

(* The bound never rises: a task that pruned by an older bound was right   *)
(* to, and no better result is overwritten.                                *)
THEOREM BoundOnlyFalls == Spec => AreaOnlyFalls
<1>1. IInv /\ [Next]_vars => [minArea' <= minArea]_vars
  BY NextInv
<1> QED BY <1>1, Invariance, PTL DEF Spec, AreaOnlyFalls

(* The same of every build: the OpenMP programs, which enter a critical    *)
(* section after the comparison, and the sequential one, which needs none. *)
THEOREM TaskInvariance == TaskSpec => []TaskIInv
<1>1. TaskIInv /\ [TaskNext]_taskVars => TaskIInv' BY TaskNextInv
<1> QED BY TaskInitInv, <1>1, PTL DEF TaskSpec

THEOREM TaskResultsBelongTogether == TaskSpec => []BestIsConsistent
<1>1. TaskIInv => BestIsConsistent
  BY DEF TaskIInv, IInv, LockInv, Consistent, BestIsConsistent
<1> QED BY <1>1, TaskInvariance, PTL

(* The bound never rises in any build.                                     *)
THEOREM TaskBoundOnlyFalls == TaskSpec => AreaOnlyFalls
<1>1. TaskIInv /\ [TaskNext]_taskVars => [minArea' <= minArea]_vars
  BY TaskNextInv
<1> QED BY <1>1, TaskInvariance, PTL DEF TaskSpec, AreaOnlyFalls

-----------------------------------------------------------------------------
(* Layouts *)

(* Induction, for sets of naturals.                                        *)
LEMMA NatSets ==
  ASSUME NEW T, 0 \in T, \A k \in Nat : k \in T => k + 1 \in T
  PROVE  Nat \subseteq T
<1> DEFINE R == OpToRel(<, Nat)
           N == Nat \ T
<1> SUFFICES ASSUME N # {} PROVE FALSE OBVIOUS
<1>1. IsWellFoundedOn(R, Nat) BY NatLessThanWellFounded
<1>2. N \subseteq Nat OBVIOUS
<1> HIDE DEF R, N
<1>3. PICK m \in N : \A k \in N : ~ (<<k, m>> \in R) BY <1>1, <1>2, WFMin
<1> USE DEF N
<1>4. m \in Nat /\ m # 0 OBVIOUS
<1>5. m - 1 \in Nat /\ m - 1 < m BY <1>4
<1>6. <<m - 1, m>> \in R BY <1>4, <1>5 DEF R, OpToRel
<1>7. m - 1 \in T BY <1>3, <1>5, <1>6
<1>8. (m - 1) + 1 \in T BY <1>5, <1>7
<1> QED BY <1>4, <1>8

(* The first k cells of a board. *)
First(board, k) == [i \in 1..k |-> board[i]]

(* A board on which each cell is where starts allows it, given the cells   *)
(* before it, and on none of them.                                         *)
IsLayout(board) ==
  /\ board \in Boards /\ Len(board) <= Len(Cells)
  /\ \A k \in 1..Len(board) :
       board[k] \in Positions(First(board, k - 1), k) /\ Free(First(board, k - 1), board[k])
IsComplete(board) == IsLayout(board) /\ Len(board) = Len(Cells)

LEMMA FirstType ==
  ASSUME NEW board \in Boards, NEW k \in 0..Len(board)
  PROVE  /\ First(board, k) \in Boards /\ Len(First(board, k)) = k
         /\ \A i \in 1..k : First(board, k)[i] = board[i]
         /\ \A i \in 0..k : First(First(board, k), i) = First(board, i)
         /\ k < Len(board) => First(board, k + 1) = Append(First(board, k), board[k + 1])
<1>1. Len(board) \in Nat /\ k \in Nat /\ \A i \in 1..Len(board) : board[i] \in Rectangles
  BY DEF Boards
<1>2. First(board, k) \in Boards /\ Len(First(board, k)) = k BY <1>1 DEF First, Boards
<1>3. \A i \in 1..k : First(board, k)[i] = board[i] BY <1>1 DEF First
<1>4. \A i \in 0..k : First(First(board, k), i) = First(board, i) BY <1>1 DEF First
<1>5. ASSUME k < Len(board) PROVE First(board, k + 1) = Append(First(board, k), board[k + 1])
  <2> DEFINE more == First(board, k + 1)
             a == Append(First(board, k), board[k + 1])
  <2>1. more \in Boards /\ Len(more) = k + 1 /\ \A i \in 1..(k + 1) : more[i] = board[i]
    BY <1>1, <1>5 DEF First, Boards
  <2>2. a \in Boards /\ Len(a) = k + 1 /\ a[k + 1] = board[k + 1]
        /\ \A i \in 1..k : a[i] = First(board, k)[i]
    BY <1>1, <1>2, <1>5 DEF Boards
  <2>3. \A i \in 1..(k + 1) : more[i] = a[i] BY <2>1, <2>2, <1>3, <1>1
  <2> HIDE DEF more, a
  <2> QED BY <2>1, <2>2, <2>3, <1>1, SeqEqual DEF Boards, more, a
<1> QED BY <1>2, <1>3, <1>4, <1>5

LEMMA FirstWhole ==
  ASSUME NEW board \in Boards
  PROVE  First(board, Len(board)) = board /\ First(board, 0) = <<>>
<1>1. /\ First(board, Len(board)) \in Boards /\ Len(First(board, Len(board))) = Len(board)
      /\ \A i \in 1..Len(board) : First(board, Len(board))[i] = board[i]
  BY FirstType DEF Boards
<1>2. First(board, Len(board)) = board BY <1>1, SeqEqual DEF Boards
<1>3. First(board, 0) \in Boards /\ Len(First(board, 0)) = 0 BY FirstType DEF Boards
<1> QED BY <1>2, <1>3 DEF Boards

(* The board a rectangle was laid on, and the rectangle.                   *)
LEMMA AppendParts ==
  ASSUME NEW board \in Boards, NEW r \in Rectangles
  PROVE  LET brd == Append(board, r)
         IN  /\ brd \in Boards /\ Len(brd) = Len(board) + 1 /\ brd # <<>>
             /\ Parent(brd) = board /\ brd[Len(brd)] = r
             /\ \A k \in 0..Len(board) : First(brd, k) = First(board, k)
<1> DEFINE brd == Append(board, r)
<1>1. /\ brd \in Boards /\ Len(brd) = Len(board) + 1 /\ Len(board) \in Nat
      /\ brd[Len(board) + 1] = r /\ \A i \in 1..Len(board) : brd[i] = board[i]
  BY DEF Boards
<1> HIDE DEF brd
<1>2. \A k \in 0..Len(board) : First(brd, k) = First(board, k) BY <1>1 DEF First
<1>3. brd # <<>> BY <1>1
<1>4. Parent(brd) = board
  <2> DEFINE p == SubSeq(brd, 1, Len(board))
  <2>1. p \in Seq(Rectangles) /\ Len(p) = Len(board)
        /\ \A i \in 1..Len(board) : p[i] = brd[i]
    BY <1>1, SubSeqProperties DEF Boards
  <2>2. p = board BY <2>1, <1>1, SeqEqual DEF Boards
  <2> QED BY <2>2, <1>1 DEF Parent
<1> QED BY <1>1, <1>2, <1>3, <1>4 DEF brd

LEMMA BoardParts ==
  ASSUME NEW board \in Boards, board # <<>>
  PROVE  /\ Parent(board) = First(board, Len(board) - 1) /\ Parent(board) \in Boards
         /\ Len(Parent(board)) = Len(board) - 1
         /\ board[Len(board)] \in Rectangles
         /\ board = Append(Parent(board), board[Len(board)])
<1> DEFINE k == Len(board) - 1
           r == board[Len(board)]
<1>1. k \in 0..Len(board) /\ k < Len(board) /\ k + 1 = Len(board) /\ r \in Rectangles
  BY DEF Boards
<1>2. First(board, k) \in Boards /\ Len(First(board, k)) = k
      /\ First(board, k + 1) = Append(First(board, k), board[k + 1])
  BY <1>1, FirstType
<1>3. board = Append(First(board, k), r) BY <1>1, <1>2, FirstWhole
<1>4. Parent(board) = First(board, k)
  <2> HIDE DEF k, r
  <2>1. Parent(Append(First(board, k), r)) = First(board, k) BY <1>1, <1>2, AppendParts
  <2> QED BY <2>1, <1>3
<1> QED BY <1>1, <1>2, <1>3, <1>4

(* A board that is laid out goes on being one when a cell is laid down.    *)
LEMMA AppendLayout ==
  ASSUME NEW board, IsLayout(board), Len(board) < Len(Cells),
         NEW r \in Rectangles, r \in Positions(board, NextCell(board)), Free(board, r)
  PROVE  IsLayout(Append(board, r))
<1> DEFINE brd == Append(board, r)
<1>1. board \in Boards /\ Len(board) \in Nat /\ Len(Cells) \in Nat
  BY CellsAssumption DEF IsLayout, Boards
<1>2. NextCell(board) = Len(board) + 1 BY <1>1, NextCellType
<1>3. /\ brd \in Boards /\ Len(brd) = Len(board) + 1 /\ brd[Len(brd)] = r
      /\ \A k \in 0..Len(board) : First(brd, k) = First(board, k)
      /\ \A i \in 1..Len(board) : brd[i] = board[i]
  BY <1>1, AppendParts DEF Boards
<1>4. First(board, Len(board)) = board BY <1>1, FirstWhole
<1> HIDE DEF brd
<1>5. ASSUME NEW k \in 1..Len(brd)
      PROVE  brd[k] \in Positions(First(brd, k - 1), k) /\ Free(First(brd, k - 1), brd[k])
  <2>1. CASE k = Len(board) + 1 BY <2>1, <1>1, <1>2, <1>3, <1>4
  <2>2. CASE k # Len(board) + 1
    <3>1. k \in 1..Len(board) /\ k - 1 \in 0..Len(board) BY <2>2, <1>1, <1>3
    <3>2. brd[k] = board[k] /\ First(brd, k - 1) = First(board, k - 1) BY <3>1, <1>3
    <3> QED BY <3>1, <3>2 DEF IsLayout
  <2> QED BY <2>1, <2>2
<1> QED BY <1>1, <1>3, <1>5 DEF IsLayout, brd

(* The first cells of a layout are laid out, and the next one has its      *)
(* place there.                                                            *)
LEMMA LayoutParts ==
  ASSUME NEW board, IsLayout(board), NEW k \in 0..Len(board)
  PROVE  /\ board \in Boards /\ IsLayout(First(board, k)) /\ Len(First(board, k)) = k
         /\ k < Len(board) => /\ NextCell(First(board, k)) = k + 1
                              /\ board[k + 1] \in Positions(First(board, k), k + 1)
                              /\ Free(First(board, k), board[k + 1])
                              /\ board[k + 1] \in Rectangles
<1>1. board \in Boards /\ Len(board) \in Nat /\ Len(board) <= Len(Cells) /\ Len(Cells) \in Nat
  BY CellsAssumption DEF IsLayout, Boards
<1> DEFINE part == First(board, k)
<1>2. /\ part \in Boards /\ Len(part) = k /\ \A i \in 1..k : part[i] = board[i]
      /\ \A i \in 0..k : First(part, i) = First(board, i)
  BY <1>1, FirstType
<1> HIDE DEF part
<1>3. ASSUME NEW i \in 1..k
      PROVE  part[i] \in Positions(First(part, i - 1), i) /\ Free(First(part, i - 1), part[i])
  <2>1. i \in 1..Len(board) /\ i - 1 \in 0..k BY <1>1
  <2>2. part[i] = board[i] /\ First(part, i - 1) = First(board, i - 1) BY <2>1, <1>2
  <2> QED BY <2>1, <2>2 DEF IsLayout
<1>4. IsLayout(part) BY <1>1, <1>2, <1>3 DEF IsLayout
<1>5. ASSUME k < Len(board)
      PROVE  /\ NextCell(part) = k + 1
             /\ board[k + 1] \in Positions(part, k + 1)
             /\ Free(part, board[k + 1]) /\ board[k + 1] \in Rectangles
  <2>1. k + 1 \in 1..Len(board) /\ (k + 1) - 1 = k BY <1>5, <1>1
  <2>2. NextCell(part) = k + 1 BY <1>1, <1>2, <1>5, NextCellType
  <2>3. board[k + 1] \in Positions(part, k + 1) /\ Free(part, board[k + 1])
    BY <2>1 DEF IsLayout, part
  <2> QED BY <2>1, <2>2, <2>3, <1>1 DEF Boards
<1> QED BY <1>1, <1>2, <1>4, <1>5 DEF part

(* Cells only make a footprint larger, so that of the first cells of a     *)
(* board is no larger than that of the board.                              *)
LEMMA AreaGrows ==
  ASSUME NEW fp \in Nat \X Nat, NEW fq \in Nat \X Nat, fp[1] <= fq[1], fp[2] <= fq[2]
  PROVE  Area(fp) <= Area(fq)
<1>1. PICK a \in Nat, b \in Nat, c \in Nat, d \in Nat :
        fp[1] = a /\ fp[2] = b /\ fq[1] = a + c /\ fq[2] = b + d
  <2>1. fq[1] - fp[1] \in Nat /\ fq[2] - fp[2] \in Nat
        /\ fq[1] = fp[1] + (fq[1] - fp[1]) /\ fq[2] = fp[2] + (fq[2] - fp[2])
    OBVIOUS
  <2> QED BY <2>1
<1>2. Area(fp) = a * b /\ Area(fq) = (a + c) * (b + d) BY <1>1 DEF Area
<1>3. (a + c) * (b + d) = a * b + a * d + c * b + c * d OBVIOUS
<1>4. a * b \in Nat /\ a * d \in Nat /\ c * b \in Nat /\ c * d \in Nat OBVIOUS
<1> QED BY <1>2, <1>3, <1>4

LEMMA FootprintGrows ==
  ASSUME NEW board \in Boards, NEW k \in 0..Len(board), NEW fp \in Nat \X Nat, NEW fq \in Nat \X Nat,
         IsFootprint(fp, First(board, k)), IsFootprint(fq, board)
  PROVE  Area(fp) <= Area(fq)
<1> DEFINE part == First(board, k)
<1>1. Len(part) = k /\ part \in Boards /\ \A i \in 1..k : part[i] = board[i] BY FirstType
<1>2. DOMAIN part = 1..k /\ DOMAIN board = 1..Len(board) /\ Len(board) \in Nat BY <1>1 DEF Boards
<1>3. \A i \in 1..Len(board) : board[i].bot \in Int /\ board[i].rhs \in Int
  <2>1. \A i \in 1..Len(board) : board[i] \in Rectangles BY DEF Boards
  <2> QED BY <2>1 DEF Rectangles
<1> HIDE DEF part
<1>4. fp[1] <= fq[1]
  <2>1. CASE fp[1] = 0 BY <2>1
  <2>2. CASE fp[1] # 0
    <3>1. PICK i \in 1..k : part[i].bot = fp[1] - 1 BY <2>2, <1>2 DEF IsFootprint, part
    <3>2. i \in 1..Len(board) /\ board[i].bot = fp[1] - 1 BY <3>1, <1>1, <1>2
    <3>3. board[i].bot < fq[1] BY <3>2, <1>2 DEF IsFootprint
    <3> QED BY <3>2, <3>3
  <2> QED BY <2>1, <2>2
<1>5. fp[2] <= fq[2]
  <2>1. CASE fp[2] = 0 BY <2>1
  <2>2. CASE fp[2] # 0
    <3>1. PICK i \in 1..k : part[i].rhs = fp[2] - 1 BY <2>2, <1>2 DEF IsFootprint, part
    <3>2. i \in 1..Len(board) /\ board[i].rhs = fp[2] - 1 BY <3>1, <1>1, <1>2
    <3>3. board[i].rhs < fq[2] BY <3>2, <1>2 DEF IsFootprint
    <3> QED BY <3>2, <3>3
  <2> QED BY <2>1, <2>2
<1> QED BY <1>4, <1>5, AreaGrows

(* What Layouts enumerates: the boards with one cell more than those of S. *)
LaidOn(board, alt) ==
  {Append(board, r) : r \in {s \in Starts(board, NextCell(board), alt) : Free(board, s)}}
After(board) == UNION {LaidOn(board, alt) : alt \in DOMAIN Cells[NextCell(board)].alt}
OneMore(S) == UNION {After(board) : board \in {b \in S : NextCell(b) # 0}}
LaidOut(k) == {b \in Boards : IsLayout(b) /\ Len(b) = k}

(* No cell follows the last one. *)
LEMMA LastCell ==
  ASSUME NEW board, IsLayout(board)
  PROVE  NextCell(board) = 0 <=> Len(board) = Len(Cells)
<1>1. board \in Boards /\ Len(board) \in Nat /\ Len(board) <= Len(Cells)
      /\ Len(Cells) \in Nat /\ Len(Cells) > 0
  BY CellsAssumption DEF IsLayout, Boards
<1>2. CASE Len(board) < Len(Cells) BY <1>1, <1>2, NextCellType
<1>3. CASE Len(board) = Len(Cells)
  <2>1. board # <<>> /\ Len(Cells) \in DOMAIN Cells BY <1>1, <1>3, CellsAssumption
  <2> QED BY <2>1, <1>3, CellsAssumption DEF NextCell
<1> QED BY <1>1, <1>2, <1>3

LEMMA OneMoreLaidOut ==
  ASSUME NEW k \in Nat
  PROVE  OneMore(LaidOut(k)) = LaidOut(k + 1)
<1>1. ASSUME NEW x \in OneMore(LaidOut(k)) PROVE x \in LaidOut(k + 1)
  <2>1. PICK board \in LaidOut(k) :
          /\ NextCell(board) # 0
          /\ \E alt \in DOMAIN Cells[NextCell(board)].alt :
               \E r \in Starts(board, NextCell(board), alt) : Free(board, r) /\ x = Append(board, r)
    <3>1. PICK board \in {b \in LaidOut(k) : NextCell(b) # 0} : x \in After(board) BY DEF OneMore
    <3>2. PICK alt \in DOMAIN Cells[NextCell(board)].alt : x \in LaidOn(board, alt) BY <3>1 DEF After
    <3>3. PICK r \in {s \in Starts(board, NextCell(board), alt) : Free(board, s)} : x = Append(board, r)
      BY <3>2 DEF LaidOn
    <3>4. /\ NextCell(board) # 0 /\ board \in LaidOut(k)
          /\ r \in Starts(board, NextCell(board), alt) /\ Free(board, r)
      BY <3>1, <3>3
    <3> QED BY <3>3, <3>4
  <2>7. PICK alt \in DOMAIN Cells[NextCell(board)].alt :
          \E r \in Starts(board, NextCell(board), alt) : Free(board, r) /\ x = Append(board, r)
    BY <2>1
  <2>2. PICK r \in Starts(board, NextCell(board), alt) : Free(board, r) /\ x = Append(board, r)
    BY <2>7
  <2>3. IsLayout(board) /\ board \in Boards /\ Len(board) = k BY DEF LaidOut
  <2>4. Len(board) < Len(Cells)
    BY <2>1, <2>3, LastCell, CellsAssumption DEF IsLayout
  <2>5. r \in Rectangles /\ r \in Positions(board, NextCell(board))
    BY <2>3, <2>4, StartsType DEF Positions
  <2>6. IsLayout(Append(board, r)) BY <2>2, <2>3, <2>4, <2>5, AppendLayout
  <2> QED BY <2>2, <2>3, <2>5, <2>6, AppendParts DEF LaidOut
<1>2. ASSUME NEW x \in LaidOut(k + 1) PROVE x \in OneMore(LaidOut(k))
  <2> DEFINE board == First(x, k)
             r == x[k + 1]
  <2>1. IsLayout(x) /\ x \in Boards /\ Len(x) = k + 1 /\ k \in 0..Len(x) BY DEF LaidOut
  <2>2. /\ IsLayout(board) /\ Len(board) = k /\ NextCell(board) = k + 1
        /\ r \in Positions(board, k + 1) /\ Free(board, r)
    BY <2>1, LayoutParts
  <2>3. x = Append(board, r) BY <2>1, FirstType, FirstWhole
  <2>4. board \in LaidOut(k) /\ NextCell(board) # 0 BY <2>2 DEF LaidOut, IsLayout
  <2> HIDE DEF board, r
  <2>5. PICK alt \in DOMAIN Cells[NextCell(board)].alt : r \in Starts(board, NextCell(board), alt)
    BY <2>2 DEF Positions
  <2>6. x \in LaidOn(board, alt) BY <2>2, <2>3, <2>5 DEF LaidOn
  <2>7. x \in After(board) BY <2>6 DEF After
  <2> QED BY <2>4, <2>7 DEF OneMore
<1> QED BY <1>1, <1>2

(* The recursive function of Layouts exists and is LaidOut.                *)
IsPlaced(f) == f = [k \in Nat |-> IF k = 0 THEN {<<>>} ELSE OneMore(f[k - 1])]

LEMMA PlacedExists == \E f : IsPlaced(f)
<1> DEFINE f == [k \in Nat |-> LaidOut(k)]
<1>1. LaidOut(0) = {<<>>}
  <2>1. <<>> \in Boards /\ Len(<<>>) = 0 /\ Len(Cells) >= 0 BY CellsAssumption DEF Boards
  <2>2. IsLayout(<<>>) BY <2>1 DEF IsLayout
  <2>3. \A b \in LaidOut(0) : b = <<>> BY DEF LaidOut, Boards
  <2> QED BY <2>1, <2>2, <2>3 DEF LaidOut
<1>2. ASSUME NEW k \in Nat PROVE f[k] = IF k = 0 THEN {<<>>} ELSE OneMore(f[k - 1])
  <2>1. CASE k = 0 BY <2>1, <1>1
  <2>2. CASE k # 0
    <3>1. k - 1 \in Nat /\ (k - 1) + 1 = k BY <2>2
    <3>2. OneMore(LaidOut(k - 1)) = LaidOut(k) BY <3>1, OneMoreLaidOut
    <3>3. f[k] = LaidOut(k) /\ f[k - 1] = LaidOut(k - 1) BY <3>1
    <3> QED BY <2>2, <3>2, <3>3
  <2> QED BY <2>1, <2>2
<1>3. f = [k \in Nat |-> IF k = 0 THEN {<<>>} ELSE OneMore(f[k - 1])]
  <2> DEFINE h == [k \in Nat |-> IF k = 0 THEN {<<>>} ELSE OneMore(f[k - 1])]
  <2>1. \A k \in Nat : f[k] = h[k] BY <1>2
  <2>2. f = [k \in Nat |-> f[k]] /\ h = [k \in Nat |-> h[k]] OBVIOUS
  <2> HIDE DEF f, h
  <2>3. f = h BY <2>1, <2>2
  <2> QED BY <2>3 DEF h
<1> QED BY <1>3, Zenon DEF IsPlaced

LEMMA PlacedIsLaidOut ==
  ASSUME NEW f, IsPlaced(f), NEW k \in Nat
  PROVE  f[k] = LaidOut(k)
<1> DEFINE T == {j \in Nat : f[j] = LaidOut(j)}
<1>1. f[0] = {<<>>} BY Zenon DEF IsPlaced
<1>2. \A j \in Nat : f[j + 1] = OneMore(f[j])
  <2> SUFFICES ASSUME NEW j \in Nat PROVE f[j + 1] = OneMore(f[j]) OBVIOUS
  <2>1. j + 1 \in Nat /\ j + 1 # 0 /\ (j + 1) - 1 = j OBVIOUS
  <2> HIDE DEF T
  <2>2. f[j + 1] = OneMore(f[(j + 1) - 1]) BY <2>1 DEF IsPlaced
  <2> QED BY <2>1, <2>2
<1>3. 0 \in T
  <2>1. <<>> \in Boards /\ Len(<<>>) = 0 /\ Len(Cells) >= 0 BY CellsAssumption DEF Boards
  <2>2. IsLayout(<<>>) BY <2>1 DEF IsLayout
  <2>3. \A b \in LaidOut(0) : b = <<>> BY DEF LaidOut, Boards
  <2>4. LaidOut(0) = {<<>>} BY <2>1, <2>2, <2>3 DEF LaidOut
  <2> QED BY <2>4, <1>1
<1>4. ASSUME NEW j \in Nat, j \in T PROVE j + 1 \in T
  <2>1. f[j + 1] = OneMore(LaidOut(j)) BY <1>2, <1>4
  <2> QED BY <2>1, OneMoreLaidOut
<1> HIDE DEF T
<1>5. Nat \subseteq T BY <1>3, <1>4, NatSets
<1> QED BY <1>5 DEF T

(* So the layouts are the complete boards that are laid out.               *)
LEMMA LayoutsAre == \A board : board \in Layouts <=> IsComplete(board)
<1> DEFINE placed == CHOOSE f : IsPlaced(f)
<1>1. IsPlaced(placed) BY PlacedExists
<1>2. Layouts = UNION {{b \in placed[k] : NextCell(b) = 0} : k \in 1..Len(Cells)}
  BY DEF Layouts, IsPlaced, OneMore, After, LaidOn
<1> HIDE DEF placed
<1>3. Len(Cells) \in Nat /\ Len(Cells) > 0 BY CellsAssumption
<1>4. \A k \in 1..Len(Cells) : placed[k] = LaidOut(k) BY <1>1, <1>3, PlacedIsLaidOut
<1> SUFFICES ASSUME NEW board PROVE board \in Layouts <=> IsComplete(board) OBVIOUS
<1>5. ASSUME board \in Layouts PROVE IsComplete(board)
  <2>1. PICK k \in 1..Len(Cells) : board \in placed[k] /\ NextCell(board) = 0 BY <1>2, <1>5
  <2>2. IsLayout(board) BY <2>1, <1>4 DEF LaidOut
  <2> QED BY <2>1, <2>2, LastCell DEF IsComplete
<1>6. ASSUME IsComplete(board) PROVE board \in Layouts
  <2>1. NextCell(board) = 0 BY <1>6, LastCell DEF IsComplete
  <2>2. board \in LaidOut(Len(Cells)) BY <1>6 DEF IsComplete, IsLayout, LaidOut
  <2>3. Len(Cells) \in 1..Len(Cells) BY <1>3
  <2> QED BY <2>1, <2>2, <2>3, <1>2, <1>4
<1> QED BY <1>5, <1>6

-----------------------------------------------------------------------------
(* What is left to try *)

(* The positions that a call on a board has not done with, in this and in  *)
(* later orientations.                                                     *)
Ahead(call, board) ==
  call.todo \union
  UNION {Starts(board, NextCell(board), alt) :
           alt \in {a \in DOMAIN Cells[NextCell(board)].alt : a > call.alt}}

(* With the calls c in progress, a layout is still to be met: the call     *)
(* that laid its first k cells down has the next one ahead, and no call    *)
(* goes on from there yet.                                                 *)
CoveredAt(c, board, k) ==
  /\ k \in 0..(Len(board) - 1)
  /\ First(board, k) \in DOMAIN c /\ First(board, k + 1) \notin DOMAIN c
  /\ board[k + 1] \in Ahead(c[First(board, k)], First(board, k))
Covered(c, board) == \E k \in 0..(Len(board) - 1) : CoveredAt(c, board, k)

(* The boards worked on form a tree: the call that a board came from waits *)
(* for the position it laid down last.                                     *)
Tree(c, its) ==
  \A b \in DOMAIN c \union its :
    b # <<>> => Parent(b) \in DOMAIN c /\ b[Len(b)] \in c[Parent(b)].todo

LaidInv ==
  /\ \A b \in DOMAIN calls :
       IsLayout(b) /\ calls[b].todo \subseteq Positions(b, NextCell(b))
  /\ \A b \in DOMAIN iters : IsComplete(b)
  /\ best # Null => IsComplete(best)

(* Every layout that would better the bound is still to be met.            *)
CoverInv ==
  \A b : IsComplete(b) =>
    \A fp \in Nat \X Nat : IsFootprint(fp, b) /\ Area(fp) < minArea => Covered(calls, b)

MinInv == IInv /\ Tree(calls, DOMAIN iters) /\ LaidInv /\ CoverInv

(* A call begins with all positions ahead.                                 *)
IsWhole(call, board) ==
  /\ call.todo \subseteq Positions(board, NextCell(board))
  /\ Positions(board, NextCell(board)) \subseteq Ahead(call, board)

LEMMA CallOnWhole ==
  ASSUME NEW board \in Boards, Len(board) < Len(Cells), NEW fp
  PROVE  IsWhole(CallOn(board, fp), board)
<1> DEFINE id == NextCell(board)
           call == CallOn(board, fp)
<1>1. 1 \in DOMAIN Cells[id].alt /\ \A a \in DOMAIN Cells[id].alt : a \in Nat /\ a >= 1
  <2>1. Cells[id].alt \in Seq(Nat \X Nat) /\ 1 \in DOMAIN Cells[id].alt
    BY NextCellType DEF CellTypes
  <2> HIDE DEF id
  <2> QED BY <2>1
<1>2. call.todo = Starts(board, id, 1) /\ call.alt = 1 BY DEF CallOn
<1> HIDE DEF call, id
<1>3. call.todo \subseteq Positions(board, id) BY <1>1, <1>2 DEF Positions
<1>4. ASSUME NEW r \in Positions(board, id) PROVE r \in Ahead(call, board)
  <2>1. PICK alt \in DOMAIN Cells[id].alt : r \in Starts(board, id, alt) BY DEF Positions
  <2>2. alt = 1 \/ alt > call.alt BY <1>1, <1>2
  <2> QED BY <2>1, <2>2, <1>2 DEF Ahead, id
<1> QED BY <1>3, <1>4 DEF IsWhole, call, id

LEMMA TaskCallWhole ==
  ASSUME NEW board \in Boards, Len(board) < Len(Cells), NEW fp
  PROVE  IsWhole(TaskCall(board, fp), board)
<1>1. CASE Deferred(board)
  <2>1. TaskCall(board, fp).todo = Positions(board, NextCell(board)) BY <1>1 DEF TaskCall
  <2> QED BY <2>1 DEF IsWhole, Ahead
<1>2. CASE ~ Deferred(board)
  <2>1. TaskCall(board, fp) = CallOn(board, fp) BY <1>2 DEF TaskCall
  <2> QED BY <2>1, CallOnWhole
<1> QED BY <1>1, <1>2

-----------------------------------------------------------------------------
(* What the calls still cover, when they change *)

(* A new call takes over the layouts that begin with its board.            *)
LEMMA BeginCovers ==
  ASSUME NEW c, NEW its, Tree(c, its), NEW brd \in Boards, brd \notin DOMAIN c,
         NEW call, IsWhole(call, brd), NEW b, IsComplete(b), Len(brd) < Len(Cells),
         Covered(c, b)
  PROVE  Covered(With(c, brd, call), b)
<1> DEFINE d == With(c, brd, call)
<1> SUFFICES Covered(d, b) OBVIOUS
<1>1. /\ DOMAIN d = DOMAIN c \union {brd} /\ d[brd] = call
      /\ \A x \in DOMAIN c : d[x] = c[x]
  BY DEF With
<1>2. PICK k \in 0..(Len(b) - 1) : CoveredAt(c, b, k) BY DEF Covered
<1>3. /\ b \in Boards /\ IsLayout(b) /\ Len(b) = Len(Cells) /\ Len(b) \in Nat
      /\ k \in 0..Len(b) /\ k < Len(b)
  BY DEF IsComplete, IsLayout, Boards
<1> HIDE DEF d
<1>4. CASE First(b, k + 1) # brd
  <2>1. CoveredAt(d, b, k) BY <1>1, <1>2, <1>4 DEF CoveredAt
  <2> QED BY <2>1 DEF Covered
<1>5. CASE First(b, k + 1) = brd
  <2>1. k + 1 \in 0..Len(b) /\ Len(brd) = k + 1 BY <1>3, <1>5, FirstType
  <2>2. k + 1 < Len(b) /\ k + 1 \in 0..(Len(b) - 1) BY <2>1, <1>3
  <2>3. /\ NextCell(brd) = (k + 1) + 1
        /\ b[(k + 1) + 1] \in Positions(brd, (k + 1) + 1)
    BY <1>3, <1>5, <2>1, <2>2, LayoutParts
  <2>4. b[(k + 1) + 1] \in Ahead(call, brd) BY <2>3 DEF IsWhole
  <2>5. First(b, (k + 1) + 1) \notin DOMAIN d
    <3> DEFINE x == First(b, (k + 1) + 1)
    <3>1. /\ (k + 1) + 1 \in 0..Len(b) /\ x \in Boards /\ Len(x) = (k + 1) + 1
          /\ First(x, k + 1) = brd
      BY <1>3, <1>5, <2>1, <2>2, FirstType
    <3> HIDE DEF x
    <3>2. x # <<>> /\ x # brd BY <3>1, <2>1
    <3>3. Parent(x) = brd BY <3>1, <3>2, BoardParts
    <3>4. x \notin DOMAIN c BY <3>2, <3>3 DEF Tree
    <3> QED BY <3>2, <3>4, <1>1 DEF x
  <2>6. CoveredAt(d, b, k + 1) BY <2>2, <2>4, <2>5, <1>1, <1>5 DEF CoveredAt
  <2> QED BY <2>2, <2>6 DEF Covered
<1> QED BY <1>4, <1>5

(* A position that is done with was that of the layouts that begin with    *)
(* its board only.                                                         *)
LEMMA FinishCovers ==
  ASSUME NEW c, NEW brd \in Boards, brd # <<>>,
         NEW b \in Boards, NEW k, CoveredAt(c, b, k)
  PROVE  CoveredAt(Finish(c, brd), b, k) \/ First(b, k + 1) = brd
<1> DEFINE d == Finish(c, brd)
           last == brd[Len(brd)]
<1> SUFFICES ASSUME First(b, k + 1) # brd PROVE CoveredAt(d, b, k) OBVIOUS
<1>1. /\ k \in 0..Len(b) /\ k < Len(b)
      /\ First(b, k + 1) = Append(First(b, k), b[k + 1])
  <2>1. k \in 0..(Len(b) - 1) /\ Len(b) \in Nat BY DEF CoveredAt, Boards
  <2>2. k \in 0..Len(b) /\ k < Len(b) BY <2>1
  <2> QED BY <2>2, FirstType
<1>2. brd = Append(Parent(brd), last) BY BoardParts
<1>3. DOMAIN d = DOMAIN c BY DEF Finish
<1>4. First(b, k) \in DOMAIN c /\ b[k + 1] \in Ahead(c[First(b, k)], First(b, k))
  BY DEF CoveredAt
<1>5. CASE First(b, k) # Parent(brd)
  <2>1. d[First(b, k)] = c[First(b, k)] BY <1>4, <1>5 DEF Finish
  <2> QED BY <2>1, <1>3 DEF CoveredAt
<1>6. CASE First(b, k) = Parent(brd)
  <2>1. b[k + 1] # last BY <1>1, <1>2, <1>6
  <2>2. d[Parent(brd)] = [c[Parent(brd)] EXCEPT !.todo = @ \ {last}]
    BY <1>4, <1>6 DEF Finish
  <2>3. b[k + 1] \in Ahead(d[Parent(brd)], Parent(brd)) BY <2>1, <2>2, <1>4, <1>6 DEF Ahead
  <2> QED BY <2>3, <1>3, <1>6 DEF CoveredAt
<1> QED BY <1>5, <1>6

(* A call that returns covers nothing any more.                            *)
LEMMA ReturnCovers ==
  ASSUME NEW c, NEW board \in DOMAIN c, c[board].todo = {},
         \A a \in DOMAIN Cells[NextCell(board)].alt : ~ (a > c[board].alt),
         NEW b, NEW k, CoveredAt(c, b, k)
  PROVE  CoveredAt(Without(c, board), b, k) /\ First(b, k + 1) # board
<1>1. Ahead(c[board], board) = {} BY DEF Ahead
<1>2. First(b, k) # board /\ First(b, k + 1) # board BY <1>1 DEF CoveredAt
<1>3. DOMAIN Without(c, board) = DOMAIN c \ {board}
      /\ \A x \in DOMAIN c \ {board} : Without(c, board)[x] = c[x]
  BY DEF Without
<1> QED BY <1>2, <1>3 DEF CoveredAt

(* The next orientation is one of those that were ahead.                   *)
LEMMA ShapeCovers ==
  ASSUME NEW c, NEW d, DOMAIN d = DOMAIN c, NEW board \in DOMAIN c, c[board].todo = {},
         c[board].alt \in Nat, \A a \in DOMAIN Cells[NextCell(board)].alt : a \in Nat,
         d[board].alt = c[board].alt + 1,
         d[board].todo = Starts(board, NextCell(board), c[board].alt + 1),
         \A x \in DOMAIN c : x # board => d[x] = c[x],
         NEW b, NEW k, CoveredAt(c, b, k)
  PROVE  CoveredAt(d, b, k)
<1>1. CASE First(b, k) # board BY <1>1 DEF CoveredAt
<1>2. CASE First(b, k) = board
  <2>1. PICK a \in DOMAIN Cells[NextCell(board)].alt :
          a > c[board].alt /\ b[k + 1] \in Starts(board, NextCell(board), a)
    BY <1>2 DEF CoveredAt, Ahead
  <2>2. a = c[board].alt + 1 \/ a > d[board].alt BY <2>1
  <2>3. b[k + 1] \in Ahead(d[board], board) BY <2>1, <2>2 DEF Ahead
  <2> QED BY <2>3, <1>2 DEF CoveredAt
<1> QED BY <1>1, <1>2

-----------------------------------------------------------------------------
(* How the tree of the boards changes *)

LEMMA BeginTree ==
  ASSUME NEW c, NEW its, Tree(c, its), NEW call, DOMAIN c \subseteq Boards,
         NEW board \in DOMAIN c, NEW r \in Rectangles, r \in c[board].todo,
         Append(board, r) \notin DOMAIN c
  PROVE  /\ Tree(With(c, Append(board, r), call), its)
         /\ Tree(c, its \union {Append(board, r)})
<1> DEFINE brd == Append(board, r)
           d == With(c, brd, call)
<1>1. Parent(brd) = board /\ brd[Len(brd)] = r BY AppendParts
<1>2. DOMAIN d = DOMAIN c \union {brd} /\ \A x \in DOMAIN c : d[x] = c[x] BY DEF With
<1> HIDE DEF brd, d
<1>3. Tree(d, its) BY <1>1, <1>2 DEF Tree
<1>4. Tree(c, its \union {brd}) BY <1>1 DEF Tree
<1> QED BY <1>3, <1>4 DEF brd, d

LEMMA FinishTree ==
  ASSUME NEW c, NEW its, Tree(c, its), DOMAIN c \union its \subseteq Boards,
         NEW brd \in Boards, brd # <<>>, brd \notin DOMAIN c \union its
  PROVE  Tree(Finish(c, brd), its)
<1> DEFINE d == Finish(c, brd)
           last == brd[Len(brd)]
<1> SUFFICES ASSUME NEW b \in DOMAIN d \union its, b # <<>>
             PROVE  Parent(b) \in DOMAIN d /\ b[Len(b)] \in d[Parent(b)].todo
  BY DEF Tree
<1>1. DOMAIN d = DOMAIN c BY DEF Finish
<1>2. Parent(b) \in DOMAIN c /\ b[Len(b)] \in c[Parent(b)].todo BY <1>1 DEF Tree
<1>3. CASE Parent(b) # Parent(brd)
  <2>1. d[Parent(b)] = c[Parent(b)] BY <1>2, <1>3 DEF Finish
  <2> QED BY <1>1, <1>2, <2>1
<1>4. CASE Parent(b) = Parent(brd)
  <2>1. b = Append(Parent(b), b[Len(b)]) /\ brd = Append(Parent(brd), last)
    BY <1>1, BoardParts
  <2>2. b[Len(b)] # last BY <2>1, <1>1, <1>4
  <2>3. d[Parent(b)] = [c[Parent(b)] EXCEPT !.todo = @ \ {last}] BY <1>2, <1>4 DEF Finish
  <2> QED BY <1>1, <1>2, <2>2, <2>3
<1> QED BY <1>3, <1>4

LEMMA ReturnTree ==
  ASSUME NEW c, NEW its, Tree(c, its),
         NEW board \in DOMAIN c, c[board].todo = {}
  PROVE  Tree(Without(c, board), its)
<1>1. DOMAIN Without(c, board) = DOMAIN c \ {board}
      /\ \A x \in DOMAIN c \ {board} : Without(c, board)[x] = c[x]
  BY DEF Without
<1> QED BY <1>1 DEF Tree

-----------------------------------------------------------------------------
(* The steps *)

(* An iteration whose board can not better the bound takes none of the     *)
(* layouts with it that would.                                             *)
LEMMA PrunedIsWorse ==
  ASSUME IInv, ~ XVArray, NEW board \in DOMAIN calls, NEW r \in calls[board].todo,
         ~ Fits(board, r), NEW b, IsComplete(b), NEW fp \in Nat \X Nat, IsFootprint(fp, b),
         Area(fp) < minArea, NEW k \in 0..(Len(b) - 1), First(b, k + 1) = Append(board, r)
  PROVE  FALSE
<1> DEFINE new == Extend(calls[board].footprint, r)
<1>1. /\ board \in Boards /\ r \in Rectangles /\ calls[board].footprint \in Nat \X Nat
      /\ IsFootprint(calls[board].footprint, board) /\ minArea \in Nat
  BY DEF IInv, TypeOK, CallsInv, Calls
<1>2. b \in Boards /\ IsLayout(b) /\ Len(b) \in Nat /\ k \in 0..Len(b) /\ k + 1 \in 0..Len(b)
      /\ k < Len(b)
  BY DEF IsComplete, IsLayout, Boards
<1>3. First(b, k) = board /\ b[k + 1] = r
  <2>1. /\ First(b, k) \in Boards /\ b[k + 1] \in Rectangles
        /\ First(b, k + 1) = Append(First(b, k), b[k + 1])
    BY <1>2, FirstType, LayoutParts
  <2> DEFINE p == First(b, k)
             q == b[k + 1]
  <2>2. Parent(Append(p, q)) = p /\ Append(p, q)[Len(Append(p, q))] = q BY <2>1, AppendParts
  <2>3. Parent(Append(board, r)) = board /\ Append(board, r)[Len(Append(board, r))] = r
    BY <1>1, AppendParts
  <2> QED BY <2>1, <2>2, <2>3
<1>4. Free(board, r) BY <1>2, <1>3, LayoutParts
<1>5. LayDown(board, r) BY <1>4 DEF LayDown
<1>6. new \in Nat \X Nat /\ IsFootprint(new, First(b, k + 1)) BY <1>1, ExtendFootprint
<1> HIDE DEF new
<1>7. Area(new) <= Area(fp) BY <1>2, <1>6, FootprintGrows
<1>8. Area(new) \in Nat /\ Area(fp) \in Nat BY <1>6, AreaType
<1>9. ~ (Area(new) < minArea) BY <1>5 DEF Fits, new
<1> QED BY <1>1, <1>7, <1>8, <1>9

LEMMA FitsIsLaidOut ==
  ASSUME MinInv, ~ XVArray, NEW board \in DOMAIN calls, NEW r \in calls[board].todo,
         Fits(board, r)
  PROVE  IsLayout(Append(board, r))
<1>1. /\ IsLayout(board) /\ r \in Positions(board, NextCell(board))
      /\ Len(board) < Len(Cells) /\ r \in Rectangles
  BY DEF MinInv, LaidInv, IInv, TypeOK, CallsInv, Calls
<1>2. Free(board, r) BY DEF Fits, LayDown
<1> QED BY <1>1, <1>2, AppendLayout

LEMMA TryWithMin ==
  ASSUME MinInv, ~ XVArray, NEW board \in DOMAIN calls, NEW r \in calls[board].todo,
         NEW newCall, TryWith(board, r, newCall), IInv',
         Len(board) + 1 < Len(Cells) => IsWhole(newCall, Append(board, r))
  PROVE  MinInv'
<1> DEFINE brd == Append(board, r)
           fp == Extend(calls[board].footprint, r)
           last == Cells[r.id].next = 0
<1>1. /\ IInv /\ Tree(calls, DOMAIN iters) /\ LaidInv /\ CoverInv
      /\ TypeOK /\ CallsInv /\ ItersInv
  BY DEF MinInv, IInv
<1>2. /\ board \in Boards /\ r \in Rectangles /\ Len(board) < Len(Cells)
      /\ r.id = Len(board) + 1 /\ DOMAIN calls \subseteq Boards /\ DOMAIN iters \subseteq Boards
      /\ Len(board) \in Nat /\ Len(Cells) \in Nat
  BY <1>1, CellsAssumption DEF TypeOK, CallsInv, Calls, Boards
<1>3. brd \in Boards /\ Len(brd) = Len(board) + 1 /\ brd # <<>> BY <1>2, AppendParts
<1>4. /\ brd \notin DOMAIN calls \union DOMAIN iters
      /\ calls' = CASE ~ Fits(board, r) -> Finish(calls, brd)
                    [] Fits(board, r) /\ ~ last -> With(calls, brd, newCall)
                    [] OTHER -> calls
      /\ iters' = IF Fits(board, r) /\ last THEN With(iters, brd, [pc |-> "lock", footprint |-> fp])
                  ELSE iters
      /\ minArea' = minArea /\ best' = best
  BY DEF TryWith
<1>5. last <=> Len(brd) = Len(Cells)
  <2>1. r.id \in DOMAIN Cells BY <1>2, CellsAssumption
  <2> QED BY <2>1, <1>2, <1>3, CellsAssumption
<1> HIDE DEF last
<1>6. CASE ~ Fits(board, r)
  <2>1. calls' = Finish(calls, brd) /\ iters' = iters BY <1>4, <1>6
  <2>2. Tree(calls, DOMAIN iters)' BY <2>1, <1>1, <1>2, <1>3, <1>4, FinishTree
  <2>3. LaidInv'
    <3>1. DOMAIN calls' = DOMAIN calls
          /\ \A b \in DOMAIN calls : calls'[b].todo \subseteq calls[b].todo
      BY <2>1, <1>1, FinishKeeps DEF TypeOK
    <3> QED BY <3>1, <2>1, <1>1, <1>4 DEF LaidInv
  <2>4. CoverInv'
    <3> SUFFICES ASSUME NEW b, IsComplete(b), NEW fq \in Nat \X Nat, IsFootprint(fq, b),
                        Area(fq) < minArea
                 PROVE  Covered(Finish(calls, brd), b)
      BY <2>1, <1>4 DEF CoverInv
    <3>1. PICK k \in 0..(Len(b) - 1) : CoveredAt(calls, b, k) BY <1>1 DEF CoverInv, Covered
    <3>2. b \in Boards BY DEF IsComplete, IsLayout
    <3>3. First(b, k + 1) # brd BY <1>1, <1>6, PrunedIsWorse
    <3>4. CoveredAt(Finish(calls, brd), b, k) BY <1>3, <3>1, <3>2, <3>3, FinishCovers
    <3> QED BY <3>4 DEF Covered
  <2> QED BY <2>2, <2>3, <2>4 DEF MinInv
<1>7. CASE Fits(board, r) /\ ~ last
  <2>1. calls' = With(calls, brd, newCall) /\ iters' = iters BY <1>4, <1>7
  <2>2. Len(brd) < Len(Cells) /\ IsWhole(newCall, brd) BY <1>2, <1>3, <1>5, <1>7
  <2>3. Tree(calls, DOMAIN iters)'
    <3>1. Tree(With(calls, brd, newCall), DOMAIN iters) BY <1>1, <1>2, <1>4, BeginTree
    <3> QED BY <3>1, <2>1
  <2>4. LaidInv'
    <3>1. DOMAIN calls' = DOMAIN calls \union {brd} /\ calls'[brd] = newCall
          /\ \A b \in DOMAIN calls : calls'[b] = calls[b]
      BY <2>1, <1>4 DEF With
    <3>2. IsLayout(brd) BY <1>7, FitsIsLaidOut
    <3> QED BY <3>1, <3>2, <2>1, <2>2, <1>1, <1>4 DEF LaidInv, IsWhole
  <2>5. CoverInv'
    <3> SUFFICES ASSUME NEW b, IsComplete(b), NEW fq \in Nat \X Nat, IsFootprint(fq, b),
                        Area(fq) < minArea
                 PROVE  Covered(With(calls, brd, newCall), b)
      BY <2>1, <1>4 DEF CoverInv
    <3>1. Covered(calls, b) BY <1>1 DEF CoverInv
    <3> QED BY <3>1, <2>2, <1>1, <1>3, <1>4, BeginCovers
  <2> QED BY <2>3, <2>4, <2>5 DEF MinInv
<1>8. CASE Fits(board, r) /\ last
  <2>1. calls' = calls /\ DOMAIN iters' = DOMAIN iters \union {brd} BY <1>4, <1>8 DEF With
  <2>2. Tree(calls, DOMAIN iters)'
    <3>1. Tree(calls, DOMAIN iters \union {brd}) BY <1>1, <1>2, <1>4, BeginTree
    <3> QED BY <3>1, <2>1
  <2>3. IsComplete(brd) BY <1>5, <1>8, FitsIsLaidOut DEF IsComplete
  <2>4. LaidInv' BY <2>1, <2>3, <1>1, <1>4 DEF LaidInv
  <2>5. CoverInv' BY <2>1, <1>1, <1>4 DEF CoverInv
  <2> QED BY <2>2, <2>4, <2>5 DEF MinInv
<1> QED BY <1>6, <1>7, <1>8

(* A complete board that is done with: the best board, or no better than   *)
(* the bound.                                                              *)
LEMMA DoneMin ==
  ASSUME MinInv, IInv', NEW brd, IsComplete(brd),
         calls' = Finish(calls, brd), DOMAIN iters' = DOMAIN iters \ {brd},
         best' \in {best, brd},
         NEW fp \in Nat \X Nat, IsFootprint(fp, brd), minArea' <= minArea, minArea' <= Area(fp),
         best # Null => best' # Null
  PROVE  MinInv'
<1>1. /\ IInv /\ Tree(calls, DOMAIN iters) /\ LaidInv /\ CoverInv
      /\ TypeOK /\ CallsInv /\ TypeOK'
  BY DEF MinInv, IInv
<1>2. /\ brd \in Boards /\ Len(brd) = Len(Cells) /\ Len(brd) \in Nat /\ Len(brd) > 0 /\ brd # <<>>
      /\ minArea \in Nat /\ minArea' \in Nat
  BY <1>1, CellsAssumption DEF IsComplete, IsLayout, TypeOK
<1>3. brd \notin DOMAIN calls BY <1>1, <1>2 DEF CallsInv
<1>4. /\ DOMAIN calls' = DOMAIN calls
      /\ \A b \in DOMAIN calls : calls'[b].todo \subseteq calls[b].todo
  BY <1>1, FinishKeeps DEF TypeOK
<1>5. Tree(calls, DOMAIN iters)'
  <2>1. Tree(calls, DOMAIN iters \ {brd}) BY <1>1 DEF Tree
  <2>2. DOMAIN calls \union (DOMAIN iters \ {brd}) \subseteq Boards BY <1>1 DEF TypeOK
  <2>3. Tree(Finish(calls, brd), DOMAIN iters \ {brd})
    BY <2>1, <2>2, <1>2, <1>3, FinishTree
  <2> QED BY <2>3
<1>6. LaidInv' BY <1>1, <1>4 DEF LaidInv
<1>7. CoverInv'
  <2> SUFFICES ASSUME NEW b, IsComplete(b), NEW fq \in Nat \X Nat, IsFootprint(fq, b),
                      Area(fq) < minArea'
               PROVE  Covered(Finish(calls, brd), b)
    BY DEF CoverInv
  <2>1. Area(fq) \in Nat /\ Area(fp) \in Nat /\ Area(fq) < minArea BY <1>2, AreaType
  <2>2. PICK k \in 0..(Len(b) - 1) : CoveredAt(calls, b, k) BY <2>1, <1>1 DEF CoverInv, Covered
  <2>3. b \in Boards /\ Len(b) = Len(Cells) BY DEF IsComplete, IsLayout
  <2>4. First(b, k + 1) # brd
    <3> SUFFICES ASSUME First(b, k + 1) = brd PROVE FALSE OBVIOUS
    <3>1. k + 1 \in 0..Len(b) BY <2>3, <1>2
    <3>2. Area(fp) <= Area(fq) BY <3>1, <2>3, FootprintGrows
    <3> QED BY <3>2, <2>1, <1>2
  <2>5. CoveredAt(Finish(calls, brd), b, k) BY <1>2, <2>2, <2>3, <2>4, FinishCovers
  <2> QED BY <2>5 DEF Covered
<1> QED BY <1>5, <1>6, <1>7 DEF MinInv

LEMMA CriticalMin ==
  ASSUME MinInv, NEW brd \in DOMAIN iters, Lock(brd) \/ Compare(brd) \/ Store(brd), IInv'
  PROVE  MinInv'
<1>1. /\ IInv /\ Tree(calls, DOMAIN iters) /\ LaidInv /\ CoverInv
      /\ TypeOK /\ ItersInv /\ LockInv
  BY DEF MinInv, IInv
<1>2. /\ IsComplete(brd) /\ iters[brd] \in Iterations
      /\ iters[brd].footprint \in Nat \X Nat /\ IsFootprint(iters[brd].footprint, brd)
      /\ minArea \in Nat /\ brd # Null
  BY <1>1, NullAssumption DEF LaidInv, TypeOK, ItersInv, Iterations
<1>3. Area(iters[brd].footprint) \in Nat BY <1>2, AreaType
<1>4. CASE Lock(brd)
  <2>1. DOMAIN iters' = DOMAIN iters /\ calls' = calls /\ minArea' = minArea /\ best' = best
    BY <1>4 DEF Lock
  <2> QED BY <2>1, <1>1 DEF MinInv, LaidInv, CoverInv
<1>5. CASE Compare(brd)
  <2>1. CASE Area(iters[brd].footprint) < minArea
    <3>1. /\ DOMAIN iters' = DOMAIN iters /\ calls' = calls /\ best' = best
          /\ minArea' = Area(iters[brd].footprint)
      BY <1>5, <2>1 DEF Compare
    <3>2. CoverInv'
      <4> SUFFICES ASSUME NEW b, IsComplete(b), NEW fq \in Nat \X Nat, IsFootprint(fq, b),
                          Area(fq) < minArea'
                   PROVE  Covered(calls, b)
        BY <3>1 DEF CoverInv
      <4>1. Area(fq) < minArea BY <3>1, <2>1, <1>2, <1>3, AreaType
      <4> QED BY <4>1, <1>1 DEF CoverInv
    <3>3. LaidInv' BY <3>1, <1>1 DEF LaidInv
    <3>4. Tree(calls, DOMAIN iters)' BY <3>1, <1>1
    <3> QED BY <3>2, <3>3, <3>4 DEF MinInv
  <2>2. CASE ~ (Area(iters[brd].footprint) < minArea)
    <3>1. /\ DOMAIN iters' = DOMAIN iters \ {brd} /\ calls' = Finish(calls, brd)
          /\ best' = best /\ minArea' = minArea
      BY <1>5, <2>2 DEF Compare, Without
    <3>2. minArea' <= minArea /\ minArea' <= Area(iters[brd].footprint)
      BY <3>1, <2>2, <1>2, <1>3
    <3> QED BY <3>1, <3>2, <1>2, DoneMin
  <2> QED BY <2>1, <2>2
<1>6. CASE Store(brd)
  <2>1. /\ DOMAIN iters' = DOMAIN iters \ {brd} /\ calls' = Finish(calls, brd)
        /\ best' = brd /\ minArea' = minArea /\ iters[brd].pc = "store"
    BY <1>6 DEF Store, Without
  <2>2. lock = brd BY <2>1, <1>1 DEF LockInv
  <2>3. minArea = Area(iters[brd].footprint) BY <2>1, <2>2, <1>1, <1>2 DEF LockInv
  <2>4. minArea' <= minArea /\ minArea' <= Area(iters[brd].footprint) BY <2>1, <2>3, <1>2
  <2> QED BY <2>1, <2>4, <1>2, DoneMin
<1> QED BY <1>4, <1>5, <1>6

LEMMA NextShapeMin ==
  ASSUME MinInv, NEW board \in DOMAIN calls, NextShape(board), IInv'
  PROVE  MinInv'
<1> DEFINE id == NextCell(board)
           alt == calls[board].alt + 1
<1>1. /\ IInv /\ Tree(calls, DOMAIN iters) /\ LaidInv /\ CoverInv /\ TypeOK /\ CallsInv
      /\ CallsInv'
  BY DEF MinInv, IInv
<1>2. /\ board \in Boards /\ calls[board] \in Calls /\ Len(board) < Len(Cells)
  BY <1>1 DEF TypeOK, CallsInv
<1>3. /\ DOMAIN calls' = DOMAIN calls /\ calls[board].todo = {}
      /\ calls'[board].alt = alt /\ calls'[board].todo = Starts(board, id, alt)
      /\ \A b \in DOMAIN calls : b # board => calls'[b] = calls[b]
      /\ iters' = iters /\ minArea' = minArea /\ best' = best
  <2>1. /\ calls[board].todo = {}
        /\ calls' = [calls EXCEPT ![board].alt = alt, ![board].todo = Starts(board, id, alt)]
        /\ iters' = iters /\ minArea' = minArea /\ best' = best
    BY DEF NextShape
  <2> HIDE DEF alt
  <2> QED BY <2>1, <1>2 DEF Calls
<1>4. /\ id = Len(board) + 1 /\ alt \in DOMAIN Cells[id].alt /\ calls[board].alt \in Nat
      /\ \A a \in DOMAIN Cells[id].alt : a \in Nat
  <2>1. id = Len(board) + 1 /\ Cells[id].alt \in Seq(Nat \X Nat)
    BY <1>2, NextCellType DEF CellTypes
  <2>2. alt \in DOMAIN Cells[id].alt BY <2>1, <1>1, <1>3 DEF CallsInv
  <2>3. calls[board].alt \in Nat BY <1>2 DEF Calls
  <2> HIDE DEF id
  <2> QED BY <2>1, <2>2, <2>3
<1>5. Tree(calls, DOMAIN iters)'
  <2>1. Tree(calls', DOMAIN iters) BY <1>1, <1>3 DEF Tree
  <2> QED BY <2>1, <1>3
<1>6. LaidInv'
  <2>1. calls'[board].todo \subseteq Positions(board, id) BY <1>3, <1>4 DEF Positions
  <2> QED BY <2>1, <1>1, <1>3 DEF LaidInv
<1>7. CoverInv'
  <2> SUFFICES ASSUME NEW b, IsComplete(b), NEW fq \in Nat \X Nat, IsFootprint(fq, b),
                      Area(fq) < minArea
               PROVE  Covered(calls', b)
    BY <1>3 DEF CoverInv
  <2>1. PICK k \in 0..(Len(b) - 1) : CoveredAt(calls, b, k) BY <1>1 DEF CoverInv, Covered
  <2>2. CoveredAt(calls', b, k) BY <2>1, <1>3, <1>4, ShapeCovers
  <2> QED BY <2>2 DEF Covered
<1> QED BY <1>5, <1>6, <1>7 DEF MinInv

LEMMA ReturnMin ==
  ASSUME MinInv, NEW board \in DOMAIN calls, Return(board), IInv'
  PROVE  MinInv'
<1> DEFINE rest == Without(calls, board)
<1>1. /\ IInv /\ Tree(calls, DOMAIN iters) /\ LaidInv /\ CoverInv /\ TypeOK /\ CallsInv
  BY DEF MinInv, IInv
<1>2. /\ board \in Boards /\ calls[board] \in Calls /\ Len(board) < Len(Cells)
      /\ DOMAIN calls \subseteq Boards /\ DOMAIN iters \subseteq Boards
      /\ Len(board) \in Nat /\ Len(Cells) \in Nat
  BY <1>1, CellsAssumption DEF TypeOK, CallsInv, Boards
<1>3. /\ calls[board].todo = {} /\ calls[board].alt = Len(Cells[NextCell(board)].alt)
      /\ calls' = IF board = <<>> THEN rest ELSE Finish(rest, board)
      /\ iters' = iters /\ minArea' = minArea /\ best' = best
  BY DEF Return
<1>4. \A a \in DOMAIN Cells[NextCell(board)].alt : ~ (a > calls[board].alt)
  <2>1. Cells[NextCell(board)].alt \in Seq(Nat \X Nat) BY <1>2, NextCellType DEF CellTypes
  <2> QED BY <2>1, <1>3
<1>5. board \notin DOMAIN iters BY <1>1, <1>2 DEF LaidInv, IsComplete
<1>6. DOMAIN rest = DOMAIN calls \ {board} /\ \A b \in DOMAIN rest : rest[b] = calls[b]
  BY DEF Without
<1>7. Tree(rest, DOMAIN iters) BY <1>1, <1>3, ReturnTree
<1>8. \A b, k : CoveredAt(calls, b, k) => CoveredAt(rest, b, k) /\ First(b, k + 1) # board
  BY <1>3, <1>4, ReturnCovers
<1> HIDE DEF rest
<1>9. /\ DOMAIN calls' \subseteq DOMAIN calls
      /\ \A b \in DOMAIN calls' : calls'[b].todo \subseteq calls[b].todo
  <2>1. CASE board = <<>> BY <2>1, <1>3, <1>6
  <2>2. CASE board # <<>>
    <3>1. \A b \in DOMAIN rest : rest[b] \in Calls BY <1>1, <1>6 DEF TypeOK
    <3> QED BY <2>2, <3>1, <1>3, <1>6, FinishKeeps
  <2> QED BY <2>1, <2>2
<1>10. Tree(calls, DOMAIN iters)'
  <2>1. CASE board = <<>> BY <2>1, <1>3, <1>7
  <2>2. CASE board # <<>>
    <3>1. Tree(Finish(rest, board), DOMAIN iters)
      BY <2>2, <1>2, <1>5, <1>6, <1>7, FinishTree
    <3> QED BY <2>2, <3>1, <1>3
  <2> QED BY <2>1, <2>2
<1>11. LaidInv' BY <1>1, <1>3, <1>9 DEF LaidInv
<1>12. CoverInv'
  <2> SUFFICES ASSUME NEW b, IsComplete(b), NEW fq \in Nat \X Nat, IsFootprint(fq, b),
                      Area(fq) < minArea
               PROVE  Covered(calls', b)
    BY <1>3 DEF CoverInv
  <2>1. PICK k \in 0..(Len(b) - 1) : CoveredAt(calls, b, k) BY <1>1 DEF CoverInv, Covered
  <2>2. CoveredAt(rest, b, k) /\ First(b, k + 1) # board /\ b \in Boards
    BY <2>1, <1>8 DEF IsComplete, IsLayout
  <2>3. CASE board = <<>> BY <2>2, <2>3, <1>3 DEF Covered
  <2>4. CASE board # <<>>
    <3>1. CoveredAt(Finish(rest, board), b, k) BY <2>2, <2>4, <1>2, FinishCovers
    <3> QED BY <2>4, <3>1, <1>3 DEF Covered
  <2> QED BY <2>3, <2>4
<1> QED BY <1>10, <1>11, <1>12 DEF MinInv

(* The search begins with all layouts ahead. *)
LEMMA StartMin ==
  ASSUME IInv, best = Null, iters = <<>>,
         NEW call, calls = With(<<>>, <<>>, call), IsWhole(call, <<>>)
  PROVE  MinInv
<1>1. DOMAIN calls = {<<>>} /\ calls[<<>>] = call /\ DOMAIN iters = {} BY DEF With
<1>2. <<>> \in Boards /\ Len(<<>>) = 0 /\ Len(Cells) \in Nat /\ Len(Cells) > 0
  BY CellsAssumption DEF Boards
<1>3. IsLayout(<<>>) BY <1>2 DEF IsLayout
<1>4. Tree(calls, DOMAIN iters) BY <1>1 DEF Tree
<1>5. LaidInv BY <1>1, <1>3 DEF LaidInv, IsWhole
<1>6. CoverInv
  <2> SUFFICES ASSUME NEW b, IsComplete(b) PROVE Covered(calls, b) BY DEF CoverInv
  <2>1. /\ b \in Boards /\ IsLayout(b) /\ Len(b) = Len(Cells)
        /\ 0 \in 0..Len(b) /\ 0 \in 0..(Len(b) - 1) /\ 0 < Len(b) /\ 1 \in 0..Len(b)
    BY <1>2 DEF IsComplete, IsLayout
  <2>2. First(b, 0) = <<>> /\ Len(First(b, 1)) = 1 BY <2>1, FirstType, FirstWhole
  <2>3. NextCell(<<>>) = 0 + 1 /\ b[0 + 1] \in Positions(<<>>, 0 + 1)
    BY <2>1, <2>2, LayoutParts
  <2>4. First(b, 0 + 1) # <<>> BY <2>2
  <2>5. b[0 + 1] \in Ahead(call, <<>>) BY <2>3 DEF IsWhole
  <2>6. CoveredAt(calls, b, 0) BY <2>1, <2>2, <2>4, <2>5, <1>1 DEF CoveredAt
  <2> QED BY <2>1, <2>6 DEF Covered
<1> QED BY <1>4, <1>5, <1>6 DEF MinInv

(* When no call is left, no layout is left that would better the bound.    *)
LEMMA MinAtEnd == MinInv => FindsMinimum
<1> SUFFICES ASSUME MinInv, calls = <<>>
             PROVE  /\ \A b \in Layouts : \A fp \in (0..MaxArea) \X (0..MaxArea) :
                         IsFootprint(fp, b) => minArea <= Area(fp)
                    /\ best # Null => best \in Layouts
  BY DEF FindsMinimum
<1>1. minArea \in Nat /\ CoverInv /\ LaidInv BY DEF MinInv, IInv, TypeOK
<1>2. DOMAIN calls = {} OBVIOUS
<1>3. ASSUME NEW b \in Layouts, NEW fp \in (0..MaxArea) \X (0..MaxArea), IsFootprint(fp, b)
      PROVE  minArea <= Area(fp)
  <2>1. IsComplete(b) /\ fp \in Nat \X Nat BY LayoutsAre, MaxAreaAssumption
  <2>2. ~ Covered(calls, b) BY <1>2 DEF Covered, CoveredAt
  <2>3. ~ (Area(fp) < minArea) BY <2>1, <2>2, <1>1, <1>3 DEF CoverInv
  <2>4. Area(fp) \in Nat BY <2>1, AreaType
  <2> QED BY <2>3, <2>4, <1>1
<1>4. best # Null => best \in Layouts BY <1>1, LayoutsAre DEF LaidInv
<1> QED BY <1>3, <1>4

LEMMA TryMin ==
  ASSUME MinInv, ~ XVArray, NEW board \in DOMAIN calls, NEW r \in calls[board].todo,
         NEW newCall, TryWith(board, r, newCall), IInv',
         newCall \in {CallOn(Append(board, r), Extend(calls[board].footprint, r)),
                      CallAfter(board, r)}
  PROVE  MinInv'
<1>1. board \in Boards /\ r \in Rectangles /\ Len(board) \in Nat
  BY DEF MinInv, IInv, TypeOK, Calls, Boards
<1>2. Append(board, r) \in Boards /\ Len(Append(board, r)) = Len(board) + 1
  BY <1>1, AppendParts
<1>3. Len(board) + 1 < Len(Cells) => IsWhole(newCall, Append(board, r))
  BY <1>2, CallOnWhole, TaskCallWhole DEF CallAfter
<1> QED BY <1>3, TryWithMin

LEMMA MinNext ==
  ASSUME ~ XVArray, MinInv, [Next]_vars
  PROVE  MinInv'
<1>1. IInv' BY NextInv DEF MinInv
<1>2. CASE UNCHANGED vars BY <1>1, <1>2 DEF vars, MinInv, LaidInv, CoverInv
<1>3. ASSUME NEW board \in DOMAIN calls, NEW r \in calls[board].todo, Try(board, r)
      PROVE  MinInv'
  BY <1>1, <1>3, TryMin DEF Try
<1>4. ASSUME NEW board \in DOMAIN calls, NextShape(board) \/ Return(board) PROVE MinInv'
  BY <1>1, <1>4, NextShapeMin, ReturnMin
<1>5. ASSUME NEW brd \in DOMAIN iters, Lock(brd) \/ Compare(brd) \/ Store(brd) PROVE MinInv'
  BY <1>1, <1>5, CriticalMin
<1> QED BY <1>2, <1>3, <1>4, <1>5 DEF Next

(* The sequential program betters the bound without an iteration in        *)
(* try_update_min, so there never is one.                                  *)
TaskMinInv == MinInv /\ TaskIInv /\ (build = "serial" => DOMAIN iters = {})

LEMMA SerialBestMin ==
  ASSUME MinInv, ~ XVArray, DOMAIN iters = {}, IInv',
         NEW board \in DOMAIN calls, NEW r \in calls[board].todo, SerialBest(board, r)
  PROVE  MinInv' /\ DOMAIN iters' = {}
<1> DEFINE brd == Append(board, r)
           fp == Extend(calls[board].footprint, r)
<1>1. /\ board \in Boards /\ r \in Rectangles /\ calls[board].footprint \in Nat \X Nat
      /\ IsFootprint(calls[board].footprint, board) /\ r.id = Len(board) + 1
      /\ Len(board) < Len(Cells) /\ minArea \in Nat /\ minArea' \in Nat
      /\ Len(board) \in Nat /\ Len(Cells) \in Nat
  BY CellsAssumption DEF MinInv, IInv, TypeOK, CallsInv, Calls, Boards
<1>2. fp \in Nat \X Nat /\ IsFootprint(fp, brd) /\ brd \in Boards /\ Len(brd) = Len(board) + 1
  BY <1>1, ExtendFootprint
<1>3. /\ Fits(board, r) /\ Cells[r.id].next = 0 /\ minArea' = Area(fp) /\ Area(fp) < minArea
      /\ best' = brd /\ calls' = Finish(calls, brd) /\ iters' = iters
  BY DEF SerialBest, Betters, Fits
<1>4. IsComplete(brd)
  <2>1. r.id \in DOMAIN Cells BY <1>1, CellsAssumption
  <2>2. Len(brd) = Len(Cells) BY <2>1, <1>1, <1>2, <1>3, CellsAssumption
  <2> QED BY <2>2, <1>3, FitsIsLaidOut DEF IsComplete
<1>5. brd # Null BY <1>2, NullAssumption
<1> HIDE DEF brd, fp
<1>6. minArea' <= minArea /\ minArea' <= Area(fp) BY <1>1, <1>3
<1>7. DOMAIN iters' = DOMAIN iters \ {brd} BY <1>3
<1> QED BY <1>2, <1>3, <1>4, <1>5, <1>6, <1>7, DoneMin

LEMMA TaskMinNext ==
  ASSUME ~ XVArray, TaskMinInv, [TaskNext]_taskVars
  PROVE  TaskMinInv'
<1>1. TaskIInv' /\ IInv' BY TaskNextInv DEF TaskMinInv, TaskIInv
<1>2. MinInv /\ (build = "serial" => DOMAIN iters = {}) BY DEF TaskMinInv
<1>3. CASE UNCHANGED taskVars
  <2>1. UNCHANGED vars /\ iters' = iters /\ build' = build BY <1>3 DEF taskVars, vars
  <2>2. MinInv' BY <2>1, <1>2, MinNext
  <2> QED BY <2>1, <2>2, <1>1, <1>2 DEF TaskMinInv
<1>4. CASE build = "cilk" /\ Next /\ build' = build
  <2>1. MinInv' BY <1>2, <1>4, MinNext
  <2> QED BY <2>1, <1>1, <1>4 DEF TaskMinInv
<1>5. ASSUME NEW board \in DOMAIN calls, NEW r \in calls[board].todo, build' = build,
             \/ IfTask(board, r) \/ FinalTask(board, r) \/ PlainTask(board, r)
             \/ ManualTask(board, r) \/ ManualSer(board, r) \/ SerialTry(board, r)
      PROVE  TaskMinInv'
  <2>1. TryWith(board, r, CallAfter(board, r))
    BY <1>5 DEF IfTask, FinalTask, PlainTask, ManualTask, ManualSer, SerialTry
  <2>2. MinInv' BY <2>1, <1>1, <1>2, TryMin
  <2>3. build = "serial" => ~ Betters(board, r)
    BY <1>5 DEF IfTask, FinalTask, PlainTask, ManualTask, ManualSer, SerialTry
  <2>4. build = "serial" => iters' = iters BY <2>1, <2>3 DEF TryWith, Betters
  <2> QED BY <2>2, <2>4, <1>1, <1>2, <1>5 DEF TaskMinInv
<1>6. ASSUME NEW board \in DOMAIN calls, NEW r \in calls[board].todo, build' = build,
             SerialBest(board, r)
      PROVE  TaskMinInv'
  <2>1. build = "serial" BY <1>6 DEF SerialBest
  <2>2. MinInv' /\ DOMAIN iters' = {} BY <2>1, <1>1, <1>2, <1>6, SerialBestMin
  <2> QED BY <2>2, <1>1 DEF TaskMinInv
<1>7. ASSUME NEW board \in DOMAIN calls, NextShape(board) \/ Return(board), build' = build
      PROVE  TaskMinInv'
  <2>1. MinInv' BY <1>1, <1>2, <1>7, NextShapeMin, ReturnMin
  <2>2. iters' = iters BY <1>7 DEF NextShape, Return
  <2> QED BY <2>1, <2>2, <1>1, <1>2, <1>7 DEF TaskMinInv
<1>8. ASSUME NEW brd \in DOMAIN iters, Critical(brd), build' = build PROVE TaskMinInv'
  <2>1. build # "serial" /\ (Lock(brd) \/ Compare(brd) \/ Store(brd)) BY <1>8 DEF Critical
  <2>2. MinInv' BY <2>1, <1>1, <1>2, CriticalMin
  <2> QED BY <2>1, <2>2, <1>1, <1>8 DEF TaskMinInv
<1> QED BY <1>3, <1>4, <1>5, <1>6, <1>7, <1>8 DEF TaskNext, TaskStep

(* The search returns the smallest area of all layouts of its input,       *)
(* though iterations prune by a bound that they read without the lock and  *)
(* that others lower meanwhile: a layout that would better the bound stays *)
(* ahead of some call until it is met (floorplan.c without the versioned   *)
(* lay_down, which refuses cells that fit).                                *)
THEOREM SearchFindsMinimum ==
  ASSUME ~ XVArray
  PROVE  Spec => []FindsMinimum
<1>1. Init => MinInv
  BY Start, InitInv, CallOnWhole, StartMin DEF Init
<1>2. MinInv /\ [Next]_vars => MinInv' BY MinNext
<1> QED BY <1>1, <1>2, MinAtEnd, PTL DEF Spec

(* So does every build, wherever it stops to make tasks (floorplan-bots.c),*)
(* and the sequential program (floorplan-serial.c).                        *)
THEOREM EveryBuildFindsMinimum ==
  ASSUME ~ XVArray
  PROVE  TaskSpec => []FindsMinimum
<1>1. TaskInit => TaskMinInv
  <2> SUFFICES ASSUME TaskInit PROVE TaskMinInv OBVIOUS
  <2>1. TaskIInv /\ IInv BY TaskInitInv DEF TaskIInv
  <2>2. MinInv BY <2>1, Start, TaskCallWhole, StartMin DEF TaskInit
  <2> QED BY <2>1, <2>2 DEF TaskMinInv, TaskInit
<1>2. TaskMinInv /\ [TaskNext]_taskVars => TaskMinInv' BY TaskMinNext
<1>3. TaskMinInv => FindsMinimum BY MinAtEnd DEF TaskMinInv
<1> QED BY <1>1, <1>2, <1>3, PTL DEF TaskSpec
=============================================================================
