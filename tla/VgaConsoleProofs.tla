-------------------------- MODULE VgaConsoleProofs --------------------------
(***************************************************************************)
(* Proofs about the VGA controller and the console output, for every size  *)
(* of the text page, of the registers and of the window: types, and that   *)
(* the underline never spreads from the cursor's cell.                     *)
(***************************************************************************)
EXTENDS VgaConsole, TLAPS

-----------------------------------------------------------------------------
(***************************************************************************)
(* The two halves of the cursor make a position of two registers' width.   *)
(***************************************************************************)
LEMMA CursorRange ==
  ASSUME CUR_HIGH \in 0..(REG - 1), CUR_LOW \in 0..(REG - 1)
  PROVE  cursorPosition \in 0..(REG * REG - 1)
<1>1. REG \in Nat \ {0}
  BY VgaAssumption
<1>2. CUR_HIGH * REG \in Nat /\ CUR_HIGH * REG <= (REG - 1) * REG
  BY <1>1, Z3
<1>3. (REG - 1) * REG = REG * REG - REG
  BY <1>1, Z3
<1>4. REG * REG \in Nat
  BY <1>1
<1>5. QED
  BY <1>1, <1>2, <1>3, <1>4 DEF cursorPosition

(***************************************************************************)
(* The smaller of two sizes is one of them and no larger than the first.   *)
(***************************************************************************)
LEMMA MinimumRange ==
  ASSUME NEW one \in Nat, NEW two \in Nat
  PROVE  minimum(one, two) \in 0..one
BY DEF minimum

(***************************************************************************)
(* The cells of the page.                                                  *)
(***************************************************************************)
LEMMA CellRange ==
  ASSUME NEW r \in Nat, NEW c \in Nat, r < ROWS, c < COLS
  PROVE  <<r, c>> \in Cells
BY VgaAssumption DEF Cells

-----------------------------------------------------------------------------
(***************************************************************************)
(* What the underline's confinement needs: between two characters the      *)
(* terminal never has underlining switched on (the reset behind the cursor *)
(* is what guarantees it).  For the types: a row never runs ahead of the   *)
(* cells read from it, and a cell in work is a cell of the page.           *)
(***************************************************************************)
NoPendingUnderline == attributes.underlined = FALSE
RowFits == pc # "frame" /\ i < minRows => column <= j
PaintsCells == pc \in {"glyph", "print"} => i < minRows /\ j < minCols

VgaInv ==
  /\ VgaTypeOK
  /\ NoPendingUnderline
  /\ RowFits
  /\ PaintsCells
  /\ UnderlineOnlyCursor

ScreenCells == [char : Glyphs \ {NUL}, bright : BOOLEAN, underlined : BOOLEAN]

(***************************************************************************)
(* The invariant holds before the first frame.                             *)
(***************************************************************************)
LEMMA VgaInitInv == VgaInit => VgaInv
<1> SUFFICES ASSUME VgaInit PROVE VgaInv
  OBVIOUS
<1>1. /\ 0 \in 0..(REG - 1)
      /\ 0 \in 0..(REG * REG - 1)
      /\ 0 \in 0..ROWS
      /\ 0 \in 0..COLS
      /\ 0 \in 0..MaxChanges
  <2>1. REG * REG \in Nat /\ REG * REG > 0
    BY VgaAssumption, Z3
  <2>2. QED
    BY <2>1, VgaAssumption
<1>2. /\ Empty \in Values
      /\ Blank \in Glyphs
      /\ Unpainted \in ScreenCells
      /\ Plain \in [bright : BOOLEAN, underlined : BOOLEAN]
  BY DEF Values, Glyphs, Unpainted, ScreenCells, Plain, Blank, NUL
<1>3. /\ vmem \in [Cells -> Values]
      /\ screen \in [Cells -> ScreenCells]
      /\ drawn \in [Cells -> Cells \cup {NotDrawn}]
  BY <1>2 DEF VgaInit
<1>4. VgaTypeOK
  BY <1>1, <1>2, <1>3 DEF VgaInit, VgaTypeOK, OtherInd, ScreenCells
<1>5. NoPendingUnderline /\ RowFits /\ PaintsCells /\ UnderlineOnlyCursor
  BY DEF VgaInit, NoPendingUnderline, RowFits, PaintsCells, UnderlineOnlyCursor, Plain
<1>6. QED
  BY <1>4, <1>5 DEF VgaInv

(***************************************************************************)
(* The guest's steps touch no state of the render thread.                  *)
(***************************************************************************)
LEMMA GuestKeepsInv ==
  ASSUME VgaInv,
         \/ \E val \in {OtherInd, CUR_HIGH_ind, CUR_LOW_ind} : write_IND(val)
         \/ \E val \in 0..(REG - 1) : write_DAT(val)
         \/ \E p \in Cells, v \in Values : store(p, v)
  PROVE  VgaInv'
<1>1. UNCHANGED <<_isBlinking, pc, minRows, minCols, cursorIndex, i, j, temp, toPrint,
                  window, screen, column, attributes, drawn>>
  BY DEF write_IND, write_DAT, store, renderVars, terminalVars
<1>2. NoPendingUnderline' /\ RowFits' /\ PaintsCells' /\ UnderlineOnlyCursor'
  BY <1>1 DEF VgaInv, NoPendingUnderline, RowFits, PaintsCells, UnderlineOnlyCursor
<1>3. VgaTypeOK'
  <2>1. CASE \E val \in {OtherInd, CUR_HIGH_ind, CUR_LOW_ind} : write_IND(val)
    BY <1>1, <2>1 DEF VgaInv, VgaTypeOK, write_IND
  <2>2. CASE \E val \in 0..(REG - 1) : write_DAT(val)
    <3>1. changes' \in 0..MaxChanges /\ CUR_HIGH' \in 0..(REG - 1) /\ CUR_LOW' \in 0..(REG - 1)
      BY <2>2, VgaAssumption DEF VgaInv, VgaTypeOK, write_DAT
    <3>2. UNCHANGED <<IND, vmem>>
      BY <2>2 DEF write_DAT
    <3>3. QED
      BY <1>1, <3>1, <3>2 DEF VgaInv, VgaTypeOK
  <2>3. CASE \E p \in Cells, v \in Values : store(p, v)
    <3>1. changes' \in 0..MaxChanges /\ vmem' \in [Cells -> Values]
      BY <2>3, VgaAssumption DEF VgaInv, VgaTypeOK, store
    <3>2. UNCHANGED <<IND, CUR_HIGH, CUR_LOW>>
      BY <2>3 DEF store
    <3>3. QED
      BY <1>1, <3>1, <3>2 DEF VgaInv, VgaTypeOK
  <2>4. QED
    BY <2>1, <2>2, <2>3
<1>4. QED
  BY <1>2, <1>3 DEF VgaInv

(***************************************************************************)
(* A new frame takes the window and the cursor and has drawn nothing.      *)
(***************************************************************************)
LEMMA FrameKeepsInv ==
  ASSUME VgaInv, frame
  PROVE  VgaInv'
<1>1. /\ minRows' = minimum(ROWS, window[1])
      /\ minCols' = minimum(COLS, window[2])
      /\ cursorIndex' = cursorPosition
      /\ i' = 0 /\ j' = 0 /\ column' = 0
      /\ drawn' = [p \in Cells |-> NotDrawn]
      /\ pc' = "fetch"
      /\ UNCHANGED <<IND, CUR_HIGH, CUR_LOW, vmem, _isBlinking, temp, toPrint, window,
                     screen, attributes, changes>>
  BY DEF frame, controllerVars
<1>2. VgaTypeOK'
  <2>1. window[1] \in Nat /\ window[2] \in Nat
    BY VgaAssumption DEF VgaInv, VgaTypeOK
  <2>2. minRows' \in 0..ROWS /\ minCols' \in 0..COLS
    BY <1>1, <2>1, MinimumRange, VgaAssumption
  <2>3. cursorIndex' \in 0..(REG * REG - 1)
    BY <1>1, CursorRange DEF VgaInv, VgaTypeOK
  <2>4. i' \in 0..ROWS /\ j' \in 0..COLS /\ column' \in 0..COLS
    BY <1>1, VgaAssumption
  <2>5. drawn' \in [Cells -> Cells \cup {NotDrawn}]
    BY <1>1
  <2>6. QED
    BY <1>1, <2>2, <2>3, <2>4, <2>5 DEF VgaInv, VgaTypeOK
<1>3. UnderlineOnlyCursor'
  BY <1>1 DEF UnderlineOnlyCursor
<1>4. NoPendingUnderline' /\ RowFits' /\ PaintsCells'
  BY <1>1 DEF VgaInv, NoPendingUnderline, RowFits, PaintsCells
<1>5. QED
  BY <1>2, <1>3, <1>4 DEF VgaInv

(***************************************************************************)
(* Reading a cell draws nothing, and the cell read is one of the page.     *)
(***************************************************************************)
LEMMA FetchKeepsInv ==
  ASSUME VgaInv, fetch
  PROVE  VgaInv'
<1>1. /\ pc = "fetch" /\ pc' = "glyph"
      /\ i < minRows /\ j < minCols
      /\ temp' = vmem[<<i, j>>]
      /\ UNCHANGED <<IND, CUR_HIGH, CUR_LOW, vmem, _isBlinking, minRows, minCols,
                     cursorIndex, i, j, toPrint, window, screen, column, attributes,
                     drawn, changes>>
  BY DEF fetch, controllerVars, terminalVars
<1>2. i \in Nat /\ j \in Nat /\ i < ROWS /\ j < COLS
  BY <1>1, VgaAssumption DEF VgaInv, VgaTypeOK
<1>3. temp' \in Values
  BY <1>1, <1>2, CellRange DEF VgaInv, VgaTypeOK
<1>4. VgaTypeOK'
  BY <1>1, <1>3 DEF VgaInv, VgaTypeOK
<1>5. NoPendingUnderline' /\ RowFits' /\ PaintsCells' /\ UnderlineOnlyCursor'
  BY <1>1 DEF VgaInv, NoPendingUnderline, RowFits, PaintsCells, UnderlineOnlyCursor
<1>6. QED
  BY <1>4, <1>5 DEF VgaInv

(***************************************************************************)
(* Choosing the character changes nothing the invariant speaks of.         *)
(***************************************************************************)
LEMMA GlyphKeepsInv ==
  ASSUME VgaInv, glyph
  PROVE  VgaInv'
<1>1. /\ pc = "glyph" /\ pc' = "print"
      /\ toPrint' = IF temp.blink /\ ~_isBlinking THEN Blank ELSE temp.char
      /\ UNCHANGED <<IND, CUR_HIGH, CUR_LOW, vmem, _isBlinking, minRows, minCols,
                     cursorIndex, i, j, temp, window, screen, column, attributes,
                     drawn, changes>>
  BY DEF glyph, controllerVars, terminalVars
<1>2. toPrint' \in Glyphs
  BY <1>1 DEF VgaInv, VgaTypeOK, Glyphs
<1>3. VgaTypeOK'
  BY <1>1, <1>2 DEF VgaInv, VgaTypeOK
<1>4. NoPendingUnderline' /\ RowFits' /\ PaintsCells' /\ UnderlineOnlyCursor'
  BY <1>1 DEF VgaInv, NoPendingUnderline, RowFits, PaintsCells, UnderlineOnlyCursor
<1>5. QED
  BY <1>3, <1>4 DEF VgaInv

(***************************************************************************)
(* Printing a cell underlines it only if it is the cursor's, and leaves    *)
(* underlining off; a NUL draws nothing and changes the attributes alone.  *)
(***************************************************************************)
LEMMA PrintKeepsInv ==
  ASSUME VgaInv, print
  PROVE  VgaInv'
<1> DEFINE underline == i * COLS + j = cursorIndex /\ _isBlinking
           attr == [bright     |-> attributes.bright \/ temp.bright,
                    underlined |-> attributes.underlined \/ underline]
           painted == [char |-> toPrint, bright |-> attr.bright,
                       underlined |-> attr.underlined]
<1>1. /\ pc = "print" /\ pc' = "fetch"
      /\ j' = j + 1
      /\ attributes' = IF underline THEN Plain ELSE attr
      /\ UNCHANGED <<IND, CUR_HIGH, CUR_LOW, vmem, _isBlinking, minRows, minCols,
                     cursorIndex, i, temp, toPrint, window, changes>>
  BY DEF print, controllerVars, after_cursor
<1>2. \/ /\ toPrint = NUL
         /\ UNCHANGED <<screen, drawn, column>>
      \/ /\ toPrint # NUL
         /\ screen' = [screen EXCEPT ![<<i, column>>] = painted]
         /\ drawn' = [drawn EXCEPT ![<<i, column>>] = <<i, j>>]
         /\ column' = column + 1
  BY DEF print
<1>3. /\ attributes \in [bright : BOOLEAN, underlined : BOOLEAN]
      /\ attributes.underlined = FALSE
      /\ temp.bright \in BOOLEAN
      /\ _isBlinking \in BOOLEAN
  BY VgaAssumption DEF VgaInv, VgaTypeOK, NoPendingUnderline
<1>4. /\ attr \in [bright : BOOLEAN, underlined : BOOLEAN]
      /\ attr.underlined <=> underline
  BY <1>3
<1>5. /\ attributes' \in [bright : BOOLEAN, underlined : BOOLEAN]
      /\ attributes'.underlined = FALSE
  BY <1>1, <1>4 DEF Plain
<1>6. /\ i \in Nat /\ j \in Nat /\ column \in Nat
      /\ i < minRows /\ minRows \in Nat /\ i < ROWS
      /\ j < COLS /\ column <= j
  BY <1>1, VgaAssumption DEF VgaInv, VgaTypeOK, PaintsCells, RowFits
<1>7. /\ <<i, j>> \in Cells /\ <<i, column>> \in Cells
      /\ j' \in 0..COLS
      /\ column' \in 0..COLS /\ column' <= j'
  <2>1. <<i, j>> \in Cells /\ <<i, column>> \in Cells
    BY <1>6, CellRange, VgaAssumption
  <2>2. column' = column \/ column' = column + 1
    BY <1>2
  <2>3. QED
    BY <1>1, <1>6, <2>1, <2>2, VgaAssumption
<1>8. toPrint # NUL => painted \in ScreenCells
  BY <1>4 DEF VgaInv, VgaTypeOK, ScreenCells
<1>9. screen \in [Cells -> ScreenCells] /\ drawn \in [Cells -> Cells \cup {NotDrawn}]
  BY DEF VgaInv, VgaTypeOK, ScreenCells
<1>10. /\ screen' \in [Cells -> ScreenCells]
       /\ drawn' \in [Cells -> Cells \cup {NotDrawn}]
  <2> HIDE DEF painted
  <2> QED BY <1>2, <1>7, <1>8, <1>9
<1>11. VgaTypeOK'
  BY <1>1, <1>5, <1>7, <1>10 DEF VgaInv, VgaTypeOK, ScreenCells
<1>12. UnderlineOnlyCursor'
  <2>1. CASE toPrint = NUL
    BY <1>1, <1>2, <2>1 DEF VgaInv, UnderlineOnlyCursor
  <2>2. CASE toPrint # NUL
    <3> SUFFICES ASSUME NEW s \in Cells, drawn'[s] # NotDrawn, screen'[s].underlined
                 PROVE  drawn'[s][1] * COLS + drawn'[s][2] = cursorIndex
      BY <1>1 DEF UnderlineOnlyCursor, NotDrawn
    <3>1. CASE s = <<i, column>>
      <4>1. screen'[s] = painted /\ drawn'[s] = <<i, j>>
        <5> HIDE DEF painted
        <5> QED BY <1>2, <1>7, <1>9, <2>2, <3>1
      <4>2. underline
        <5>1. painted.underlined
          <6> HIDE DEF painted
          <6> QED BY <4>1
        <5>2. QED
          BY <1>4, <5>1
      <4>3. QED
        BY <4>1, <4>2
    <3>2. CASE s # <<i, column>>
      <4>1. screen'[s] = screen[s] /\ drawn'[s] = drawn[s]
        <5> HIDE DEF painted
        <5> QED BY <1>2, <1>9, <2>2, <3>2
      <4>2. QED
        BY <4>1 DEF VgaInv, UnderlineOnlyCursor
    <3>3. QED
      BY <3>1, <3>2
  <2>3. QED
    BY <2>1, <2>2
<1>13. NoPendingUnderline' /\ RowFits' /\ PaintsCells'
  BY <1>1, <1>5, <1>7 DEF NoPendingUnderline, RowFits, PaintsCells
<1>14. QED
  BY <1>11, <1>12, <1>13 DEF VgaInv

(***************************************************************************)
(* The line feed behind a row takes the terminal to its first column, and  *)
(* behind the last row nothing is left to draw.                            *)
(***************************************************************************)
LEMMA EndKeepsInv ==
  ASSUME VgaInv, end_row \/ end_frame
  PROVE  VgaInv'
<1>1. UNCHANGED <<IND, CUR_HIGH, CUR_LOW, vmem, _isBlinking, minRows, minCols, cursorIndex,
                  temp, toPrint, window, screen, attributes, drawn, changes>>
  BY DEF end_row, end_frame, controllerVars, terminalVars
<1>2. /\ i \in Nat /\ minRows \in Nat /\ minRows <= ROWS
      /\ column \in 0..COLS /\ j \in 0..COLS /\ i \in 0..ROWS
  BY VgaAssumption DEF VgaInv, VgaTypeOK
<1>3. NoPendingUnderline' /\ UnderlineOnlyCursor'
  BY <1>1 DEF VgaInv, NoPendingUnderline, UnderlineOnlyCursor
<1>4. CASE end_row
  <2>1. /\ pc = "fetch" /\ pc' = pc
        /\ i < minRows
        /\ i' = i + 1 /\ j' = 0
        /\ column' = IF i # minRows - 1 THEN 0 ELSE column
    BY <1>4 DEF end_row
  <2>2. i' \in 0..ROWS /\ j' \in 0..COLS /\ column' \in 0..COLS
    BY <1>2, <2>1, VgaAssumption
  <2>3. VgaTypeOK'
    BY <1>1, <2>1, <2>2 DEF VgaInv, VgaTypeOK
  <2>4. RowFits' /\ PaintsCells'
    BY <1>1, <1>2, <2>1 DEF RowFits, PaintsCells
  <2>5. QED
    BY <1>3, <2>3, <2>4 DEF VgaInv
<1>5. CASE end_frame
  <2>1. pc' = "frame" /\ UNCHANGED <<i, j, column>>
    BY <1>5 DEF end_frame, terminalVars
  <2>2. VgaTypeOK' /\ RowFits' /\ PaintsCells'
    BY <1>1, <2>1 DEF VgaInv, VgaTypeOK, RowFits, PaintsCells
  <2>3. QED
    BY <1>3, <2>2 DEF VgaInv
<1>6. QED
  BY <1>4, <1>5

(***************************************************************************)
(* A resize between two frames only clears positions.                      *)
(***************************************************************************)
LEMMA ResizeKeepsInv ==
  ASSUME VgaInv, NEW w \in Windows, resize(w)
  PROVE  VgaInv'
<1>1. /\ pc = "frame"
      /\ changes < MaxChanges /\ changes' = changes + 1
      /\ window' = w
      /\ screen' = [p \in Cells |-> IF p \in shown(w) THEN screen[p] ELSE Unpainted]
      /\ UNCHANGED <<IND, CUR_HIGH, CUR_LOW, vmem, _isBlinking, pc, minRows, minCols,
                     cursorIndex, i, j, temp, toPrint, column, attributes, drawn>>
  BY DEF resize, controllerVars, renderVars
<1>2. screen' \in [Cells -> ScreenCells]
  <2>1. Unpainted \in ScreenCells
    BY DEF Unpainted, Glyphs, ScreenCells, Blank, NUL
  <2>2. screen \in [Cells -> ScreenCells]
    BY DEF VgaInv, VgaTypeOK, ScreenCells
  <2>3. QED
    BY <1>1, <2>1, <2>2
<1>3. VgaTypeOK'
  <2>1. changes' \in 0..MaxChanges
    BY <1>1, VgaAssumption DEF VgaInv, VgaTypeOK
  <2>2. QED
    BY <1>1, <1>2, <2>1 DEF VgaInv, VgaTypeOK, ScreenCells
<1>4. UnderlineOnlyCursor'
  <2>1. \A p \in Cells : screen'[p].underlined => screen[p].underlined
    BY <1>1 DEF Unpainted
  <2>2. QED
    BY <1>1, <2>1 DEF VgaInv, UnderlineOnlyCursor
<1>5. NoPendingUnderline' /\ RowFits' /\ PaintsCells'
  BY <1>1 DEF VgaInv, NoPendingUnderline, RowFits, PaintsCells
<1>6. QED
  BY <1>3, <1>4, <1>5 DEF VgaInv

-----------------------------------------------------------------------------
(***************************************************************************)
(* The invariant is inductive, under every interleaving of the vCPU, the   *)
(* render and the blink thread.                                            *)
(***************************************************************************)
THEOREM VgaInvariant == VgaSpec => []VgaInv
<1>1. VgaInv /\ [VgaNext]_vgaVars => VgaInv'
  <2> SUFFICES ASSUME VgaInv, [VgaNext]_vgaVars PROVE VgaInv'
    OBVIOUS
  <2>1. CASE \/ \E val \in {OtherInd, CUR_HIGH_ind, CUR_LOW_ind} : write_IND(val)
             \/ \E val \in 0..(REG - 1) : write_DAT(val)
             \/ \E p \in Cells, v \in Values : store(p, v)
    BY <2>1, GuestKeepsInv
  <2>2. CASE _mainThread
    BY <2>2, FrameKeepsInv, FetchKeepsInv, GlyphKeepsInv, PrintKeepsInv, EndKeepsInv
       DEF _mainThread
  <2>3. CASE _blinkThread
    BY <2>3 DEF _blinkThread, controllerVars, renderVars, terminalVars, VgaInv, VgaTypeOK,
                NoPendingUnderline, RowFits, PaintsCells, UnderlineOnlyCursor
  <2>4. CASE \E w \in Windows : resize(w)
    BY <2>4, ResizeKeepsInv
  <2>5. CASE UNCHANGED vgaVars
    BY <2>5 DEF vgaVars, controllerVars, renderVars, terminalVars, VgaInv, VgaTypeOK,
                NoPendingUnderline, RowFits, PaintsCells, UnderlineOnlyCursor
  <2>6. QED
    BY <2>1, <2>2, <2>3, <2>4, <2>5 DEF VgaNext
<1>2. QED
  BY <1>1, VgaInitInv, PTL DEF VgaSpec

(***************************************************************************)
(* Types: a frame never leaves the page, whatever the size of the window,  *)
(* no row runs past its last column, no screen position ever holds a NUL   *)
(* and the cursor is a position of two registers' width.                   *)
(***************************************************************************)
THEOREM TypeCorrect == VgaSpec => []VgaTypeOK
<1>1. VgaInv => VgaTypeOK
  BY DEF VgaInv
<1>2. QED
  BY <1>1, VgaInvariant, PTL

(***************************************************************************)
(* Of the characters a frame has drawn only the cursor's is underlined,    *)
(* although the blink flag may flip between any two characters.            *)
(***************************************************************************)
THEOREM UnderlineConfined == VgaSpec => []UnderlineOnlyCursor
<1>1. VgaInv => UnderlineOnlyCursor
  BY DEF VgaInv
<1>2. QED
  BY <1>1, VgaInvariant, PTL
=============================================================================
