----------------------------- MODULE VgaConsole -----------------------------
(***************************************************************************)
(* The VGA text controller (frontend/vgaController.cpp) and the two        *)
(* threads of the console output (backend/ConsoleOutput.cpp).  The vCPU    *)
(* thread writes registers and video memory, the render thread paints the  *)
(* screen cell by cell, the blink thread flips a flag.  Video memory is    *)
(* guest memory: no lock protects it.                                      *)
(*                                                                         *)
(* Of the colours only the intensity is kept: every cell selects both of   *)
(* its colours anew, but nothing switches the intensity off except the     *)
(* reset after an underlined cell.                                         *)
(*                                                                         *)
(* The terminal takes the characters of a row one after the other: a cell  *)
(* appears where the row has got to, and a NUL byte, which is what a cell  *)
(* the guest never wrote holds, takes no column at all.                    *)
(***************************************************************************)
EXTENDS Integers, FiniteSets

CONSTANTS ROWS, COLS,               \* 25 and 80
          REG,                      \* values of a register (256)
          CellValues,               \* what the guest writes into video memory
          Windows,                  \* sizes of the terminal, <<rows, columns>>
          MaxChanges                \* bound: cursor and cell writes, and resizes

Blank == " "
NUL == "NUL"
Cells == (0..(ROWS - 1)) \X (0..(COLS - 1))     \* <<row, column>>
Empty == [char |-> NUL, bright |-> FALSE, blink |-> FALSE]    \* a zero word
Values == CellValues \cup {Empty}
CUR_HIGH_ind == 14
CUR_LOW_ind == 15
OtherInd == 0                       \* any other register number

ASSUME VgaAssumption ==
  /\ ROWS \in Nat \ {0}
  /\ COLS \in Nat \ {0}
  /\ REG \in Nat \ {0}
  /\ \A v \in Values : v.bright \in BOOLEAN /\ v.blink \in BOOLEAN /\ "char" \in DOMAIN v
  /\ Windows \subseteq Nat \X Nat
  /\ MaxChanges \in Nat

VARIABLES IND, CUR_HIGH, CUR_LOW,   \* the controller
          vmem,                     \* the text page in guest memory
          _isBlinking,
          pc,                       \* where the render thread is
          minRows, minCols,         \* the part of the page this frame shows
          cursorIndex,              \* the cursor of this frame
          i, j,                     \* the cell being painted
          temp,                     \* its value, as read
          toPrint,                  \* its character, as chosen
          window,                   \* the terminal: size,
          screen,                   \* what every position shows,
          column,                   \* where in its row the next character goes,
          attributes,               \* and the attributes in force
          drawn,                    \* history: the cell this frame drew at a position
          changes                   \* history: changes so far

controllerVars == <<IND, CUR_HIGH, CUR_LOW, vmem>>
renderVars == <<pc, minRows, minCols, cursorIndex, i, j, temp, toPrint>>
terminalVars == <<window, screen, column, attributes>>
vgaVars == <<controllerVars, _isBlinking, renderVars, terminalVars, drawn, changes>>

Unpainted == [char |-> Blank, bright |-> FALSE, underlined |-> FALSE]
Plain == [bright |-> FALSE, underlined |-> FALSE]
NotDrawn == <<ROWS, COLS>>          \* no cell of the page

\* The guest's memory is fresh from the system: the page is zero, not blank.
VgaInit ==
  /\ IND = 0
  /\ CUR_HIGH = 0
  /\ CUR_LOW = 0
  /\ vmem = [p \in Cells |-> Empty]
  /\ _isBlinking = TRUE
  /\ pc = "frame"
  /\ minRows = 0
  /\ minCols = 0
  /\ cursorIndex = 0
  /\ i = 0
  /\ j = 0
  /\ temp = Empty
  /\ toPrint = Blank
  /\ window \in Windows
  /\ screen = [p \in Cells |-> Unpainted]
  /\ column = 0
  /\ attributes = Plain
  /\ drawn = [p \in Cells |-> NotDrawn]
  /\ changes = 0

\* mutant: the high half is shifted by a bit too many.
cursorPosition_shifted == 2 * CUR_HIGH * REG + CUR_LOW

cursorPosition == CUR_HIGH * REG + CUR_LOW

-----------------------------------------------------------------------------
\* The vCPU thread.
write_IND(val) ==
  /\ IND' = val
  /\ UNCHANGED <<CUR_HIGH, CUR_LOW, vmem, _isBlinking, renderVars, terminalVars, drawn, changes>>

\* DAT itself only passes a value on and is left out.
write_DAT(val) ==
  /\ changes < MaxChanges
  /\ changes' = changes + 1
  /\ CUR_HIGH' = IF IND = CUR_HIGH_ind THEN val ELSE CUR_HIGH
  /\ CUR_LOW' = IF IND = CUR_LOW_ind THEN val ELSE CUR_LOW
  /\ UNCHANGED <<IND, vmem, _isBlinking, renderVars, terminalVars, drawn>>

\* The guest stores into the text page.
store(p, v) ==
  /\ changes < MaxChanges
  /\ changes' = changes + 1
  /\ vmem' = [vmem EXCEPT ![p] = v]
  /\ UNCHANGED <<IND, CUR_HIGH, CUR_LOW, _isBlinking, renderVars, terminalVars, drawn>>

-----------------------------------------------------------------------------
\* mutant: the last row and column that fit are left out.
minimum_early(one, two) == IF one < two THEN one - 1 ELSE two - 1

minimum(one, two) == IF one < two THEN one ELSE two

\* The render thread: window size and cursor are taken once a frame.
frame ==
  /\ pc = "frame"
  /\ minRows' = minimum(ROWS, window[1])
  /\ minCols' = minimum(COLS, window[2])
  /\ cursorIndex' = cursorPosition
  /\ i' = 0
  /\ j' = 0
  /\ column' = 0
  /\ drawn' = [p \in Cells |-> NotDrawn]
  /\ pc' = "fetch"
  /\ UNCHANGED <<controllerVars, _isBlinking, temp, toPrint, window, screen, attributes,
                 changes>>

fetch ==
  /\ pc = "fetch"
  /\ i < minRows
  /\ j < minCols
  /\ temp' = vmem[<<i, j>>]
  /\ pc' = "glyph"
  /\ UNCHANGED <<controllerVars, _isBlinking, minRows, minCols, cursorIndex, i, j, toPrint,
                 terminalVars, drawn, changes>>

\* A blinking character is blank half of the time.
glyph ==
  /\ pc = "glyph"
  /\ toPrint' = IF temp.blink /\ ~_isBlinking THEN Blank ELSE temp.char
  /\ pc' = "print"
  /\ UNCHANGED <<controllerVars, _isBlinking, minRows, minCols, cursorIndex, i, j, temp,
                 terminalVars, drawn, changes>>

\* mutant: the attributes are not restored behind the cursor.
after_cursor_kept(attr) == attr

\* RESTORE switches every attribute off.
after_cursor(attr) == Plain

(***************************************************************************)
(* The character is written under the attributes in force: underlined if   *)
(* this is the cursor and the flag, read a second time, says so.  It goes  *)
(* to the terminal's column, which it advances; a NUL byte is dropped.     *)
(***************************************************************************)
print ==
  /\ pc = "print"
  /\ LET underline == i * COLS + j = cursorIndex /\ _isBlinking
         attr == [bright     |-> attributes.bright \/ temp.bright,
                  underlined |-> attributes.underlined \/ underline]
         painted == [char |-> toPrint, bright |-> attr.bright, underlined |-> attr.underlined]
     IN  /\ \/ /\ toPrint = NUL
               /\ UNCHANGED <<screen, drawn, column>>
            \/ /\ toPrint # NUL
               /\ screen' = [screen EXCEPT ![<<i, column>>] = painted]
               /\ drawn' = [drawn EXCEPT ![<<i, column>>] = <<i, j>>]
               /\ column' = column + 1
         /\ attributes' = IF underline THEN after_cursor(attr) ELSE attr
  /\ j' = j + 1
  /\ pc' = "fetch"
  /\ UNCHANGED <<controllerVars, _isBlinking, minRows, minCols, cursorIndex, i, temp, toPrint,
                 window, changes>>

\* Behind the last row there is no line feed, so that the terminal never scrolls.
end_row ==
  /\ pc = "fetch"
  /\ i < minRows
  /\ j >= minCols
  /\ i' = i + 1
  /\ j' = 0
  /\ column' = IF i # minRows - 1 THEN 0 ELSE column
  /\ UNCHANGED <<controllerVars, _isBlinking, pc, minRows, minCols, cursorIndex, temp, toPrint,
                 window, screen, attributes, drawn, changes>>

end_frame ==
  /\ pc = "fetch"
  /\ i >= minRows
  /\ pc' = "frame"
  /\ UNCHANGED <<controllerVars, _isBlinking, minRows, minCols, cursorIndex, i, j, temp, toPrint,
                 terminalVars, drawn, changes>>

_mainThread == frame \/ fetch \/ glyph \/ print \/ end_row \/ end_frame

_blinkThread ==
  /\ _isBlinking' = ~_isBlinking
  /\ UNCHANGED <<controllerVars, renderVars, terminalVars, drawn, changes>>

\* The cells of the text page that a window has room for.
shown(w) == {p \in Cells : p[1] < w[1] /\ p[2] < w[2]}

(***************************************************************************)
(* The user resizes the terminal between two frames: what no longer fits   *)
(* is lost, what fits now is blank.  A resize within a frame spoils that   *)
(* frame and is seen by the next; it is not modelled.                      *)
(***************************************************************************)
resize(w) ==
  /\ pc = "frame"
  /\ changes < MaxChanges
  /\ changes' = changes + 1
  /\ window' = w
  /\ screen' = [p \in Cells |-> IF p \in shown(w) THEN screen[p] ELSE Unpainted]
  /\ UNCHANGED <<controllerVars, _isBlinking, renderVars, column, attributes, drawn>>

VgaNext ==
  \/ \E val \in {OtherInd, CUR_HIGH_ind, CUR_LOW_ind} : write_IND(val)
  \/ \E val \in 0..(REG - 1) : write_DAT(val)
  \/ \E p \in Cells, v \in Values : store(p, v)
  \/ _mainThread
  \/ _blinkThread
  \/ \E w \in Windows : resize(w)

(***************************************************************************)
(* The render thread is an endless loop that waits for nothing but two     *)
(* short critical sections.                                                *)
(***************************************************************************)
VgaSpec == VgaInit /\ [][VgaNext]_vgaVars /\ WF_vgaVars(_mainThread)

-----------------------------------------------------------------------------
\* The characters a cell of the page may hold, or show as.
Glyphs == {v.char : v \in Values} \cup {Blank}

(***************************************************************************)
(* Types of controller, render thread and terminal.                        *)
(***************************************************************************)
VgaTypeOK ==
  /\ IND \in {OtherInd, CUR_HIGH_ind, CUR_LOW_ind}
  /\ CUR_HIGH \in 0..(REG - 1)
  /\ CUR_LOW \in 0..(REG - 1)
  /\ vmem \in [Cells -> Values]
  /\ _isBlinking \in BOOLEAN
  /\ pc \in {"frame", "fetch", "glyph", "print"}
  /\ minRows \in 0..ROWS
  /\ minCols \in 0..COLS
  /\ cursorIndex \in 0..(REG * REG - 1)
  /\ i \in 0..ROWS
  /\ j \in 0..COLS
  /\ temp \in Values
  /\ toPrint \in Glyphs
  /\ window \in Windows
  /\ screen \in [Cells -> [char : Glyphs \ {NUL}, bright : BOOLEAN, underlined : BOOLEAN]]
  /\ column \in 0..COLS
  /\ attributes \in [bright : BOOLEAN, underlined : BOOLEAN]
  /\ drawn \in [Cells -> Cells \cup {NotDrawn}]
  /\ changes \in 0..MaxChanges

(***************************************************************************)
(* Underlining never spreads: of the characters this frame has drawn only  *)
(* the cursor's is underlined, whatever the other threads did meanwhile.   *)
(***************************************************************************)
UnderlineOnlyCursor ==
  \A s \in Cells :
    LET p == drawn[s]
    IN  p # NotDrawn /\ screen[s].underlined => p[1] * COLS + p[2] = cursorIndex

-----------------------------------------------------------------------------
Before(p) == {q \in Cells : q[1] = p[1] /\ q[2] < p[2]}

\* Where a cell's character belongs: its own place if no cell before it is NUL.
Place(p) == <<p[1], Cardinality({q \in Before(p) : vmem[q].char # NUL})>>

\* A blinking NUL is a blank, which does take a column, half of the time.
Steady(p) == \A q \in Before(p) : vmem[q].char = NUL => ~vmem[q].blink

UpToDate ==
  \A p \in shown(window) :
    vmem[p].char # NUL /\ Steady(p) =>
      LET s == screen[Place(p)]
      IN  /\ s.char \in {vmem[p].char} \cup (IF vmem[p].blink THEN {Blank} ELSE {})
          /\ vmem[p].bright => s.bright
          /\ s.underlined => p[1] * COLS + p[2] = cursorPosition

(***************************************************************************)
(* When the guest has stopped writing and the window is left alone, every  *)
(* character of the page that fits comes to be shown, bright if it is      *)
(* bright, and stays: in its own place if every cell before it in its row  *)
(* holds a character, closer to the left by one column for each that holds *)
(* NUL.  No underline is left on a character the cursor has left.  All     *)
(* that although memory is read without a lock and the cursor was taken at *)
(* the start of a frame.                                                   *)
(***************************************************************************)
ScreenConverges == <>[]UpToDate
=============================================================================
