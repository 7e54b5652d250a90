------------------------------- MODULE Screen -------------------------------
(***************************************************************************)
(* The console (console.cpp) and the mouse cursor (mouse.cpp), which draw  *)
(* into one frame buffer and know nothing of each other.  A pixel stands   *)
(* for a character cell, so a glyph is one pixel: the character itself.    *)
(***************************************************************************)
EXTENDS Integers, Sequences, SequencesExt, FiniteSetsExt

CONSTANTS
  Rows, Columns,   \* kRows, kColumns
  Width, Height,   \* horizontal_resolution, vertical_resolution
  Pitch,           \* pixels_per_scan_line
  Bar,             \* height of the task bar
  Letters,         \* characters that have ink in the font
  Strings,         \* what is printed
  Displacements,   \* <<dx, dy>> that the mouse reports
  MaxText,         \* bound on the characters printed in all
  MaxMoves         \* bound on the movements of the mouse

ASSUME ScreenAssumption ==
  /\ Rows \in Nat \ {0} /\ Columns \in Nat \ {0, 1}
  /\ Width \in Nat /\ Height \in Nat /\ Pitch \in Nat /\ Bar \in Nat
  /\ Columns <= Width /\ Rows <= Height - Bar
  /\ Width <= Pitch
  /\ Displacements \subseteq Int \X Int

VARIABLES
  frame,        \* the frame buffer, as PixelAt addresses it
  buffer,       \* Console::buffer_
  row, column,  \* cursor_row_, cursor_column_
  position,     \* MouseCursor::position_
  text,         \* (history) all that was printed
  touched,      \* (history) pixels the cursor has drawn since they were cleared
  strayed,      \* (history) the cursor has left the screen
  beyond,       \* a pixel outside the frame buffer was written
  moves         \* (history) movements so far

vars == <<frame, buffer, row, column, position, text, touched, strayed, beyond, moves>>

Newline == "\n"
Nul     == "nul"   \* ends a string, and is in none
Ground  == "background"
Pointer == "cursor"

ASSUME StringsAssumption ==
  /\ Nul \notin Letters
  /\ \A s \in Strings : s \in Seq(ToSet(s)) /\ Nul \notin ToSet(s)

-----------------------------------------------------------------------------
(* Drawing: PixelWriter::Write and what is built on it.  A shape is a set  *)
(* of positions <<x, y>>.                                                  *)
PixelAt(p) == Pitch * p[2] + p[1]
Pixels(shape) == {PixelAt(p) : p \in shape}

Paint(f, shape, colour) ==
  LET pixels == Pixels(shape) IN [i \in DOMAIN f |-> IF i \in pixels THEN colour ELSE f[i]]

Rectangle(pos, size) ==
  {<<pos[1] + dx, pos[2] + dy>> : dx \in 0..size[1] - 1, dy \in 0..size[2] - 1}

Outline(pos, size) ==
  Rectangle(pos, size) \ Rectangle(<<pos[1] + 1, pos[2] + 1>>, <<size[1] - 2, size[2] - 2>>)

FillRectangle(f, pos, size, colour) == Paint(f, Rectangle(pos, size), colour)
DrawRectangle(f, pos, size, colour) == Paint(f, Outline(pos, size), colour)

(* KernelMain: the desktop, the task bar and the button on it *)
Desktop ==
  LET empty  == [i \in 0..Pitch * Height - 1 |-> "firmware"]
      ground == FillRectangle(empty, <<0, 0>>, <<Width, Height - Bar>>, Ground)
      bar    == FillRectangle(ground, <<0, Height - Bar>>, <<Width, Bar>>, "bar")
      button == FillRectangle(bar, <<0, Height - Bar>>, <<Width \div 5, Bar>>, "button")
  IN  DrawRectangle(button, <<1, Height - Bar + 1>>, <<3, 3>>, "outline")

(* WriteAscii: a character that has no ink leaves its cell as it is. *)
WriteAscii(f, x, y, c) == IF c \in Letters THEN Paint(f, {<<x, y>>}, c) ELSE f

(* A line of the buffer, as the string it is read as. *)
Line(b, y) == SubSeq(b[y], 1, Min({n \in 1..Columns + 1 : b[y][n] = Nul}) - 1)

(* Each character has a cell of its own. *)
WriteString(f, y, s) ==
  LET inked == {PixelAt(<<n - 1, y>>) : n \in {m \in DOMAIN s : s[m] \in Letters}}
  IN  [i \in DOMAIN f |-> IF i \in inked THEN s[i - PixelAt(<<0, y>>) + 1] ELSE f[i]]

-----------------------------------------------------------------------------
(* Console::PutString, a character at a time on its state *)
EmptyLine == [i \in 1..Columns + 1 |-> Nul]
ConsoleArea == Rectangle(<<0, 0>>, <<Columns, Rows>>)

Redraw(f, b) ==
  LET drawn[n \in 0..Rows - 1] ==   \* with n of the lines
        IF n = 0 THEN Paint(f, ConsoleArea, Ground)
        ELSE WriteString(drawn[n - 1], n - 1, Line(b, n - 1))
  IN  drawn[Rows - 1]

ScrolledBug(b) ==   \* the last line is not cleared
  [y \in 0..Rows - 1 |-> IF y < Rows - 1 THEN b[y + 1] ELSE b[y]]

Scrolled(b) == [y \in 0..Rows - 1 |-> IF y < Rows - 1 THEN b[y + 1] ELSE EmptyLine]

(* At the last row the console clears its area and draws the lines again.  *)
NewLine(c) ==
  IF c.row < Rows - 1
  THEN [c EXCEPT !.column = 0, !.row = @ + 1]
  ELSE [c EXCEPT !.column = 0, !.buffer = Scrolled(@),
                 !.frame = Redraw(@, Scrolled(c.buffer)),
                 !.touched = @ \ Pixels(ConsoleArea)]

(* What does not fit in the line is left out. *)
PutChar(c, ch) ==
  IF ch = Newline THEN NewLine(c)
  ELSE IF c.column < Columns - 1
       THEN [c EXCEPT !.frame = WriteAscii(@, c.column, c.row, ch),
                      !.buffer[c.row][c.column + 1] = ch,
                      !.column = @ + 1]
       ELSE c

PutAll(c, s) ==
  LET after[n \in 0..Len(s)] == IF n = 0 THEN c ELSE PutChar(after[n - 1], s[n])
  IN  after[Len(s)]

Console ==
  [ frame |-> frame, buffer |-> buffer, row |-> row, column |-> column, touched |-> touched ]

PutString(s) ==
  LET c == PutAll(Console, s)
  IN  /\ frame' = c.frame /\ buffer' = c.buffer
      /\ row' = c.row /\ column' = c.column
      /\ touched' = c.touched

(* printk and Log, which prints all since SetLogLevel(kDebug) *)
printk(s) ==
  /\ Len(text) + Len(s) <= MaxText
  /\ PutString(s)
  /\ text' = text \o s
  /\ UNCHANGED <<position, strayed, beyond, moves>>

-----------------------------------------------------------------------------
(* The mouse cursor: a shape with a hole, drawn and erased over whatever   *)
(* is there.                                                               *)
Shape == {<<0, 0>>, <<0, 1>>, <<1, 1>>}
Cursor(p) == {<<p[1] + d[1], p[2] + d[2]>> : d \in Shape}
OnScreen(p) == Cursor(p) \subseteq Rectangle(<<0, 0>>, <<Width, Height>>)

MoveRelativeBug(displacement) ==   \* moves before it erases
  LET to == <<position[1] + displacement[1], position[2] + displacement[2]>>
  IN  /\ moves < MaxMoves
      /\ position' = to
      /\ frame' = Paint(Paint(frame, Cursor(to), Ground), Cursor(to), Pointer)
      /\ touched' = touched \cup Pixels(Cursor(position)) \cup Pixels(Cursor(to))
      /\ beyond' = (beyond \/ ~(Pixels(Cursor(to)) \subseteq DOMAIN frame))
      /\ strayed' = (strayed \/ ~OnScreen(to))
      /\ moves' = moves + 1
      /\ UNCHANGED <<buffer, row, column, text>>

(* MouseObserver: nothing keeps the cursor on the screen. *)
MoveRelative(displacement) ==
  LET to == <<position[1] + displacement[1], position[2] + displacement[2]>>
  IN  /\ moves < MaxMoves
      /\ position' = to
      /\ frame' = Paint(Paint(frame, Cursor(position), Ground), Cursor(to), Pointer)
      /\ touched' = touched \cup Pixels(Cursor(position)) \cup Pixels(Cursor(to))
      /\ beyond' = (beyond \/ ~(Pixels(Cursor(to)) \subseteq DOMAIN frame))
      /\ strayed' = (strayed \/ ~OnScreen(to))
      /\ moves' = moves + 1
      /\ UNCHANGED <<buffer, row, column, text>>

-----------------------------------------------------------------------------
Initially == <<2, 1>>

(* In the program it is within the area of the console. *)
ASSUME CursorAssumption == OnScreen(Initially)

Init ==
  /\ buffer = [y \in 0..Rows - 1 |-> EmptyLine]
  /\ row = 0 /\ column = 0
  /\ position = Initially
  /\ frame = Paint(Desktop, Cursor(Initially), Pointer)
  /\ touched = Pixels(Cursor(Initially))
  /\ text = <<>> /\ strayed = FALSE /\ beyond = FALSE /\ moves = 0

Next ==
  \/ \E s \in Strings : printk(s)
  \/ \E d \in Displacements : MoveRelative(d)

Spec == Init /\ [][Next]_vars

-----------------------------------------------------------------------------
(* What the console should hold: the text cut into lines at the newlines,  *)
(* each line cut off at the width of the console, and of these the last    *)
(* that fit.                                                               *)
Breaks(t) == {i \in DOMAIN t : t[i] = Newline}
Its(t, k) ==   \* where the characters of the k-th line of t are
  {i \in DOMAIN t \ Breaks(t) : Cardinality({j \in Breaks(t) : j < i}) = k - 1}
LineOf(t, k) == IF Its(t, k) = {} THEN <<>> ELSE SubSeq(t, Min(Its(t, k)), Max(Its(t, k)))
CutOff(line) == SubSeq(line, 1, IF Len(line) < Columns THEN Len(line) ELSE Columns - 1)
Lines(t) == Cardinality(Breaks(t)) + 1
Top(t)   == IF Lines(t) > Rows THEN Lines(t) - Rows ELSE 0
Expected(t, y) == IF Top(t) + y + 1 <= Lines(t) THEN CutOff(LineOf(t, Top(t) + y + 1)) ELSE <<>>

(* The console holds the last lines of all that was printed, through every *)
(* wrap, cut and scroll.                                                   *)
HoldsTheText == \A y \in 0..Rows - 1 : Line(buffer, y) = Expected(text, y)

(* The screen shows what the console holds, and the desktop around it,     *)
(* but for pixels the cursor has drawn since the console last cleared      *)
(* them; these may be blank, and only those under the cursor show it.      *)
(* Nothing outside the frame buffer is written while the cursor stays on   *)
(* the screen.                                                             *)
Ink(b, x, y) ==
  LET c == b[y][x + 1] IN IF c \in Letters THEN c ELSE Ground

ShownAt(f, b, p, drawn) ==
  LET shown == f[PixelAt(p)]
  IN  \/ shown = Ink(b, p[1], p[2])
      \/ PixelAt(p) \in drawn /\ shown = Ground
      \/ p \in Cursor(position) /\ shown = Pointer
      \/ strayed /\ PixelAt(p) \in Pixels(Cursor(position)) /\ shown = Pointer

ShowsTheText ==
  /\ \A p \in ConsoleArea : ShownAt(frame, buffer, p, touched)
  /\ \A i \in DOMAIN frame \ (touched \cup Pixels(ConsoleArea)) : frame[i] = Desktop[i]
  /\ beyond => strayed
=============================================================================
