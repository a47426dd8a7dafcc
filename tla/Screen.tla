------------------------------- MODULE Screen -------------------------------
(***************************************************************************)
(* The text console (Kernel/fonts.c): where the next character goes, in    *)
(* which size, and when the screen scrolls.  The pixels of a glyph, the    *)
(* colours and the frame buffer (video.c) are left out; a character is     *)
(* drawn at the position it is put at, and must fit on the screen there.   *)
(*                                                                         *)
(* A system call or the keyboard's interrupt has the console to itself     *)
(* until it scrolls: scrollVideoMemoryUp ends in _sti (video.c line 151),  *)
(* before the position is moved back, and the rest of the write runs with  *)
(* interrupts on.  So an operation is a list of steps, and once it has     *)
(* scrolled others may draw between them.                                  *)
(***************************************************************************)
EXTENDS Integers, Sequences

CONSTANTS Width, Height,      \* of the window, in pixels
          Glyph,              \* glyphSizeX and glyphSizeY
          TAB_SIZE, MaxFont   \* the largest font size is 10
ASSUME ScreenAssumption ==
    /\ {Width, Height, Glyph, TAB_SIZE, MaxFont} \subseteq Nat \ {0}
    /\ MaxFont >= 2
    /\ Width >= Glyph * MaxFont /\ Height >= 2 * Glyph * MaxFont

VARIABLES
    scr,        \* x, y, font size, height of the line, dirty_line
    todo,       \* the steps left of the operation under way
    behind,     \* the picture has been scrolled and the position not yet
    on,         \* the operation runs with interrupts on
    off,        \* history: a glyph was drawn outside the window
    resized,    \* history: the size was changed where the position did not allow it
    overlapped  \* history: another process drew in the middle of an operation

screenVars == <<scr, todo, behind, on, off, resized, overlapped>>
histories == <<off, resized, overlapped>>

Cell(s) == Glyph * s.fontSize
Fits(s) == s.x >= 0 /\ s.y >= 0 /\ s.x + Cell(s) <= Width /\ s.y + Cell(s) <= Height
Below(s) == s.y + Cell(s) > Height

\* main sets size 2 before anything is printed.
ScreenInit ==
    /\ scr = [x |-> 0, y |-> 0, fontSize |-> 2, maxGlyphSizeYOnLine |-> 2 * Glyph, dirty_line |-> FALSE]
    /\ todo = <<>> /\ behind = FALSE /\ on = FALSE
    /\ off = FALSE /\ resized = FALSE /\ overlapped = FALSE

-----------------------------------------------------------------------------
(* The steps of an operation.                                               *)

Doing(step) == ~behind /\ todo # <<>> /\ Head(todo) = step
Then(more) == todo' = more \o Tail(todo)

\* putChar of an ordinary character; one that no longer fits on the line starts the
\* next.  (The code tests once: after newLine the character fits.)
putChar_glyph ==
    /\ Doing("glyph") /\ scr' = [scr EXCEPT !.dirty_line = TRUE] /\ Then(<<"render">>)
    /\ UNCHANGED <<behind, on, histories>>
renderAscii ==
    /\ Doing("render")
    /\ \/ /\ scr.x + Cell(scr) > Width /\ Then(<<"newLine", "render">>)
          /\ UNCHANGED <<scr, off>>
       \/ /\ scr.x + Cell(scr) <= Width /\ Then(<<>>)
          /\ scr' = [scr EXCEPT !.x = @ + Cell(scr)] /\ off' = (off \/ ~Fits(scr))
    /\ UNCHANGED <<behind, on, resized, overlapped>>

\* newLine, and of scrollBufferPositionIfNeeded the test and the scrolling of the
\* picture, which turns interrupts on.
newLine ==
    LET s == [scr EXCEPT !.dirty_line = FALSE, !.y = @ + scr.maxGlyphSizeYOnLine, !.x = 0,
                         !.maxGlyphSizeYOnLine = Cell(scr)] IN
    /\ Doing("newLine") /\ Then(<<>>)
    /\ scr' = s /\ behind' = Below(s) /\ on' = (on \/ Below(s))
    /\ UNCHANGED histories

\* Mutant: a scroll moves the picture and not the position.
BadScroll == behind /\ behind' = FALSE /\ UNCHANGED <<scr, todo, on, histories>>
scrollBufferPosition ==
    /\ behind /\ behind' = FALSE /\ scr' = [scr EXCEPT !.y = @ - Cell(scr)]
    /\ UNCHANGED <<todo, on, histories>>

\* One character back, to the end of the line above at the start of a line.
Retracted(s) ==
    IF s.x # 0 THEN [s EXCEPT !.x = @ - Cell(s)]
    ELSE IF s.y - Cell(s) < 0 THEN [s EXCEPT !.y = 0]
    ELSE [s EXCEPT !.y = @ - Cell(s), !.x = Width - (Width % Cell(s)) - Cell(s)]
retractPosition ==
    /\ Doing("retract") /\ Then(<<>>) /\ scr' = Retracted(scr)
    /\ UNCHANGED <<behind, on, histories>>

\* A carriage return goes back until x is not positive, a tab puts blanks up to the
\* next stop.
carriage_return ==
    /\ Doing("home") /\ IF scr.x > 0 THEN Then(<<"retract", "home">>) ELSE Then(<<>>)
    /\ UNCHANGED <<scr, behind, on, histories>>
tabulator ==
    /\ Doing("stop")
    /\ IF scr.x % (TAB_SIZE * Cell(scr)) # 0 THEN Then(<<"glyph", "stop">>) ELSE Then(<<>>)
    /\ UNCHANGED <<scr, behind, on, histories>>

-----------------------------------------------------------------------------
(* The operations.                                                          *)

Idle == todo = <<>> /\ ~behind
Start(steps) ==
    /\ Idle /\ todo' = steps
    /\ on' \in {FALSE, on}      \* a system call of its own, or a write that has scrolled goes on
    /\ UNCHANGED <<scr, behind, histories>>

hideCursor == <<"glyph", "retract">>
showCursor == <<"glyph", "retract">>
\* A character of printToFd (of descriptor 1 or 2: fd.c has no other) or the echo of a key.
putChar(ascii) ==
    Start(CASE ascii = "newline" -> hideCursor \o <<"newLine">>
            [] ascii = "return" -> hideCursor \o <<"home">>
            [] ascii = "tab" -> <<"glyph", "stop">>
            [] OTHER -> <<"glyph">>)
\* A backspace in the keyboard driver.
clearPreviousCharacter == Start(hideCursor \o <<"retract">> \o showCursor)

clear == Idle /\ scr' = [scr EXCEPT !.x = 0, !.y = 0] /\ UNCHANGED <<todo, behind, on, histories>>

\* The size changes at once, the height of a line that has text on it only grows.
SetSize(size) == [scr EXCEPT !.fontSize = size, !.maxGlyphSizeYOnLine =
    IF scr.dirty_line /\ scr.maxGlyphSizeYOnLine > Glyph * size THEN scr.maxGlyphSizeYOnLine ELSE Glyph * size]
increaseFontSize ==
    LET s == SetSize(IF scr.fontSize > MaxFont - 1 THEN scr.fontSize ELSE scr.fontSize + 1) IN
    /\ Idle /\ scr' = s /\ behind' = Below(s) /\ on' = Below(s)
    /\ resized' = (resized \/ scr.x > 0) /\ UNCHANGED <<todo, off, overlapped>>
decreaseFontSize ==
    /\ Idle /\ scr' = SetSize(IF scr.fontSize <= 1 THEN scr.fontSize ELSE scr.fontSize - 1)
    /\ resized' = (resized \/ scr.x > 0) /\ UNCHANGED <<todo, behind, on, off, overlapped>>
\* The system call does not scroll.
setFontSize(size) ==
    /\ Idle /\ scr' = SetSize(size)
    /\ resized' = (resized \/ scr.x > 0 \/ Below(SetSize(size)))
    /\ UNCHANGED <<todo, behind, on, off, overlapped>>

\* A timer interrupt, and another process draws; or a key is echoed.
overlap ==
    /\ behind \/ (on /\ todo # <<>>)
    /\ overlapped' = TRUE /\ off' = (off \/ ~Fits(scr)) /\ scr' = [scr EXCEPT !.x = @ + Cell(scr)]
    /\ UNCHANGED <<todo, behind, on, resized>>

\* Bound: a behaviour ends when the position has left the window or two operations
\* have overlapped, from where on nothing is claimed.
ScreenNext ==
    /\ scr.x >= 0 /\ scr.y <= Height /\ ~overlapped
    /\ \/ putChar_glyph \/ renderAscii \/ newLine \/ scrollBufferPosition
       \/ retractPosition \/ carriage_return \/ tabulator
       \/ \E ascii \in {"glyph", "newline", "return", "tab"} : putChar(ascii)
       \/ clearPreviousCharacter \/ clear \/ increaseFontSize \/ decreaseFontSize
       \/ \E size \in 1..MaxFont : setFontSize(size)
       \/ overlap
ScreenSpec == ScreenInit /\ [][ScreenNext]_screenVars

-----------------------------------------------------------------------------
(* Properties.                                                              *)

\* Through any mix of text, erasing, clearing and changes of size every glyph, the
\* cursor's included, is drawn inside the window, and the position is on a line of
\* the window, or one below it while a scroll is under way.  Except once the size was
\* changed in the middle of a line, from where retractPosition goes back by the new
\* size and can pass the left edge, or by setFontSize to one too large for the last
\* line; and except once another process has drawn in the middle of an operation that
\* scrolled, which it can do below the window (video.c line 151).
CursorOnScreen ==
    \/ resized \/ overlapped
    \/ /\ ~off
       /\ scr.x \in 0..Width /\ scr.y >= 0
       /\ scr.y + Cell(scr) <= Height + (IF behind THEN Cell(scr) ELSE 0)

=============================================================================
