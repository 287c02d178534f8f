---------------------------- MODULE Screen ----------------------------
(***************************************************************************)
(* The screen driver, drivers/screen.c: programs write into new_screen at  *)
(* their own cursor, and screen_reflush sends the console only what        *)
(* differs from old_screen, its record of what the console shows.          *)
(*                                                                         *)
(* A printf of a program is three calls, cursor, write and reflush, and it *)
(* may lose the processor between them.  The terminal's own cursor is left *)
(* out: it is hidden, and each character is sent after a cursor movement.  *)
(***************************************************************************)
EXTENDS Integers, Sequences

CONSTANTS
  SCREEN_WIDTH, SCREEN_HEIGHT,
  Tasks,     \* programs that print
  Row,       \* the row each of them prints in
  pid0,      \* what main runs as
  NUL, Blank, Newline, BootText  \* characters, besides one for each program

ASSUME ScreenAssumption ==
  /\ SCREEN_WIDTH \in Nat \ {0} /\ SCREEN_HEIGHT \in Nat \ {0}
  /\ pid0 \notin Tasks
  /\ Row \in [Tasks -> 0 .. SCREEN_HEIGHT - 1]
  /\ Tasks \cap {NUL, Blank, Newline, BootText} = {}
  /\ Newline # Blank /\ Newline # pid0

Cell == 0 .. SCREEN_WIDTH * SCREEN_HEIGHT - 1
Procs == Tasks \cup {pid0}

VARIABLES
  stage,       \* what main has done: "start", "cleared", "tasks" run
  new_screen, old_screen,
  console,     \* external: what the terminal shows
  cursor,      \* cursor_x and cursor_y of each PCB
  column       \* external: where in its row each program takes its cursor to be

screenVars == <<stage, new_screen, old_screen, console, cursor, column>>

-----------------------------------------------------------------------
SCREEN_LOC(x, y) == y * SCREEN_WIDTH + x

\* Slip: one cursor for all.
SharedCursor(p) == pid0

\* current_running->cursor_x and cursor_y
CursorOf(p) == p

\* What a call writes: n characters, and perhaps a newline.
Text(ch, n, newline) ==
  [i \in 1..n |-> ch] \o (IF newline THEN <<Newline>> ELSE <<>>)

screen_write_ch(w, ch) ==
  IF ch = Newline
  THEN [w EXCEPT !.x = 0, !.y = @ + 1]
  ELSE [w EXCEPT !.screen[SCREEN_LOC(w.x, w.y)] = ch, !.x = @ + 1]

screen_write(p, text) ==
  LET c == cursor[CursorOf(p)]
      after[i \in 0..Len(text)] ==
        IF i = 0 THEN [screen |-> new_screen, x |-> c.x, y |-> c.y]
        ELSE screen_write_ch(after[i - 1], text[i])
      w == after[Len(text)]
  IN  /\ new_screen' = w.screen
      /\ cursor' = [cursor EXCEPT ![CursorOf(p)] = [x |-> w.x, y |-> w.y]]

\* Slip: blanks are recorded but not sent.
ReflushSkipsBlanks(screen, shown) ==
  /\ console' = [c \in Cell |-> IF screen[c] \notin {old_screen[c], Blank}
                               THEN screen[c] ELSE shown[c]]
  /\ old_screen' = screen

\* shown is on the console; the characters that changed are sent.
screen_reflush(screen, shown) ==
  /\ console' = [c \in Cell |-> IF screen[c] # old_screen[c] THEN screen[c] ELSE shown[c]]
  /\ old_screen' = screen

MoveCursor(t) ==
  /\ stage = "tasks"
  /\ cursor' = [cursor EXCEPT ![CursorOf(t)] = [x |-> 0, y |-> Row[t]]]
  /\ column' = [column EXCEPT ![t] = 0]
  /\ UNCHANGED <<stage, new_screen, old_screen, console>>

\* Programs write after setting the cursor, and what fits in their row: text
\* of their own, or blanks over it.
Write(t, ch, n, newline) ==
  /\ stage = "tasks"
  /\ column[t] + n <= SCREEN_WIDTH
  /\ column' = [column EXCEPT ![t] = IF newline THEN SCREEN_WIDTH + 1 ELSE @ + n]
  /\ screen_write(t, Text(ch, n, newline))
  /\ UNCHANGED <<stage, old_screen, console>>

Reflush(t) ==
  /\ stage = "tasks"
  /\ screen_reflush(new_screen, console)
  /\ UNCHANGED <<stage, new_screen, cursor, column>>

\* printk: main reports each part it has initialised, a line at a time.
Report(n) ==
  /\ stage # "tasks" /\ cursor[pid0].y < SCREEN_HEIGHT
  /\ screen_write(pid0, Text(pid0, n, TRUE))
  /\ screen_reflush(new_screen', console)
  /\ UNCHANGED <<stage, column>>

\* init_screen: the console is cleared, then the buffer, and the two meet.
InitScreen ==
  /\ stage = "start" /\ stage' = "cleared"
  /\ new_screen' = [c \in Cell |-> Blank]
  /\ cursor' = [cursor EXCEPT ![pid0] = [x |-> 0, y |-> 0]]
  /\ screen_reflush(new_screen', [c \in Cell |-> Blank])
  /\ UNCHANGED column

\* Interrupts are enabled.
StartTasks ==
  /\ stage = "cleared" /\ stage' = "tasks"
  /\ UNCHANGED <<new_screen, old_screen, console, cursor, column>>

ScreenInit ==
  /\ stage = "start"
  /\ new_screen = [c \in Cell |-> NUL]
  /\ old_screen = [c \in Cell |-> NUL]
  /\ console = [c \in Cell |-> BootText]
  /\ cursor = [p \in Procs |-> [x |-> 0, y |-> 0]]
  /\ column = [t \in Tasks |-> SCREEN_WIDTH + 1]

ScreenStep ==
  \/ \E n \in 0..SCREEN_WIDTH : Report(n)
  \/ InitScreen
  \/ StartTasks
  \/ \E t \in Tasks :
       \/ MoveCursor(t)
       \/ \E ch \in {t, Blank}, n \in 0..SCREEN_WIDTH, newline \in BOOLEAN :
            Write(t, ch, n, newline)
       \/ Reflush(t)

ScreenSpec == ScreenInit /\ [][ScreenStep]_screenVars

-----------------------------------------------------------------------
\* "we only refresh the characters that have been modified": what the console
\* does not show yet will be sent by the next refresh, whatever main printed
\* before the screen was cleared, and in whatever order programs write,
\* overwrite and refresh.
NothingForgotten ==
  stage # "start" =>
    \A c \in Cell : console[c] # new_screen[c] => old_screen[c] # new_screen[c]

\* A program preempted between setting the cursor and writing still writes in
\* its own row, and nobody else does.
RowsKept ==
  \A t \in Tasks, u \in Tasks, x \in 0 .. SCREEN_WIDTH - 1 :
    Row[t] # Row[u] => console[SCREEN_LOC(x, Row[t])] # u

=======================================================================
