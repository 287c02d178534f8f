------------------------- MODULE ScreenProofs -------------------------
(***************************************************************************)
(* Theorems about the screen driver, for any screen, any number of         *)
(* programs and any rows they print in: what the console does not show yet *)
(* is never forgotten, and nobody writes in the row of another.            *)
(***************************************************************************)
EXTENDS Screen, QueuesProofs

Char == Tasks \cup {pid0, NUL, Blank}
Screens == [Cell -> Char]

\* The characters written and the cursor, while a text is written.
Writes == [screen : Screens, x : Nat, y : Nat]

LEMMA CharsDiffer ==
  /\ Newline \notin Char \/ Newline = NUL
  /\ \A ch \in Tasks \cup {pid0, Blank} : ch # Newline /\ ch \in Char
  /\ \A t \in Tasks : t # pid0 /\ t # Blank /\ t # NUL /\ t # BootText
BY ScreenAssumption DEF Char

(***************************************************************************)
(* SCREEN_LOC gives every column and row of the screen a cell of its own.  *)
(***************************************************************************)
LEMMA LocInjective ==
  ASSUME NEW x \in Nat, NEW y \in Nat, NEW u \in Nat, NEW v \in Nat,
         x < SCREEN_WIDTH, u < SCREEN_WIDTH, SCREEN_LOC(x, y) = SCREEN_LOC(u, v)
  PROVE  x = u /\ y = v
<1> DEFINE W == SCREEN_WIDTH
<1>1. W \in Nat /\ W > 0
  BY ScreenAssumption
<1>2. y * W + x = v * W + u
  BY DEF SCREEN_LOC
<1>3. \A d \in Nat : d * W \in Nat
  BY <1>1
<1> HIDE DEF W
<1>4. ASSUME NEW a \in Nat, NEW b \in Nat, NEW i \in Nat, NEW j \in Nat,
             i < W, j < W, a < b
      PROVE  a * W + i # b * W + j
  <2> DEFINE d == b - a - 1
  <2>1. d \in Nat /\ b = a + 1 + d
    BY <1>4
  <2>2. d * W \in Nat /\ a * W \in Nat
    BY <1>3, <2>1
  <2> HIDE DEF d
  <2>3. b * W = a * W + W + d * W
    BY <1>1, <2>1
  <2> QED BY <1>1, <1>4, <2>2, <2>3
<1>5. y = v
  BY <1>1, <1>2, <1>4 DEF W
<1> QED BY <1>1, <1>2, <1>3, <1>5

(***************************************************************************)
(* The loop of screen_write, from its start to its n-th character.         *)
(***************************************************************************)
Loop(text, start, n) ==
  CHOOSE f : f = [i \in 0..n |-> IF i = 0 THEN start
                                 ELSE screen_write_ch(f[i - 1], text[i])]

LEMMA LoopDefined ==
  ASSUME NEW text, NEW start, NEW n \in Nat
  PROVE  /\ Loop(text, start, n)[0] = start
         /\ \A i \in 1..n : Loop(text, start, n)[i] =
              screen_write_ch(Loop(text, start, n)[i - 1], text[i])
<1> DEFINE Is(f, m) == f = [i \in 0..m |-> IF i = 0 THEN start
                                           ELSE screen_write_ch(f[i - 1], text[i])]
           Bad == {m \in Nat : \A f : ~Is(f, m)}
<1>1. Bad = {}
  <2> SUFFICES ASSUME Bad # {} PROVE FALSE
    OBVIOUS
  <2>1. Bad \in SUBSET Nat
    OBVIOUS
  <2>2. PICK m \in Bad : \A j \in Bad : m <= j
    <3> HIDE DEF Bad
    <3> QED BY <2>1, SmallestExists
  <2>3. CASE m = 0
    <3> DEFINE g == [i \in 0..0 |-> start]
    <3>1. Is(g, 0)
      OBVIOUS
    <3> QED BY <2>3, <3>1
  <2>4. CASE m # 0
    <3>1. m \in Nat /\ m - 1 \in Nat /\ m - 1 \notin Bad
      BY <2>2, <2>4
    <3>2. PICK g : Is(g, m - 1)
      BY <3>1
    <3> DEFINE h == [i \in 0..m |-> IF i = m THEN screen_write_ch(g[m - 1], text[m]) ELSE g[i]]
    <3>3. \A i \in 0..m : h[i] = IF i = 0 THEN start ELSE screen_write_ch(h[i - 1], text[i])
      <4> SUFFICES ASSUME NEW i \in 0..m
                   PROVE  h[i] = IF i = 0 THEN start ELSE screen_write_ch(h[i - 1], text[i])
        OBVIOUS
      <4>0. \A j \in 0..(m - 1) : g[j] = IF j = 0 THEN start ELSE screen_write_ch(g[j - 1], text[j])
        BY <3>2
      <4>1. CASE i = m
        <5>1. m - 1 \in 0..m /\ m - 1 # m
          BY <3>1
        <5>2. h[m - 1] = g[m - 1]
          BY <5>1
        <5>3. h[m] = screen_write_ch(g[m - 1], text[m])
          BY <3>1
        <5> HIDE DEF h
        <5> QED BY <2>4, <4>1, <5>2, <5>3
      <4>2. CASE i # m
        <5>1. i \in 0..(m - 1) /\ (i # 0 => i - 1 \in 0..m /\ i - 1 # m)
          BY <3>1, <4>2
        <5>2. h[i] = g[i] /\ (i # 0 => h[i - 1] = g[i - 1])
          BY <5>1, <4>2
        <5> HIDE DEF h
        <5> QED BY <4>0, <5>1, <5>2
      <4> QED BY <4>1, <4>2
    <3>4. h = [i \in 0..m |-> h[i]]
      OBVIOUS
    <3>5. Is(h, m)
      <4> HIDE DEF h
      <4> QED BY <3>3, <3>4
    <3> HIDE DEF Is, h
    <3> QED BY <2>2, <3>5
  <2> QED BY <2>3, <2>4
<1>2. \E f : Is(f, n)
  <2> HIDE DEF Is
  <2> QED BY <1>1
<1>3. Is(Loop(text, start, n), n)
  BY <1>2 DEF Loop
<1> DEFINE f == Loop(text, start, n)
<1> HIDE DEF f
<1>4. f = [i \in 0..n |-> IF i = 0 THEN start ELSE screen_write_ch(f[i - 1], text[i])]
  BY <1>3 DEF f
<1>5. \A i \in 0..n : f[i] = IF i = 0 THEN start ELSE screen_write_ch(f[i - 1], text[i])
  BY <1>4
<1>6. 0 \in 0..n /\ \A i \in 1..n : i \in 0..n /\ i # 0
  OBVIOUS
<1>7. f[0] = start /\ \A i \in 1..n : f[i] = screen_write_ch(f[i - 1], text[i])
  BY <1>5, <1>6
<1> QED BY <1>7 DEF f

LEMMA TextIs ==
  ASSUME NEW ch, NEW n \in Nat, NEW newline \in BOOLEAN
  PROVE  /\ Len(Text(ch, n, newline)) = IF newline THEN n + 1 ELSE n
         /\ \A i \in 1..n : Text(ch, n, newline)[i] = ch
         /\ newline => Text(ch, n, newline)[n + 1] = Newline
<1> DEFINE q == [i \in 1..n |-> ch]
           S == {ch, Newline}
           r == IF newline THEN <<Newline>> ELSE <<>>
           c == q \o r
<1>1. q \in Seq(S) /\ Len(q) = n /\ \A i \in 1..n : q[i] = ch
  <2>1. q \in [1..n -> S]
    OBVIOUS
  <2> QED BY <2>1
<1>2. /\ r \in Seq(S) /\ Len(r) = (IF newline THEN 1 ELSE 0)
      /\ newline => r[1] = Newline
  <2>1. CASE newline
    BY <2>1
  <2>2. CASE ~newline
    BY <2>2
  <2> QED BY <2>1, <2>2
<1> HIDE DEF q, r, S
<1>3. /\ Len(c) = Len(q) + Len(r)
      /\ \A i \in 1..(Len(q) + Len(r)) : c[i] = IF i <= Len(q) THEN q[i] ELSE r[i - Len(q)]
  BY <1>1, <1>2, ConcatProperties
<1>4. /\ Len(c) = (IF newline THEN n + 1 ELSE n)
      /\ \A i \in 1..n : c[i] = ch
      /\ newline => c[n + 1] = Newline
  BY <1>1, <1>2, <1>3
<1> QED BY <1>4 DEF Text, c, q, r

(***************************************************************************)
(* What a call of screen_write leaves: it has changed nothing but the      *)
(* cells from the cursor on, and the cursor stands behind the text.        *)
(***************************************************************************)
LEMMA TextWritten ==
  ASSUME NEW m \in Screens, NEW x \in Nat, NEW y \in Nat,
         NEW ch \in Char, ch # Newline, NEW n \in Nat, NEW newline \in BOOLEAN,
         NEW w, w = LET text == Text(ch, n, newline)
                    IN  Loop(text, [screen |-> m, x |-> x, y |-> y], Len(text))[Len(text)]
  PROVE  /\ w \in Writes
         /\ \A k \in Cell : \/ w.screen[k] = m[k]
                            \/ w.screen[k] = ch /\ \E j \in 0..(n - 1) : k = SCREEN_LOC(x + j, y)
         /\ newline => w.x = 0 /\ w.y = y + 1
         /\ ~newline => w.x = x + n /\ w.y = y
<1> DEFINE text  == Text(ch, n, newline)
           start == [screen |-> m, x |-> x, y |-> y]
           f     == Loop(text, start, Len(text))
           Good(i) == /\ f[i] \in Writes /\ f[i].x = x + i /\ f[i].y = y
                      /\ \A k \in Cell : \/ f[i].screen[k] = m[k]
                                         \/ /\ f[i].screen[k] = ch
                                            /\ \E j \in 0..(i - 1) : k = SCREEN_LOC(x + j, y)
           Bad == {i \in 0..n : ~Good(i)}
<1>1. /\ Len(text) = (IF newline THEN n + 1 ELSE n)
      /\ \A i \in 1..n : text[i] = ch
      /\ newline => text[n + 1] = Newline
  BY TextIs
<1>2. w = f[Len(text)]
  OBVIOUS
<1> HIDE DEF text, start
<1>3. f[0] = start /\ \A i \in 1..Len(text) : f[i] = screen_write_ch(f[i - 1], text[i])
  BY <1>1, LoopDefined
<1> HIDE DEF f
<1>4. Good(0)
  <2>1. start \in Writes /\ start.x = x + 0 /\ start.y = y /\ start.screen = m
    BY DEF start, Writes
  <2>2. f[0] = start
    BY <1>3
  <2> QED BY <2>1, <2>2
<1>5. ASSUME NEW i \in 1..n, Good(i - 1) PROVE Good(i)
  <2> DEFINE b == f[i - 1]
             l == SCREEN_LOC(b.x, b.y)
  <2>1. /\ b \in Writes /\ b.x = x + (i - 1) /\ b.y = y
        /\ f[i] = [b EXCEPT !.screen[l] = ch, !.x = @ + 1]
    <3>1. i \in 1..Len(text) /\ text[i] = ch
      BY <1>1
    <3>2. f[i] = screen_write_ch(b, ch)
      BY <1>3, <3>1
    <3>3. f[i] = [b EXCEPT !.screen[l] = ch, !.x = @ + 1]
      BY <3>2 DEF screen_write_ch
    <3> QED BY <1>5, <3>3
  <2>2. \A k \in Cell : \/ b.screen[k] = m[k]
                        \/ b.screen[k] = ch /\ \E j \in 0..((i - 1) - 1) : k = SCREEN_LOC(x + j, y)
    BY <1>5
  <2> HIDE DEF b
  <2>3. b.screen \in Screens /\ b.x \in Nat /\ b.y \in Nat
        /\ b = [screen |-> b.screen, x |-> b.x, y |-> b.y]
    BY <2>1 DEF Writes
  <2>4. f[i] = [screen |-> [b.screen EXCEPT ![l] = ch], x |-> b.x + 1, y |-> b.y]
    <3> HIDE DEF l
    <3> QED BY <2>1, <2>3
  <2>5. [b.screen EXCEPT ![l] = ch] \in Screens
    BY <2>3 DEF Screens
  <2>6. f[i] \in Writes /\ f[i].x = x + i /\ f[i].y = y
    <3>1. b.x + 1 = x + i /\ b.x + 1 \in Nat
      BY <2>1, <2>3
    <3> HIDE DEF l
    <3> QED BY <2>1, <2>3, <2>4, <2>5, <3>1 DEF Writes
  <2>7. \A k \in Cell : f[i].screen[k] = IF k = l THEN ch ELSE b.screen[k]
    BY <2>3, <2>4 DEF Screens
  <2>8. l = SCREEN_LOC(x + (i - 1), y) /\ i - 1 \in 0..(i - 1)
    BY <2>1
  <2>9. \A j \in 0..((i - 1) - 1) : j \in 0..(i - 1)
    OBVIOUS
  <2> HIDE DEF l
  <2> QED BY <2>2, <2>6, <2>7, <2>8, <2>9
<1> HIDE DEF Good
<1>6. Bad = {}
  <2> SUFFICES ASSUME Bad # {} PROVE FALSE
    OBVIOUS
  <2>1. Bad \in SUBSET Nat
    OBVIOUS
  <2>2. PICK i \in Bad : \A j \in Bad : i <= j
    <3> HIDE DEF Bad
    <3> QED BY <2>1, SmallestExists
  <2>3. i # 0
    BY <1>4, <2>2
  <2>4. i \in 1..n /\ i - 1 \in 0..n /\ i - 1 \notin Bad
    BY <2>2, <2>3
  <2> QED BY <1>5, <2>2, <2>4
<1>7. Good(n)
  BY <1>6
<1>8. CASE ~newline
  BY <1>1, <1>2, <1>7, <1>8 DEF Good
<1>9. CASE newline
  <2> DEFINE b == f[n]
  <2>1. w = screen_write_ch(b, Newline)
    <3>1. n + 1 \in 1..Len(text) /\ (n + 1) - 1 = n
      BY <1>1, <1>9
    <3> QED BY <1>1, <1>2, <1>3, <1>9, <3>1
  <2>2. b \in Writes /\ b.y = y
        /\ \A k \in Cell : \/ b.screen[k] = m[k]
                           \/ b.screen[k] = ch /\ \E j \in 0..(n - 1) : k = SCREEN_LOC(x + j, y)
    BY <1>7 DEF Good
  <2> HIDE DEF b
  <2>3. b \in [screen : Screens, x : Nat, y : Nat] /\ w = [b EXCEPT !.x = 0, !.y = @ + 1]
    BY <2>1, <2>2 DEF screen_write_ch, Writes
  <2>4. w = [screen |-> b.screen, x |-> 0, y |-> b.y + 1]
    BY <2>3
  <2>5. b.screen \in Screens /\ b.y + 1 \in Nat
    BY <2>2, <2>3
  <2>6. w \in Writes /\ w.x = 0 /\ w.y = y + 1 /\ w.screen = b.screen
    BY <2>2, <2>4, <2>5 DEF Writes
  <2> QED BY <1>9, <2>2, <2>6
<1> QED BY <1>8, <1>9

-----------------------------------------------------------------------
\* No character of a program is in a row that another row's program prints in.
InOwnRows(m) ==
  \A t \in Tasks, u \in Tasks, x \in 0 .. SCREEN_WIDTH - 1 :
    Row[t] # Row[u] => m[SCREEN_LOC(x, Row[t])] # u

\* The inductive invariant: the record of the console is right once the screen
\* is cleared, a program that has set its cursor has it in its own row, and the
\* rows are kept in the buffer as on the console.
ScreenInv ==
  /\ new_screen \in Screens /\ old_screen \in Screens
  /\ console \in [Cell -> Char \cup {BootText}]
  /\ cursor \in [Procs -> [x : Nat, y : Nat]]
  /\ column \in [Tasks -> Nat]
  /\ stage # "start" => \A c \in Cell : console[c] = old_screen[c]
  /\ \A t \in Tasks : column[t] <= SCREEN_WIDTH =>
       cursor[t] = [x |-> column[t], y |-> Row[t]]
  /\ InOwnRows(new_screen) /\ InOwnRows(console)

LEMMA LocOnScreen ==
  ASSUME NEW x \in 0 .. SCREEN_WIDTH - 1, NEW t \in Tasks
  PROVE  SCREEN_LOC(x, Row[t]) \in Cell
<1> DEFINE W == SCREEN_WIDTH
           H == SCREEN_HEIGHT
           y == Row[t]
           d == H - 1 - y
<1>1. /\ W \in Nat /\ W > 0 /\ H \in Nat /\ y \in Nat /\ d \in Nat /\ H = y + 1 + d
      /\ x \in Nat /\ x < W
  BY ScreenAssumption
<1> HIDE DEF W, H, y, d
<1>2. y * W \in Nat /\ d * W \in Nat
  BY <1>1
<1>3. W * H = y * W + W + d * W
  BY <1>1
<1>4. y * W + x \in 0 .. W * H - 1
  BY <1>1, <1>2, <1>3
<1> QED BY <1>4 DEF SCREEN_LOC, Cell, W, H, y

(***************************************************************************)
(* screen_reflush after a change of the buffer keeps the record right and  *)
(* brings nobody's characters into the row of another.                     *)
(***************************************************************************)
LEMMA ReflushKeeps ==
  ASSUME NEW m \in Screens, NEW shown \in [Cell -> Char \cup {BootText}],
         old_screen \in Screens, InOwnRows(m), InOwnRows(shown),
         screen_reflush(m, shown)
  PROVE  /\ old_screen' \in Screens /\ console' \in [Cell -> Char \cup {BootText}]
         /\ InOwnRows(console')
         /\ (\A c \in Cell : shown[c] \in {old_screen[c], m[c]}) =>
              \A c \in Cell : console'[c] = old_screen'[c]
<1>1. /\ old_screen' = m
      /\ console' = [c \in Cell |-> IF m[c] # old_screen[c] THEN m[c] ELSE shown[c]]
  BY DEF screen_reflush
<1>2. console' \in [Cell -> Char \cup {BootText}]
  BY <1>1 DEF Screens
<1>3. \A c \in Cell : console'[c] \in {m[c], shown[c]}
  BY <1>1
<1>4. InOwnRows(console')
  BY <1>3, LocOnScreen DEF InOwnRows
<1>5. (\A c \in Cell : shown[c] \in {old_screen[c], m[c]}) =>
        \A c \in Cell : console'[c] = old_screen'[c]
  BY <1>1
<1> QED BY <1>1, <1>2, <1>4, <1>5

\* Process p has written n characters ch and perhaps a newline.
Wrote(p, ch, n, newline) ==
  /\ new_screen' \in Screens
  /\ cursor' \in [Procs -> [x : Nat, y : Nat]]
  /\ \A q \in Procs \ {p} : cursor'[q] = cursor[q]
  /\ ~newline => cursor'[p] = [x |-> cursor[p].x + n, y |-> cursor[p].y]
  /\ \A k \in Cell : \/ new_screen'[k] = new_screen[k]
                     \/ /\ new_screen'[k] = ch
                        /\ \E j \in 0..(n - 1) :
                             k = SCREEN_LOC(cursor[p].x + j, cursor[p].y)

(***************************************************************************)
(* What a call of screen_write does to the state.                          *)
(***************************************************************************)
LEMMA CallWrites ==
  ASSUME ScreenInv, NEW p \in Procs, NEW ch \in Char, ch # Newline,
         NEW n \in Nat, NEW newline \in BOOLEAN,
         screen_write(p, Text(ch, n, newline))
  PROVE  Wrote(p, ch, n, newline)
<1> DEFINE text == Text(ch, n, newline)
           x == cursor[p].x
           y == cursor[p].y
           w == Loop(text, [screen |-> new_screen, x |-> x, y |-> y], Len(text))[Len(text)]
<1>1. /\ new_screen \in Screens /\ x \in Nat /\ y \in Nat
      /\ cursor \in [Procs -> [x : Nat, y : Nat]]
  BY DEF ScreenInv
<1>2. new_screen' = w.screen /\ cursor' = [cursor EXCEPT ![p] = [x |-> w.x, y |-> w.y]]
  BY DEF screen_write, CursorOf, Loop
<1>3. /\ w \in Writes
      /\ \A k \in Cell : \/ w.screen[k] = new_screen[k]
                         \/ w.screen[k] = ch /\ \E j \in 0..(n - 1) : k = SCREEN_LOC(x + j, y)
      /\ ~newline => w.x = x + n /\ w.y = y
  <2> HIDE DEF x, y, text
  <2>1. w = Loop(text, [screen |-> new_screen, x |-> x, y |-> y], Len(text))[Len(text)]
    OBVIOUS
  <2> HIDE DEF w
  <2> QED BY <1>1, <2>1, TextWritten DEF text
<1> HIDE DEF w, x, y
<1>4. w.screen \in Screens /\ [x |-> w.x, y |-> w.y] \in [x : Nat, y : Nat]
  BY <1>3 DEF Writes
<1>5. /\ cursor' \in [Procs -> [x : Nat, y : Nat]]
      /\ cursor'[p] = [x |-> w.x, y |-> w.y]
      /\ \A q \in Procs \ {p} : cursor'[q] = cursor[q]
  BY <1>1, <1>2, <1>4
<1> QED BY <1>2, <1>3, <1>4, <1>5 DEF x, y, Wrote

LEMMA ScreenInitInv == ScreenInit => ScreenInv
<1> SUFFICES ASSUME ScreenInit PROVE ScreenInv
  OBVIOUS
<1>1. /\ new_screen \in Screens /\ old_screen \in Screens
      /\ console \in [Cell -> Char \cup {BootText}]
      /\ stage = "start"
  BY DEF ScreenInit, Screens, Char
<1>2. /\ cursor \in [Procs -> [x : Nat, y : Nat]]
      /\ column \in [Tasks -> Nat]
      /\ \A t \in Tasks : ~(column[t] <= SCREEN_WIDTH)
  BY ScreenAssumption DEF ScreenInit
<1>3. InOwnRows(new_screen) /\ InOwnRows(console)
  BY LocOnScreen, CharsDiffer DEF InOwnRows, ScreenInit
<1> QED BY <1>1, <1>2, <1>3 DEF ScreenInv

\* A text that stays within the rows of its program.
LEMMA WriteInRow ==
  ASSUME ScreenInv, NEW t \in Tasks, NEW ch \in {t, Blank}, NEW n \in Nat,
         column[t] + n <= SCREEN_WIDTH, NEW m,
         \A k \in Cell : \/ m[k] = new_screen[k]
                         \/ /\ m[k] = ch
                            /\ \E j \in 0..(n - 1) : k = SCREEN_LOC(column[t] + j, Row[t])
  PROVE  InOwnRows(m)
<1> SUFFICES ASSUME NEW u \in Tasks, NEW v \in Tasks, NEW x \in 0 .. SCREEN_WIDTH - 1,
                    Row[u] # Row[v], m[SCREEN_LOC(x, Row[u])] = v
             PROVE  FALSE
  BY DEF InOwnRows
<1> DEFINE k == SCREEN_LOC(x, Row[u])
<1>1. k \in Cell
  BY LocOnScreen
<1>2. new_screen[k] # v
  BY DEF ScreenInv, InOwnRows
<1>3. PICK j \in 0..(n - 1) : k = SCREEN_LOC(column[t] + j, Row[t]) /\ v = ch
  BY <1>1, <1>2
<1>4. v = t
  BY <1>3, CharsDiffer
<1>5. /\ x \in Nat /\ x < SCREEN_WIDTH /\ Row[u] \in Nat /\ Row[t] \in Nat
      /\ column[t] + j \in Nat /\ column[t] + j < SCREEN_WIDTH
  BY <1>3, ScreenAssumption DEF ScreenInv
<1>6. Row[u] = Row[t]
  BY <1>3, <1>5, LocInjective
<1> QED BY <1>4, <1>6

LEMMA ScreenStepInv ==
  ASSUME ScreenInv, [ScreenStep]_screenVars PROVE ScreenInv'
<1>0. /\ new_screen \in Screens /\ old_screen \in Screens
      /\ console \in [Cell -> Char \cup {BootText}]
      /\ cursor \in [Procs -> [x : Nat, y : Nat]]
      /\ column \in [Tasks -> Nat]
      /\ stage # "start" => \A c \in Cell : console[c] = old_screen[c]
      /\ \A t \in Tasks : column[t] <= SCREEN_WIDTH =>
           cursor[t] = [x |-> column[t], y |-> Row[t]]
      /\ InOwnRows(new_screen) /\ InOwnRows(console)
      /\ SCREEN_WIDTH \in Nat /\ SCREEN_WIDTH > 0
      /\ Tasks \subseteq Procs /\ pid0 \in Procs /\ pid0 \notin Tasks
  BY ScreenAssumption DEF ScreenInv, Procs
<1>1. ASSUME NEW n \in 0..SCREEN_WIDTH, Report(n) PROVE ScreenInv'
  <2>1. /\ screen_write(pid0, Text(pid0, n, TRUE))
        /\ screen_reflush(new_screen', console)
        /\ stage' = stage /\ column' = column
    BY <1>1 DEF Report
  <2>2. pid0 \in Char /\ pid0 # Newline /\ n \in Nat
    BY <1>0, CharsDiffer
  <2>3. /\ new_screen' \in Screens
        /\ cursor' \in [Procs -> [x : Nat, y : Nat]]
        /\ \A q \in Procs \ {pid0} : cursor'[q] = cursor[q]
        /\ \A k \in Cell : new_screen'[k] \in {new_screen[k], pid0}
    <3>1. Wrote(pid0, pid0, n, TRUE)
      BY <1>0, <2>1, <2>2, CallWrites
    <3> QED BY <3>1 DEF Wrote
  <2>4. InOwnRows(new_screen')
    BY <1>0, <2>3, LocOnScreen DEF InOwnRows
  <2>5. /\ old_screen' \in Screens /\ console' \in [Cell -> Char \cup {BootText}]
        /\ InOwnRows(console')
        /\ (\A c \in Cell : console[c] \in {old_screen[c], new_screen'[c]}) =>
              \A c \in Cell : console'[c] = old_screen'[c]
    BY <1>0, <2>1, <2>3, <2>4, ReflushKeeps
  <2> QED BY <1>0, <2>1, <2>3, <2>4, <2>5 DEF ScreenInv
<1>2. ASSUME InitScreen PROVE ScreenInv'
  <2> DEFINE clear == [c \in Cell |-> Blank]
  <2>1. /\ stage' = "cleared" /\ new_screen' = clear /\ column' = column
        /\ cursor' = [cursor EXCEPT ![pid0] = [x |-> 0, y |-> 0]]
        /\ screen_reflush(clear, clear)
    BY <1>2 DEF InitScreen
  <2>2. /\ clear \in Screens /\ clear \in [Cell -> Char \cup {BootText}]
        /\ \A c \in Cell : clear[c] = Blank
    BY CharsDiffer DEF Screens, Char
  <2> HIDE DEF clear
  <2>3. InOwnRows(clear)
    BY <2>2, LocOnScreen, CharsDiffer DEF InOwnRows
  <2>4. /\ old_screen' \in Screens /\ console' \in [Cell -> Char \cup {BootText}]
        /\ InOwnRows(console')
        /\ \A c \in Cell : console'[c] = old_screen'[c]
    BY <1>0, <2>1, <2>2, <2>3, ReflushKeeps
  <2>5. /\ cursor' \in [Procs -> [x : Nat, y : Nat]]
        /\ \A t \in Tasks : cursor'[t] = cursor[t]
    BY <1>0, <2>1
  <2> QED BY <1>0, <2>1, <2>2, <2>3, <2>4, <2>5 DEF ScreenInv
<1>3. ASSUME StartTasks PROVE ScreenInv'
  BY <1>0, <1>3 DEF StartTasks, ScreenInv
<1>4. ASSUME NEW t \in Tasks, MoveCursor(t) PROVE ScreenInv'
  <2>1. /\ stage = "tasks" /\ stage' = stage
        /\ cursor' = [cursor EXCEPT ![t] = [x |-> 0, y |-> Row[t]]]
        /\ column' = [column EXCEPT ![t] = 0]
        /\ new_screen' = new_screen /\ old_screen' = old_screen /\ console' = console
    BY <1>4 DEF MoveCursor, CursorOf
  <2>2. [x |-> 0, y |-> Row[t]] \in [x : Nat, y : Nat] /\ t \in Procs
    BY <1>0, ScreenAssumption
  <2>3. /\ cursor' \in [Procs -> [x : Nat, y : Nat]] /\ column' \in [Tasks -> Nat]
        /\ \A u \in Tasks : column'[u] <= SCREEN_WIDTH =>
             cursor'[u] = [x |-> column'[u], y |-> Row[u]]
    BY <1>0, <2>1, <2>2
  <2> QED BY <1>0, <2>1, <2>3 DEF ScreenInv
<1>5. ASSUME NEW t \in Tasks, NEW ch \in {t, Blank}, NEW n \in 0..SCREEN_WIDTH,
             NEW newline \in BOOLEAN, Write(t, ch, n, newline)
      PROVE  ScreenInv'
  <2>1. /\ stage' = stage /\ old_screen' = old_screen /\ console' = console
        /\ column[t] + n <= SCREEN_WIDTH
        /\ column' = [column EXCEPT ![t] = IF newline THEN SCREEN_WIDTH + 1 ELSE @ + n]
        /\ screen_write(t, Text(ch, n, newline))
    BY <1>5 DEF Write
  <2>2. /\ ch \in Char /\ ch # Newline /\ n \in Nat /\ t \in Procs
        /\ column[t] \in Nat /\ column[t] <= SCREEN_WIDTH
    BY <1>0, <2>1, CharsDiffer
  <2>3. cursor[t] = [x |-> column[t], y |-> Row[t]]
    BY <1>0, <2>2
  <2>4. /\ new_screen' \in Screens
        /\ cursor' \in [Procs -> [x : Nat, y : Nat]]
        /\ \A q \in Procs \ {t} : cursor'[q] = cursor[q]
        /\ ~newline => cursor'[t] = [x |-> column[t] + n, y |-> Row[t]]
        /\ \A k \in Cell : \/ new_screen'[k] = new_screen[k]
                           \/ /\ new_screen'[k] = ch
                              /\ \E j \in 0..(n - 1) : k = SCREEN_LOC(column[t] + j, Row[t])
    <3>1. Wrote(t, ch, n, newline)
      BY <2>1, <2>2, CallWrites
    <3> QED BY <2>3, <3>1 DEF Wrote
  <2>5. InOwnRows(new_screen')
    BY <2>1, <2>2, <2>4, WriteInRow
  <2>6. column' \in [Tasks -> Nat]
    BY <1>0, <2>1, <2>2
  <2>7. \A u \in Tasks : column'[u] <= SCREEN_WIDTH =>
          cursor'[u] = [x |-> column'[u], y |-> Row[u]]
    <3> SUFFICES ASSUME NEW u \in Tasks, column'[u] <= SCREEN_WIDTH
                 PROVE  cursor'[u] = [x |-> column'[u], y |-> Row[u]]
      OBVIOUS
    <3>1. CASE u # t
      BY <1>0, <2>1, <2>4, <3>1
    <3>2. CASE u = t
      <4>1. ~newline /\ column'[t] = column[t] + n
        BY <1>0, <2>1, <3>2
      <4> QED BY <2>4, <3>2, <4>1
    <3> QED BY <3>1, <3>2
  <2> QED BY <1>0, <2>1, <2>4, <2>5, <2>6, <2>7 DEF ScreenInv
<1>6. ASSUME NEW t \in Tasks, Reflush(t) PROVE ScreenInv'
  <2>1. /\ stage = "tasks" /\ screen_reflush(new_screen, console)
        /\ stage' = stage /\ new_screen' = new_screen /\ cursor' = cursor /\ column' = column
    BY <1>6 DEF Reflush
  <2>2. /\ old_screen' \in Screens /\ console' \in [Cell -> Char \cup {BootText}]
        /\ InOwnRows(console')
        /\ \A c \in Cell : console'[c] = old_screen'[c]
    BY <1>0, <2>1, ReflushKeeps
  <2> QED BY <1>0, <2>1, <2>2 DEF ScreenInv
<1>7. CASE UNCHANGED screenVars
  BY <1>0, <1>7 DEF screenVars, ScreenInv
<1> QED BY <1>1, <1>2, <1>3, <1>4, <1>5, <1>6, <1>7 DEF ScreenStep

(***************************************************************************)
(* For any screen and any number of programs: the buffers, the cursors and *)
(* what the console shows stay in step (screen.c).                         *)
(***************************************************************************)
THEOREM ScreenInvariant == ScreenSpec => []ScreenInv
<1> QED BY ScreenInitInv, ScreenStepInv, PTL DEF ScreenSpec

\* screen_reflush: a character the console does not show is one old_screen
\* knows to be missing, so the next refresh sends it.
THEOREM ScreenForgetsNothing == ScreenSpec => []NothingForgotten
<1>1. ScreenInv => NothingForgotten
  BY DEF ScreenInv, NothingForgotten
<1> QED BY <1>1, ScreenInvariant, PTL

\* The cursor of each PCB: a program that loses the processor between setting
\* the cursor and writing still writes in its row, and nobody else does.
THEOREM ScreenKeepsRows == ScreenSpec => []RowsKept
<1>1. ScreenInv => RowsKept
  BY DEF ScreenInv, RowsKept, InOwnRows
<1> QED BY <1>1, ScreenInvariant, PTL

=======================================================================
