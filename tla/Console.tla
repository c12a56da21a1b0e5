------------------------------ MODULE Console ------------------------------
(***************************************************************************)
(* The VGA text screen, shared by all CPUs without a lock: the consoles      *)
(* that every CPU draws for itself and for its guest (shv-console.c, shv.c,  *)
(* shv-guest.c) and its timer interrupts update (update_screen in            *)
(* shv-timer.c), and with DEBUG_VGA the text of printf (debug-vga.c).        *)
(*                                                                         *)
(* Drawing takes one step for each column. An interrupt handler is one step: *)
(* on its own CPU it is not interrupted, and other CPUs write elsewhere,     *)
(* which RowsShown checks. Colours are left out.                          *)
(***************************************************************************)
EXTENDS Integers, Sequences

CONSTANTS
  CONSOLE_WIDTH, CONSOLE_HEIGHT,    \* also COLS and ROWS
  CONSOLE_MAX_CPU,
  NumCpus,      \* g_midtable_numentries
  Art,          \* not SHV_NO_VGA_ART
  DEBUG_VGA,
  MaxUpdates,   \* timer interrupts of a CPU
  MaxChars      \* bounds the rows that are printed

\* What the constants must be.
ConsoleConstants ==
  /\ CONSOLE_WIDTH \in Nat \ {0} /\ CONSOLE_HEIGHT \in Nat \ {0}
  /\ CONSOLE_MAX_CPU \in 1..CONSOLE_HEIGHT
  /\ NumCpus \in Nat /\ MaxUpdates \in Nat /\ MaxChars \in Nat
  /\ Art \in BOOLEAN /\ DEBUG_VGA \in BOOLEAN

\* What the build and the boot line must keep to: every CPU has a console of
\* two rows and two columns at least, and printf writes to the screen only if
\* no consoles are drawn (SHV_NO_VGA_ART, as tools/build.sh advises).
Configured ==
  /\ ConsoleConstants
  /\ CONSOLE_WIDTH >= 2
  /\ ~(Art /\ DEBUG_VGA)
  /\ Art => /\ NumCpus <= CONSOLE_MAX_CPU
            /\ CONSOLE_HEIGHT \div CONSOLE_MAX_CPU >= 2
            /\ CONSOLE_WIDTH \div 2 >= 2

Cpus == 0..(NumCpus - 1)
X == 0..(CONSOLE_WIDTH - 1)
Y == 0..(CONSOLE_HEIGHT - 1)
Rows == {0, 1}      \* of the PIT and of the LAPIC timer

VARIABLES
  screen,       \* the characters of the screen
  at,           \* how far each CPU has drawn, and the next column
  shv_x,        \* shv_pit_x and shv_lapic_x
  ticks,        \* how often each row was updated
  vid,          \* vid_x and vid_y
  text,         \* the rows that were printed
  assert_failed \* an ASSERT has failed

consoleVars == <<screen, at, shv_x, ticks, vid, text, assert_failed>>

ConsoleInit ==
  /\ screen = [p \in X \X Y |-> 0]
  /\ at = [c \in Cpus |-> [do |-> IF Art THEN "clear" ELSE "off",
                           guest |-> FALSE, col |-> 0]]
  /\ shv_x = [c \in Cpus |-> [row \in BOOLEAN \X Rows |-> 0]]
  /\ ticks = [c \in Cpus |-> [row \in BOOLEAN \X Rows |-> 0]]
  /\ vid = [x |-> 0, y |-> 0]
  /\ text = << <<>> >>
  /\ assert_failed = FALSE

----------------------------------------------------------------------------
(* shv-console.c *)

\* A variant in which the consoles of CPU and guest overlap.
console_get_vc_host(num, guest) ==
  [left |-> 0, top |-> (CONSOLE_HEIGHT \div CONSOLE_MAX_CPU) * num,
   width |-> CONSOLE_WIDTH \div 2, height |-> CONSOLE_HEIGHT \div CONSOLE_MAX_CPU]

console_get_vc(num, guest) ==
  [left |-> IF guest THEN CONSOLE_WIDTH \div 2 ELSE 0,
   top |-> (CONSOLE_HEIGHT \div CONSOLE_MAX_CPU) * num,
   width |-> CONSOLE_WIDTH \div 2,
   height |-> CONSOLE_HEIGHT \div CONSOLE_MAX_CPU]
NumValid(num) == num < CONSOLE_MAX_CPU

\* console_get_mmio
Cell(vc, x, y) == <<vc.left + x, vc.top + y>>

\* What is drawn ('0' + id, for LAPIC ids from 17 on, which keeps it apart from
\* the next) and what an interrupt puts ('0' + idx).
Blank == 32
Drawn(c) == 65 + c
Updated(c) == 48 + c

----------------------------------------------------------------------------
(* shv_main and shv_guest_main, with interrupts disabled. *)

Vc(c) == console_get_vc(c, at[c].guest)
Advance(c, next) ==
  at' = [at EXCEPT ![c] = IF @.col + 1 < Vc(c).width
                          THEN [do |-> @.do, guest |-> @.guest, col |-> @.col + 1]
                          ELSE [do |-> next, guest |-> @.guest, col |-> 0]]

\* The first step asserts that the CPU has a console.
ClearColumn(c) ==
  /\ ~assert_failed
  /\ at[c].do = "clear"
  /\ IF NumValid(c)
     THEN /\ screen' = [p \in X \X Y |->
                          IF \E y \in 0..(Vc(c).height - 1) : p = Cell(Vc(c), at[c].col, y)
                          THEN Blank ELSE screen[p]]
          /\ UNCHANGED assert_failed
     ELSE assert_failed' = TRUE /\ UNCHANGED screen
  /\ Advance(c, "draw")
  /\ UNCHANGED <<shv_x, ticks, vid, text>>

DrawColumn(c) ==
  /\ ~assert_failed
  /\ at[c].do = "draw"
  /\ LET cells == {Cell(Vc(c), at[c].col, y) : y \in Rows}
     IN /\ assert_failed' = (\E p \in cells : screen[p] # Blank)
        /\ screen' = [p \in X \X Y |-> IF p \in cells THEN Drawn(c) ELSE screen[p]]
  /\ Advance(c, "run")
  /\ UNCHANGED <<shv_x, ticks, vid, text>>

\* The guest starts, with interrupts disabled.
Launch(c) ==
  /\ ~assert_failed
  /\ at[c].do = "run"
  /\ ~at[c].guest
  /\ at' = [at EXCEPT ![c] = [do |-> "clear", guest |-> TRUE, col |-> 0]]
  /\ UNCHANGED <<screen, shv_x, ticks, vid, text, assert_failed>>

----------------------------------------------------------------------------
(* The timer interrupts of host and guest. *)

NextX(x, w) == (x + 1) % w

TicksOf(c) ==
  ticks[c][<<FALSE, 0>>] + ticks[c][<<FALSE, 1>>]
    + ticks[c][<<TRUE, 0>>] + ticks[c][<<TRUE, 1>>]

\* handle_timer_interrupt and update_screen
UpdateScreen(c, guest, row) ==
  LET vc == console_get_vc(c, guest)
      x == (shv_x[c][<<guest, row>>] + vc.width) % vc.width
  IN /\ ~assert_failed
     /\ at[c].do = "run"
     /\ guest => at[c].guest
     /\ TicksOf(c) < MaxUpdates
     /\ ticks' = [ticks EXCEPT ![c][<<guest, row>>] = @ + 1]
     /\ screen' = [screen EXCEPT
                     ![Cell(vc, x, row)] = Updated(c),
                     ![Cell(vc, (x + vc.width \div 2) % vc.width, row)] = Blank]
     /\ shv_x' = [shv_x EXCEPT ![c][<<guest, row>>] = NextX(x, vc.width)]
     /\ UNCHANGED <<at, vid, text, assert_failed>>

----------------------------------------------------------------------------
(* printf with DEBUG_VGA, one CPU at a time by the line lock. *)

Chars == {97, 98}

\* vid_y is beyond the screen; a variant that is off by one.
ScrollsLate(y) == y > CONSOLE_HEIGHT
Scrolls(y) == y >= CONSOLE_HEIGHT

\* vgamem_newln on the screen scr.
NewLine(scr) ==
  IF Scrolls(vid.y + 1)
  THEN /\ vid' = [x |-> 0, y |-> CONSOLE_HEIGHT - 1]
       /\ screen' = [p \in X \X Y |-> IF p[2] = CONSOLE_HEIGHT - 1 THEN 0
                                      ELSE scr[<<p[1], p[2] + 1>>]]
  ELSE vid' = [x |-> 0, y |-> vid.y + 1] /\ screen' = scr

PrintedRow(row) == text' = [text EXCEPT ![Len(text)] = row]
PrintedLine(row) == text' = Append([text EXCEPT ![Len(text)] = row], <<>>)
Room == Len(text) + Len(text[Len(text)]) <= MaxChars

\* dbg_x86_vgamem_putc
PutChar(ch) ==
  /\ DEBUG_VGA
  /\ Room
  /\ LET scr == [screen EXCEPT ![<<vid.x, vid.y>>] = ch]
         row == Append(text[Len(text)], ch)
     IN IF vid.x + 1 >= CONSOLE_WIDTH
        THEN NewLine(scr) /\ PrintedLine(row)
        ELSE screen' = scr /\ vid' = [vid EXCEPT !.x = @ + 1] /\ PrintedRow(row)
  /\ UNCHANGED <<at, shv_x, ticks, assert_failed>>

PutNewLine ==
  /\ DEBUG_VGA
  /\ Room
  /\ NewLine(screen)
  /\ PrintedLine(text[Len(text)])
  /\ UNCHANGED <<at, shv_x, ticks, assert_failed>>

----------------------------------------------------------------------------

Draw(c) == ClearColumn(c) \/ DrawColumn(c)

ConsoleNext ==
  \/ \E c \in Cpus : Draw(c) \/ Launch(c) \/ \E g \in BOOLEAN, r \in Rows : UpdateScreen(c, g, r)
  \/ (\E ch \in Chars : PutChar(ch)) \/ PutNewLine

ConsoleSpec == ConsoleInit /\ [][ConsoleNext]_consoleVars

----------------------------------------------------------------------------

\* The types of the variables; x counts within a console, vid_x and vid_y
\* within the screen.
ConsoleTypeOK ==
  /\ DOMAIN screen = X \X Y
  /\ \A c \in Cpus : \A g \in BOOLEAN, r \in Rows :
       shv_x[c][<<g, r>>] \in 0..(CONSOLE_WIDTH \div 2 - 1)
  /\ vid.x \in X /\ vid.y \in Y

\* No ASSERT of the console code fails: each CPU has a console, and its cells
\* are still blank when it draws them, whatever the other CPUs do meanwhile.
CellsBlank == ~assert_failed

\* What column x of a row must show after n ticks: tick k puts a character in
\* column k modulo the width and erases the one half a width away.
Shown(c, n, x) ==
  LET w == CONSOLE_WIDTH \div 2
      put == {k \in 0..(n - 1) : k % w = x}
      erased == {k \in 0..(n - 1) : (k + w \div 2) % w = x}
  IN CASE put \cup erased = {} -> Drawn(c)
       [] \E k \in put : \A j \in put \cup erased : j <= k -> Updated(c)
       [] OTHER -> Blank

\* Whichever interrupts the CPUs and their guests take, every row shows the
\* trail of its own timer: no two consoles share a cell.
RowsShown ==
  ~DEBUG_VGA =>
    \A c \in Cpus, g \in BOOLEAN :
      (at[c].guest /\ ~g) \/ (at[c].guest = g /\ at[c].do = "run") =>
        \A r \in Rows, x \in 0..(CONSOLE_WIDTH \div 2 - 1) :
          screen[Cell(console_get_vc(c, g), x, r)] = Shown(c, ticks[c][<<g, r>>], x)

\* The screen shows the last rows of what was printed, also where a line ends
\* just at the right edge or the screen has scrolled.
TextShown ==
  DEBUG_VGA /\ ~Art =>
    \A p \in X \X Y :
      LET first == IF Len(text) > CONSOLE_HEIGHT THEN Len(text) - CONSOLE_HEIGHT ELSE 0
          k == first + p[2] + 1
      IN screen[p] = IF k <= Len(text) /\ p[1] < Len(text[k]) THEN text[k][p[1] + 1] ELSE 0

\* The screen shows what was written to it, and no ASSERT fails over a cell that
\* another CPU has written.
ScreenShows == ConsoleTypeOK /\ CellsBlank /\ RowsShown /\ TextShown
=============================================================================
