--------------------------- MODULE ConsoleProofs ---------------------------
(***************************************************************************)
(* Proof that the screen shows what was written to it (shv-console.c,        *)
(* shv-timer.c, debug-vga.c), for every size of the screen, number of CPUs   *)
(* and number of timer interrupts.                                           *)
(*                                                                         *)
(* The CPUs share the screen without a lock. That no ASSERT fails and that   *)
(* every row shows the trail of its own timer rests on two facts: the cells  *)
(* of two consoles never meet, and a CPU finds its console as it left it.    *)
(***************************************************************************)
EXTENDS Console, TLAPS

\* The size of a console.
Cols == CONSOLE_WIDTH \div 2
Height == CONSOLE_HEIGHT \div CONSOLE_MAX_CPU

----------------------------------------------------------------------------
(* Products and remainders. *)

\* A multiple of a number is at least as far from zero.
LEMMA Scale ==
  ASSUME NEW w \in Nat, NEW d \in Int
  PROVE  (d >= 1 => w * d >= w) /\ (d <= -1 => w * d <= -w)
  OBVIOUS

\* Quotient and remainder.
LEMMA DivMod ==
  ASSUME NEW n \in Nat, NEW w \in Nat, w > 0
  PROVE  n = w * (n \div w) + (n % w) /\ n % w \in 0..(w - 1) /\ n \div w \in Nat
<1>1. n % w = n - w * (n \div w)
  BY Z3
<1>2. n % w \in 0..(w - 1)
  OBVIOUS
<1>3. n \div w \in Nat
  OBVIOUS
<1>4. w * (n \div w) \in Int
  BY <1>3
<1>5. n = w * (n \div w) + (n % w)
  <2>1. n % w \in Int /\ n \in Int
    BY <1>2
  <2> DEFINE m == n % w
             x == w * (n \div w)
  <2>2. m \in Int /\ x \in Int /\ m = n - x
    BY <2>1, <1>1, <1>4
  <2> HIDE DEF m, x
  <2>3. n = x + m
    BY <2>1, <2>2
  <2> QED
    BY <2>3, Zenon DEF m, x
<1> QED
  BY <1>2, <1>3, <1>5, Zenon

\* There is only one.
LEMMA DivModUnique ==
  ASSUME NEW w \in Nat, w > 0, NEW p \in Int, NEW q \in Int,
         NEW r \in 0..(w - 1), NEW s \in 0..(w - 1), w * p + r = w * q + s
  PROVE  r = s /\ p = q
<1>1. w * (p - q) = s - r
  OBVIOUS
<1>2. p - q \in Int /\ ~(p - q >= 1) /\ ~(p - q <= -1)
  BY <1>1, Scale
<1>3. p = q
  BY <1>2
<1> QED
  BY <1>3

\* The remainder of a sum.
LEMMA ModPlus ==
  ASSUME NEW n \in Nat, NEW w \in Nat, w > 0, NEW k \in 0..(w - 1),
         NEW m, m = n + k
  PROVE  m % w = IF (n % w) + k < w THEN (n % w) + k ELSE (n % w) + (k - w)
<1> DEFINE q == n \div w
           r == n % w
           p == m \div w
           s == m % w
           z == r + (k - w)
<1>1. n = w * q + r /\ r \in 0..(w - 1) /\ q \in Nat
  BY DivMod
<1>2. m = w * p + s /\ s \in 0..(w - 1) /\ p \in Nat
  <2>1. m \in Nat
    OBVIOUS
  <2> QED
    BY <2>1, DivMod
<1> HIDE DEF q, r, p, s
<1>3. ASSUME r + k < w PROVE s = r + k
  <2>1. w * p + s = w * q + (r + k)
    BY <1>1, <1>2
  <2>2. r + k \in 0..(w - 1)
    BY <1>1, <1>3
  <2> QED
    BY <1>1, <1>2, <2>1, <2>2, DivModUnique
<1>4. ASSUME ~(r + k < w) PROVE s = z
  <2>1. w * (q + 1) = w * q + w
    BY <1>1
  <2>2. w * p + s = w * (q + 1) + z
    BY <1>1, <1>2, <2>1
  <2>3. z \in 0..(w - 1) /\ q + 1 \in Int
    BY <1>1, <1>4
  <2> DEFINE q1 == q + 1
  <2> HIDE DEF z, q1
  <2>4. w * p + s = w * q1 + z /\ z \in 0..(w - 1) /\ q1 \in Int /\ p \in Int
    BY <1>2, <2>2, <2>3 DEF q1
  <2>5. p - q1 \in Int /\ w * (p - q1) = z - s
    BY <1>2, <2>4
  <2>6. ~(p - q1 >= 1) /\ ~(p - q1 <= -1)
    BY <1>2, <2>4, <2>5, Scale
  <2>7. p = q1
    BY <2>4, <2>5, <2>6
  <2> QED
    BY <1>2, <2>4, <2>7
<1>5. s = IF r + k < w THEN r + k ELSE z
  BY <1>3, <1>4
<1> QED
  BY <1>5, Zenon DEF r, s

\* The remainder of what is less than the divisor.
LEMMA ModSmall ==
  ASSUME NEW w \in Nat, w > 0, NEW k \in 0..(w - 1)
  PROVE  k % w = k
<1>1. k = w * (k \div w) + (k % w) /\ k % w \in 0..(w - 1) /\ k \div w \in Nat
  BY DivMod
<1>2. w * (k \div w) + (k % w) = w * 0 + k
  BY <1>1
<1> QED
  BY <1>1, <1>2, DivModUnique

\* How update_screen moves on: the remainders of the columns of the next tick
\* from that of this one.
LEMMA NextColumns ==
  ASSUME NEW n \in Nat, NEW w \in Nat, w >= 2
  PROVE  /\ ((n % w) + w) % w = n % w
         /\ NextX(n % w, w) = (n + 1) % w
         /\ ((n % w) + w \div 2) % w = (n + w \div 2) % w
         /\ n % w \in 0..(w - 1)
         /\ (n + w \div 2) % w \in 0..(w - 1)
         /\ (n + w \div 2) % w # n % w
<1> DEFINE r == n % w
           one == 1
           half == w \div 2
           rest == w - 1
           after == n + 1
           other == n + half
           rafter == r + 1
           rother == r + half
           round == r + w
<1>0. w > 0 /\ n + one \in Nat
  OBVIOUS
<1>1. r \in 0..(w - 1) /\ r \in Nat
  BY <1>0, DivMod
<1>2. r % w = r
  BY <1>0, <1>1, ModSmall
<1>3. /\ half \in 1..(w - 1) /\ half \in 0..(w - 1) /\ one \in 0..(w - 1)
      /\ rest \in 0..(w - 1)
  OBVIOUS
<1>4. /\ after = n + one /\ other = n + half /\ rafter = r + one /\ rother = r + half
      /\ round = rafter + rest /\ rafter \in Nat /\ one = 1 /\ rest = w - 1
  BY <1>1
<1> HIDE DEF r, one, half, rest, after, other, rafter, rother, round
<1>5. after % w = IF r + one < w THEN r + one ELSE r + (one - w)
  BY <1>0, <1>3, <1>4, ModPlus DEF r
<1>6. rafter % w = IF r + one < w THEN r + one ELSE r + (one - w)
  BY <1>0, <1>1, <1>2, <1>3, <1>4, ModPlus
<1>7. other % w = IF r + half < w THEN r + half ELSE r + (half - w)
  BY <1>0, <1>3, <1>4, ModPlus DEF r
<1>8. rother % w = IF r + half < w THEN r + half ELSE r + (half - w)
  BY <1>0, <1>1, <1>2, <1>3, <1>4, ModPlus
<1>9. round % w = IF (rafter % w) + rest < w THEN (rafter % w) + rest
                  ELSE (rafter % w) + (rest - w)
  <2>1. round = rafter + rest /\ rafter \in Nat /\ rest \in 0..(w - 1)
    BY <1>3, <1>4
  <2> QED
    BY <1>0, <2>1, ModPlus
<1>10. round % w = r
  BY <1>1, <1>4, <1>6, <1>9
<1>11. after % w = rafter % w /\ other % w = rother % w
  BY <1>5, <1>6, <1>7, <1>8
<1>12. other % w \in 0..(w - 1) /\ other % w # r
  BY <1>1, <1>3, <1>7
<1> QED
  BY <1>1, <1>10, <1>11, <1>12, Zenon
     DEF NextX, r, half, after, other, rafter, rother, round

----------------------------------------------------------------------------
(* What a row must show after one more tick. *)

\* The ticks among the first n that put a character in column x or erase it.
Put(n, x) == {k \in 0..(n - 1) : k % Cols = x}
Erased(n, x) == {k \in 0..(n - 1) : (k + Cols \div 2) % Cols = x}

\* Shown in these terms.
LEMMA ShownIs ==
  ASSUME NEW c, NEW n, NEW x
  PROVE  Shown(c, n, x) =
           IF Put(n, x) \cup Erased(n, x) = {} THEN Drawn(c)
           ELSE IF \E k \in Put(n, x) : \A j \in Put(n, x) \cup Erased(n, x) : j <= k
                THEN Updated(c) ELSE Blank
<1> DEFINE put == Put(n, x)
           erased == Erased(n, x)
           last == \E k \in put : \A j \in put \cup erased : j <= k
<1>1. Shown(c, n, x) = CASE put \cup erased = {} -> Drawn(c)
                         [] last -> Updated(c)
                         [] OTHER -> Blank
  BY Zenon DEF Shown, Put, Erased, Cols
<1>2. put \cup erased = {} => ~last
  OBVIOUS
<1> HIDE DEF put, erased, last
<1>3. Shown(c, n, x) = IF put \cup erased = {} THEN Drawn(c)
                       ELSE IF last THEN Updated(c) ELSE Blank
  BY <1>1, <1>2
<1> QED
  BY <1>3, Zenon DEF put, erased, last

\* Before the first tick a row is as it was drawn.
LEMMA ShownFirst == ASSUME NEW c, NEW x PROVE Shown(c, 0, x) = Drawn(c)
<1>1. 0..(0 - 1) = {}
  OBVIOUS
<1>2. Put(0, x) \cup Erased(0, x) = {}
  BY <1>1 DEF Put, Erased
<1> QED
  BY <1>2, ShownIs

\* A tick changes two columns.
LEMMA ShownNext ==
  ASSUME NEW c, NEW n \in Nat, Cols \in Nat, Cols >= 2, NEW x
  PROVE  Shown(c, n + 1, x) = IF x = n % Cols THEN Updated(c)
                              ELSE IF x = (n + Cols \div 2) % Cols THEN Blank
                              ELSE Shown(c, n, x)
<1> DEFINE put == Put(n, x)
           erased == Erased(n, x)
           put1 == Put(n + 1, x)
           erased1 == Erased(n + 1, x)
<1>1. 0..((n + 1) - 1) = (0..(n - 1)) \cup {n}
  OBVIOUS
<1>2. put1 = put \cup (IF n % Cols = x THEN {n} ELSE {})
  BY <1>1 DEF Put
<1>3. erased1 = erased \cup (IF (n + Cols \div 2) % Cols = x THEN {n} ELSE {})
  BY <1>1 DEF Erased
<1>4. \A j \in put \cup erased : j \in Int /\ j < n
  BY DEF Put, Erased
<1> HIDE DEF put, erased, put1, erased1
<1>5. CASE x = n % Cols
  <2>1. n \in put1 /\ \A j \in put1 \cup erased1 : j <= n
    BY <1>2, <1>3, <1>4, <1>5
  <2> QED
    BY <1>5, <2>1, ShownIs DEF put1, erased1
<1>6. CASE x # n % Cols /\ x = (n + Cols \div 2) % Cols
  <2>1. put1 = put /\ n \in erased1
    BY <1>2, <1>3, <1>6
  <2>2. ~\E k \in put1 : \A j \in put1 \cup erased1 : j <= k
    BY <1>4, <2>1
  <2>3. put1 \cup erased1 # {}
    BY <2>1
  <2> QED
    BY <1>6, <2>2, <2>3, ShownIs DEF put1, erased1
<1>7. CASE x # n % Cols /\ x # (n + Cols \div 2) % Cols
  <2>1. put1 = put /\ erased1 = erased
    BY <1>2, <1>3, <1>7
  <2>2. Shown(c, n + 1, x) = Shown(c, n, x)
    BY <2>1, ShownIs DEF put, put1, erased, erased1
  <2> QED
    BY <1>7, <2>2
<1> QED
  BY <1>5, <1>6, <1>7

----------------------------------------------------------------------------
(* The cells of the consoles. *)

\* The cell of column x and row y of the console of CPU c or of its guest.
At(c, g, x, y) == <<(IF g THEN Cols ELSE 0) + x, Height * c + y>>

\* What the configuration means for the consoles.
LEMMA Sizes ==
  ASSUME Configured
  PROVE  /\ CONSOLE_WIDTH \in Nat /\ CONSOLE_WIDTH >= 2
         /\ CONSOLE_HEIGHT \in Nat /\ CONSOLE_HEIGHT >= 1
         /\ CONSOLE_MAX_CPU \in Nat /\ CONSOLE_MAX_CPU >= 1
         /\ NumCpus \in Nat
         /\ Cols \in Nat /\ Cols >= 1 /\ 2 * Cols <= CONSOLE_WIDTH
         /\ Height \in Nat /\ Height * CONSOLE_MAX_CPU <= CONSOLE_HEIGHT
         /\ Art => Cols >= 2 /\ Height >= 2 /\ NumCpus <= CONSOLE_MAX_CPU
<1>1. /\ CONSOLE_WIDTH \in Nat /\ CONSOLE_WIDTH >= 2
      /\ CONSOLE_HEIGHT \in Nat /\ CONSOLE_HEIGHT >= 1
      /\ CONSOLE_MAX_CPU \in Nat /\ CONSOLE_MAX_CPU >= 1 /\ NumCpus \in Nat
  BY DEF Configured, ConsoleConstants
<1>2. Cols \in Nat /\ Cols >= 1 /\ 2 * Cols <= CONSOLE_WIDTH
  BY <1>1 DEF Cols
<1>3. /\ CONSOLE_HEIGHT = CONSOLE_MAX_CPU * Height + (CONSOLE_HEIGHT % CONSOLE_MAX_CPU)
      /\ CONSOLE_HEIGHT % CONSOLE_MAX_CPU \in 0..(CONSOLE_MAX_CPU - 1) /\ Height \in Nat
  BY <1>1, DivMod DEF Height
<1>4. CONSOLE_MAX_CPU * Height = Height * CONSOLE_MAX_CPU
  BY <1>1, <1>3
<1>5. Height * CONSOLE_MAX_CPU <= CONSOLE_HEIGHT
  BY <1>1, <1>3, <1>4
<1> QED
  BY <1>1, <1>2, <1>3, <1>5 DEF Configured, Cols, Height

\* console_get_mmio
LEMMA CellIs ==
  ASSUME NEW c, NEW g, NEW x, NEW y
  PROVE  /\ Cell(console_get_vc(c, g), x, y) = At(c, g, x, y)
         /\ console_get_vc(c, g).width = Cols
         /\ console_get_vc(c, g).height = Height
  BY DEF Cell, console_get_vc, At, Cols, Height

\* Every cell of a console is on the screen.
LEMMA CellOnScreen ==
  ASSUME Configured, Art, NEW c \in Cpus, NEW g \in BOOLEAN,
         NEW x \in 0..(Cols - 1), NEW y \in 0..(Height - 1)
  PROVE  At(c, g, x, y) \in X \X Y
<1>1. (IF g THEN Cols ELSE 0) + x \in X
  BY Sizes DEF X
<1>2. Height * c + y \in Y
  <2> DEFINE m == CONSOLE_MAX_CPU
             d == m - c
  <2>1. c \in Nat /\ d \in Int /\ d >= 1 /\ m \in Nat /\ Height \in Nat
    BY Sizes DEF Cpus
  <2>2. Height * d >= Height
    BY <2>1, Scale
  <2>3. Height * d = Height * m - Height * c /\ Height * m \in Int /\ Height * c \in Nat
    BY <2>1
  <2>4. Height * m <= CONSOLE_HEIGHT /\ CONSOLE_HEIGHT \in Nat
    BY Sizes
  <2>5. y \in Int /\ 0 <= y /\ y < Height
    BY <2>1
  <2> DEFINE a == Height * c
             b == Height * m
             e == Height * d
  <2>6. a \in Nat /\ b \in Int /\ e = b - a /\ e >= Height /\ b <= CONSOLE_HEIGHT
    BY <2>2, <2>3, <2>4
  <2> HIDE DEF a, b, e, d, m
  <2>7. a + y \in 0..(CONSOLE_HEIGHT - 1)
    BY <2>1, <2>4, <2>5, <2>6
  <2> QED
    BY <2>7 DEF a, Y
<1> QED
  BY <1>1, <1>2 DEF At

\* Two cells of consoles are the same only if they are the same cell of the
\* same console.
LEMMA CellsApart ==
  ASSUME Configured, NEW c \in Cpus, NEW g \in BOOLEAN,
         NEW x \in 0..(Cols - 1), NEW y \in 0..(Height - 1),
         NEW d \in Cpus, NEW h \in BOOLEAN,
         NEW u \in 0..(Cols - 1), NEW v \in 0..(Height - 1),
         At(c, g, x, y) = At(d, h, u, v)
  PROVE  c = d /\ g = h /\ x = u /\ y = v
<1>1. (IF g THEN Cols ELSE 0) + x = (IF h THEN Cols ELSE 0) + u /\ Height * c + y = Height * d + v
  BY DEF At
<1>2. Cols \in Nat /\ Height \in Nat /\ c \in Int /\ d \in Int
  BY Sizes DEF Cpus
<1>3. g = h /\ x = u
  BY <1>1, <1>2
<1>4. Height > 0
  BY <1>2
<1> QED
  BY <1>1, <1>2, <1>3, <1>4, DivModUnique

----------------------------------------------------------------------------
(* What a console shows, as a predicate of the screen s, of the progress a of *)
(* its CPU and of the tick counts t of its CPU.                              *)

\* The console is drawn, and its timers may run.
Done(a, g) == (a.guest /\ ~g) \/ (a.guest = g /\ a.do = "run")

\* Its rows show the trails of its timers.
Shows(c, g, s, t) ==
  \A r \in Rows, x \in 0..(Cols - 1) : s[At(c, g, x, r)] = Shown(c, t[<<g, r>>], x)

\* Its columns up to n are cleared.
Cleared(c, g, s, n) ==
  \A y \in 0..(Height - 1), x \in 0..(Cols - 1) : x < n => s[At(c, g, x, y)] = Blank

\* Its columns up to n are drawn, the others still blank.
HalfDrawn(c, g, s, n) ==
  \A r \in Rows, x \in 0..(Cols - 1) :
    s[At(c, g, x, r)] = IF x < n THEN Drawn(c) ELSE Blank

\* No interrupt has touched it yet.
Untouched(g, t) == \A r \in Rows : t[<<g, r>>] = 0

\* All of this, by how far the CPU is.
Console(c, g, s, a, t) ==
  /\ Done(a, g) => Shows(c, g, s, t)
  /\ ~Done(a, g) => Untouched(g, t)
  /\ (a.guest = g /\ a.do = "clear") => Cleared(c, g, s, a.col)
  /\ (a.guest = g /\ a.do = "draw") => HalfDrawn(c, g, s, a.col)

\* The screens s and z agree outside the console.
Only(c, g, s, z) ==
  \A p \in X \X Y :
    z[p] = s[p] \/ \E x \in 0..(Cols - 1), y \in 0..(Height - 1) : p = At(c, g, x, y)

\* Both rows are part of every console.
LEMMA RowsInside == ASSUME Configured, Art PROVE Rows \subseteq 0..(Height - 1)
  BY Sizes DEF Rows

\* What changes one console alone leaves the others as they are.
LEMMA OthersKept ==
  ASSUME Configured, Art, NEW c \in Cpus, NEW g \in BOOLEAN, NEW s, NEW z,
         Only(c, g, s, z), NEW d \in Cpus, NEW h \in BOOLEAN, c # d \/ g # h,
         NEW x \in 0..(Cols - 1), NEW y \in 0..(Height - 1)
  PROVE  z[At(d, h, x, y)] = s[At(d, h, x, y)]
<1>1. At(d, h, x, y) \in X \X Y
  BY CellOnScreen
<1>2. ~\E u \in 0..(Cols - 1), v \in 0..(Height - 1) : At(d, h, x, y) = At(c, g, u, v)
  BY CellsApart
<1> QED
  BY <1>1, <1>2 DEF Only

\* So what is known of another console is still known.
LEMMA ConsoleKept ==
  ASSUME Configured, Art, NEW c \in Cpus, NEW g \in BOOLEAN, NEW s, NEW z,
         Only(c, g, s, z), NEW d \in Cpus, NEW h \in BOOLEAN, c # d \/ g # h,
         NEW a, NEW t, Console(d, h, s, a, t)
  PROVE  Console(d, h, z, a, t)
<1>1. \A x \in 0..(Cols - 1), y \in 0..(Height - 1) : z[At(d, h, x, y)] = s[At(d, h, x, y)]
  BY OthersKept
<1>2. \A x \in 0..(Cols - 1), r \in Rows : z[At(d, h, x, r)] = s[At(d, h, x, r)]
  BY <1>1, RowsInside
<1>3. Shows(d, h, s, t) => Shows(d, h, z, t)
  BY <1>2 DEF Shows
<1>4. Cleared(d, h, s, a.col) => Cleared(d, h, z, a.col)
  BY <1>1 DEF Cleared
<1>5. HalfDrawn(d, h, s, a.col) => HalfDrawn(d, h, z, a.col)
  BY <1>2 DEF HalfDrawn
<1> QED
  BY <1>3, <1>4, <1>5 DEF Console

----------------------------------------------------------------------------
(* The writes of the actions. *)

\* console_clear, one column.
LEMMA ClearWrites ==
  ASSUME Configured, Art, NEW c \in Cpus, NEW g \in BOOLEAN, NEW s,
         NEW n \in 0..(Cols - 1), NEW z,
         z = [p \in X \X Y |-> IF \E y \in 0..(Height - 1) : p = At(c, g, n, y)
                               THEN Blank ELSE s[p]],
         Cleared(c, g, s, n)
  PROVE  Only(c, g, s, z) /\ Cleared(c, g, z, n + 1)
<1>1. Only(c, g, s, z)
  BY DEF Only
<1>2. ASSUME NEW y \in 0..(Height - 1), NEW x \in 0..(Cols - 1), x < n + 1
      PROVE  z[At(c, g, x, y)] = Blank
  <2>1. At(c, g, x, y) \in X \X Y
    BY CellOnScreen
  <2>2. CASE x = n
    BY <2>1, <2>2
  <2>3. CASE x # n
    <3>1. s[At(c, g, x, y)] = Blank
      <4>1. x < n
        BY <1>2, <2>3, Sizes
      <4> QED
        BY <4>1 DEF Cleared
    <3> QED
      BY <2>1, <3>1
  <2> QED
    BY <2>2, <2>3
<1> QED
  BY <1>1, <1>2 DEF Cleared

\* The banner, one column.
LEMMA DrawWrites ==
  ASSUME Configured, Art, NEW c \in Cpus, NEW g \in BOOLEAN, NEW s,
         NEW n \in 0..(Cols - 1), NEW z,
         z = [p \in X \X Y |-> IF p \in {At(c, g, n, y) : y \in Rows}
                               THEN Drawn(c) ELSE s[p]],
         HalfDrawn(c, g, s, n)
  PROVE  /\ Only(c, g, s, z) /\ HalfDrawn(c, g, z, n + 1)
         /\ \A p \in {At(c, g, n, y) : y \in Rows} : s[p] = Blank
<1>1. Only(c, g, s, z)
  BY RowsInside DEF Only
<1>2. \A p \in {At(c, g, n, y) : y \in Rows} : s[p] = Blank
  BY Sizes DEF HalfDrawn
<1>3. ASSUME NEW r \in Rows, NEW x \in 0..(Cols - 1)
      PROVE  z[At(c, g, x, r)] = IF x < n + 1 THEN Drawn(c) ELSE Blank
  <2>1. At(c, g, x, r) \in X \X Y
    BY CellOnScreen, RowsInside
  <2>2. CASE x = n
    <3>1. x < n + 1
      BY <2>2, Sizes
    <3> QED
      BY <2>1, <2>2, <3>1
  <2>3. CASE x # n
    <3>1. ~(At(c, g, x, r) \in {At(c, g, n, y) : y \in Rows})
      BY <2>3, CellsApart, RowsInside
    <3>2. z[At(c, g, x, r)] = s[At(c, g, x, r)]
      BY <2>1, <3>1
    <3>3. x < n <=> x < n + 1
      BY <2>3, Sizes
    <3> QED
      BY <3>2, <3>3 DEF HalfDrawn
  <2> QED
    BY <2>2, <2>3
<1> QED
  BY <1>1, <1>2, <1>3 DEF HalfDrawn

\* The screen after tick n of a row.
Ticked(c, g, row, n, s) ==
  [s EXCEPT ![At(c, g, n % Cols, row)] = Updated(c),
            ![At(c, g, (n + Cols \div 2) % Cols, row)] = Blank]

\* The tick counts after it.
Counted(g, row, t, w) ==
  \A r \in Rows : w[<<g, r>>] = IF r = row THEN t[<<g, r>>] + 1 ELSE t[<<g, r>>]

\* update_screen
LEMMA TickWrites ==
  ASSUME Configured, Art, NEW c \in Cpus, NEW g \in BOOLEAN, NEW row \in Rows,
         NEW s \in [X \X Y -> Int], NEW t, t[<<g, row>>] \in Nat,
         Shows(c, g, s, t), NEW w, Counted(g, row, t, w)
  PROVE  /\ Only(c, g, s, Ticked(c, g, row, t[<<g, row>>], s))
         /\ Shows(c, g, Ticked(c, g, row, t[<<g, row>>], s), w)
<1> DEFINE z == Ticked(c, g, row, t[<<g, row>>], s)
           u == t[<<g, row>>] % Cols
           v == (t[<<g, row>>] + Cols \div 2) % Cols
<1>1. u \in 0..(Cols - 1) /\ v \in 0..(Cols - 1) /\ u # v
  <2> DEFINE n == t[<<g, row>>]
  <2>1. n \in Nat
    OBVIOUS
  <2> HIDE DEF n
  <2>2. n % Cols \in 0..(Cols - 1) /\ (n + Cols \div 2) % Cols \in 0..(Cols - 1)
        /\ (n + Cols \div 2) % Cols # n % Cols
    BY <2>1, NextColumns, Sizes
  <2> QED
    BY <2>2, Zenon DEF n
<1>2. At(c, g, u, row) \in X \X Y /\ At(c, g, v, row) \in X \X Y
  BY <1>1, CellOnScreen, RowsInside
<1>3. \A p \in X \X Y : z[p] = IF p = At(c, g, v, row) THEN Blank
                              ELSE IF p = At(c, g, u, row) THEN Updated(c) ELSE s[p]
  <2>1. z = [s EXCEPT ![At(c, g, u, row)] = Updated(c), ![At(c, g, v, row)] = Blank]
    BY Zenon DEF Ticked
  <2> HIDE DEF z, u, v
  <2> QED
    BY <1>2, <2>1
<1> HIDE DEF z, u, v
<1>4. Only(c, g, s, z)
  <2>1. row \in 0..(Height - 1)
    BY RowsInside
  <2> QED
    BY <1>1, <1>3, <2>1 DEF Only
<1>5. ASSUME NEW r \in Rows, NEW x \in 0..(Cols - 1)
      PROVE  z[At(c, g, x, r)] = Shown(c, w[<<g, r>>], x)
  <2>1. At(c, g, x, r) \in X \X Y
    BY CellOnScreen, RowsInside
  <2>2. At(c, g, x, r) = At(c, g, u, row) <=> x = u /\ r = row
    BY <1>1, CellsApart, RowsInside
  <2>3. At(c, g, x, r) = At(c, g, v, row) <=> x = v /\ r = row
    BY <1>1, CellsApart, RowsInside
  <2>4. z[At(c, g, x, r)] = IF x = v /\ r = row THEN Blank
                            ELSE IF x = u /\ r = row THEN Updated(c) ELSE s[At(c, g, x, r)]
    BY <1>3, <2>1, <2>2, <2>3
  <2>5. s[At(c, g, x, r)] = Shown(c, t[<<g, r>>], x)
    BY DEF Shows
  <2>6. CASE r = row
    <3> DEFINE n == t[<<g, row>>]
    <3>1. n \in Nat /\ w[<<g, r>>] = n + 1
      BY <2>6 DEF Counted
    <3> HIDE DEF n
    <3>2. Shown(c, n + 1, x) = IF x = n % Cols THEN Updated(c)
                               ELSE IF x = (n + Cols \div 2) % Cols THEN Blank
                               ELSE Shown(c, n, x)
      BY <3>1, ShownNext, Sizes
    <3>3. Shown(c, n + 1, x) = IF x = u THEN Updated(c) ELSE IF x = v THEN Blank ELSE Shown(c, n, x)
      BY <3>2, Zenon DEF n, u, v
    <3>4. s[At(c, g, x, r)] = Shown(c, n, x)
      BY <2>5, <2>6, Zenon DEF n
    <3> QED
      BY <1>1, <2>4, <2>6, <3>1, <3>3, <3>4
  <2>7. CASE r # row
    <3>1. w[<<g, r>>] = t[<<g, r>>]
      BY <2>7 DEF Counted
    <3> QED
      BY <2>4, <2>5, <2>7, <3>1
  <2> QED
    BY <2>6, <2>7
<1>6. Shows(c, g, z, w)
  BY <1>5 DEF Shows
<1> QED
  BY <1>4, <1>6 DEF z

----------------------------------------------------------------------------
(* What printf shows. *)

\* The printed row at the top of the screen, less one.
First(txt) == IF Len(txt) > CONSOLE_HEIGHT THEN Len(txt) - CONSOLE_HEIGHT ELSE 0

\* Column x of row k of the text.
Glyph(txt, k, x) == IF k <= Len(txt) /\ x < Len(txt[k]) THEN txt[k][x + 1] ELSE 0

\* A row that is known.
LEMMA GlyphOf ==
  ASSUME NEW a, NEW k, NEW x, NEW row, k <= Len(a), a[k] = row
  PROVE  Glyph(a, k, x) = IF x < Len(row) THEN row[x + 1] ELSE 0
  BY DEF Glyph

\* The screen s shows the text txt, and the position v is where it ends.
Showing(s, txt, v) ==
  /\ txt \in Seq(Seq(Int)) /\ Len(txt) >= 1
  /\ v.x = Len(txt[Len(txt)])
  /\ v.y = (IF Len(txt) > CONSOLE_HEIGHT THEN CONSOLE_HEIGHT ELSE Len(txt)) - 1
  /\ \A x \in X, y \in Y : s[<<x, y>>] = Glyph(txt, First(txt) + y + 1, x)

\* A character within a row.
LEMMA CharShown ==
  ASSUME Configured, NEW s \in [X \X Y -> Int], NEW txt, NEW v \in [x : X, y : Y],
         Showing(s, txt, v), NEW ch \in Int, NEW z, NEW new,
         z = [s EXCEPT ![<<v.x, v.y>>] = ch],
         new = [txt EXCEPT ![Len(txt)] = Append(txt[Len(txt)], ch)]
  PROVE  Showing(z, new, [x |-> v.x + 1, y |-> v.y])
<1> DEFINE n == Len(txt)
           row == txt[n]
<1>1. txt \in Seq(Seq(Int)) /\ n \in Nat /\ n >= 1 /\ v.x = Len(row)
  BY DEF Showing
<1>2. row \in Seq(Int)
  BY <1>1
<1>3. Append(row, ch) \in Seq(Int) /\ Len(Append(row, ch)) = Len(row) + 1
  BY <1>2
<1>4. new \in Seq(Seq(Int)) /\ Len(new) = n
  BY <1>1, <1>3
<1>5. new[n] = Append(row, ch) /\ \A k \in 1..n : k # n => new[k] = txt[k]
  BY <1>1
<1>6. v.x \in X /\ v.y \in Y /\ <<v.x, v.y>> \in X \X Y
  OBVIOUS
<1>7. First(new) = First(txt) /\ First(txt) \in Nat
  <2>1. CONSOLE_HEIGHT \in Nat
    BY Sizes
  <2> HIDE DEF n
  <2>2. First(txt) = IF n > CONSOLE_HEIGHT THEN n - CONSOLE_HEIGHT ELSE 0
    BY Zenon DEF First, n
  <2>3. First(new) = IF n > CONSOLE_HEIGHT THEN n - CONSOLE_HEIGHT ELSE 0
    BY <1>4, Zenon DEF First
  <2> QED
    BY <1>1, <2>1, <2>2, <2>3
<1>8. ASSUME NEW x \in X, NEW y \in Y
      PROVE  z[<<x, y>>] = Glyph(new, First(new) + y + 1, x)
  <2> DEFINE k == First(txt) + y + 1
  <2> DEFINE f == First(txt)
  <2>0. /\ y \in Nat /\ CONSOLE_HEIGHT \in Nat /\ y < CONSOLE_HEIGHT /\ f \in Nat
        /\ f = IF n > CONSOLE_HEIGHT THEN n - CONSOLE_HEIGHT ELSE 0
        /\ v.y = (IF n > CONSOLE_HEIGHT THEN CONSOLE_HEIGHT ELSE n) - 1
    <3>1. CONSOLE_HEIGHT \in Nat
      BY Sizes
    <3>2. y \in 0..(CONSOLE_HEIGHT - 1)
      BY DEF Y
    <3>3. v.y = (IF n > CONSOLE_HEIGHT THEN CONSOLE_HEIGHT ELSE n) - 1
      BY DEF Showing
    <3> QED
      BY <1>7, <3>1, <3>2, <3>3 DEF First
  <2> HIDE DEF f, n
  <2>1. k \in Nat /\ k >= 1
    BY <2>0 DEF f
  <2>2. y = v.y <=> k = n
    BY <1>1, <2>0 DEF f
  <2> USE DEF n
  <2>3. s[<<x, y>>] = Glyph(txt, k, x)
    BY DEF Showing
  <2>4. z[<<x, y>>] = IF x = v.x /\ y = v.y THEN ch ELSE s[<<x, y>>]
    BY <1>6
  <2>5. x \in Nat
    BY Sizes DEF X
  <2> HIDE DEF k
  <2>6. CASE k # n
    <3>1. Glyph(new, k, x) = Glyph(txt, k, x)
      <4> HIDE DEF n
      <4>1. k <= n => new[k] = txt[k]
        <5>1. k <= n => k \in 1..n
          BY <1>1, <2>1
        <5> QED
          BY <1>5, <2>6, <5>1
      <4>2. CASE k <= n
        <5> DEFINE old == txt[k]
        <5>1. new[k] = old /\ txt[k] = old
          BY <4>1, <4>2, Zenon
        <5>2. k <= Len(new) /\ k <= Len(txt)
          BY <1>4, <4>2, Zenon DEF n
        <5> HIDE DEF old
        <5> QED
          BY <5>1, <5>2, GlyphOf
      <4>3. CASE ~(k <= n)
        <5>1. ~(k <= Len(new)) /\ ~(k <= Len(txt))
          BY <1>4, <4>3, Zenon DEF n
        <5> QED
          BY <5>1, Zenon DEF Glyph
      <4> QED
        BY <4>2, <4>3
    <3> QED
      BY <1>7, <2>2, <2>3, <2>4, <2>6, <3>1 DEF k
  <2>7. CASE k = n
    <3>1. Glyph(new, k, x) = IF x < Len(row) + 1 THEN Append(row, ch)[x + 1] ELSE 0
      <4> DEFINE longer == Append(row, ch)
      <4>1. Len(longer) = Len(row) + 1
        BY <1>3
      <4>2. new[k] = longer
        BY <1>5, <2>7, Zenon
      <4> HIDE DEF n, row, longer
      <4>3. k <= Len(new)
        BY <1>1, <1>4, <2>7
      <4>4. Glyph(new, k, x) = IF x < Len(longer) THEN longer[x + 1] ELSE 0
        BY <4>2, <4>3, GlyphOf
      <4> QED
        BY <4>1, <4>4, Zenon DEF longer
    <3>2. Glyph(txt, k, x) = IF x < Len(row) THEN row[x + 1] ELSE 0
      BY <1>1, <2>7 DEF Glyph
    <3>3. x < Len(row) + 1 => Append(row, ch)[x + 1] = IF x = Len(row) THEN ch ELSE row[x + 1]
      BY <1>2, <2>5
    <3>4. Glyph(new, k, x) = IF x = Len(row) THEN ch ELSE Glyph(txt, k, x)
      <4>1. Len(row) \in Nat
        BY <1>2
      <4> QED
        BY <2>5, <3>1, <3>2, <3>3, <4>1
    <3> QED
      BY <1>1, <1>7, <2>2, <2>3, <2>4, <2>7, <3>4 DEF k
  <2> QED
    BY <2>6, <2>7
<1>9. v.y = (IF n > CONSOLE_HEIGHT THEN CONSOLE_HEIGHT ELSE n) - 1
  BY DEF Showing
<1> DEFINE w == [x |-> v.x + 1, y |-> v.y]
<1>10. w.x = Len(new[Len(new)]) /\ w.y = (IF Len(new) > CONSOLE_HEIGHT THEN CONSOLE_HEIGHT ELSE Len(new)) - 1
  BY <1>1, <1>3, <1>4, <1>5, <1>9
<1> QED
  BY <1>1, <1>4, <1>8, <1>10 DEF Showing

\* vgamem_newln
LEMMA NewLineShown ==
  ASSUME Configured, NEW s, NEW txt, NEW v, Showing(s, txt, v), NEW new,
         new = Append(txt, <<>>), NEW z, NEW w,
         IF v.y + 1 >= CONSOLE_HEIGHT
         THEN /\ w = [x |-> 0, y |-> CONSOLE_HEIGHT - 1]
              /\ z = [p \in X \X Y |-> IF p[2] = CONSOLE_HEIGHT - 1 THEN 0
                                       ELSE s[<<p[1], p[2] + 1>>]]
         ELSE w = [x |-> 0, y |-> v.y + 1] /\ z = s
  PROVE  Showing(z, new, w)
<1> DEFINE n == Len(txt)
           H == CONSOLE_HEIGHT
<1>1. txt \in Seq(Seq(Int)) /\ n \in Nat /\ n >= 1 /\ H \in Nat /\ H >= 1
  BY Sizes DEF Showing
<1>2. new \in Seq(Seq(Int)) /\ Len(new) = n + 1 /\ new[n + 1] = <<>>
  BY <1>1
<1>3. \A k \in 1..n : new[k] = txt[k]
  BY <1>1
<1>4. v.y = (IF n > H THEN H ELSE n) - 1
  BY DEF Showing
<1>5. v.y + 1 >= H <=> n >= H
  BY <1>1, <1>4
<1>6. w.x = Len(new[Len(new)]) /\ w.y = (IF Len(new) > H THEN H ELSE Len(new)) - 1
  <2>1. w.x = 0 /\ w.y = IF n >= H THEN H - 1 ELSE v.y + 1
    BY <1>5
  <2>2. Len(new[Len(new)]) = 0
    BY <1>2
  <2> QED
    BY <1>1, <1>2, <1>4, <2>1, <2>2
<1>7. ASSUME NEW k \in Nat, k >= 1, NEW x \in X
      PROVE  Glyph(new, k, x) = Glyph(txt, k, x)
  <2>1. x \in Nat
    BY Sizes DEF X
  <2>2. CASE k <= n
    BY <1>1, <1>2, <1>3, <1>7, <2>2 DEF Glyph
  <2>3. CASE k = n + 1
    <3>1. ~(x < Len(<<>>))
      BY <2>1
    <3>2. Glyph(new, k, x) = 0
      BY <1>2, <2>3, <3>1 DEF Glyph
    <3>3. Glyph(txt, k, x) = 0
      BY <1>1, <2>3 DEF Glyph
    <3> QED
      BY <3>2, <3>3
  <2>4. CASE k > n + 1
    <3>1. ~(k <= n) /\ ~(k <= n + 1)
      BY <1>1, <1>7, <2>4
    <3> QED
      BY <1>2, <3>1 DEF Glyph
  <2> QED
    BY <1>1, <2>2, <2>3, <2>4
<1>8. ASSUME NEW x \in X, NEW y \in Y
      PROVE  z[<<x, y>>] = Glyph(new, First(new) + y + 1, x)
  <2>1. y \in Nat /\ y <= H - 1 /\ x \in Nat
    BY Sizes DEF X, Y
  <2>2. \A i \in Y : s[<<x, i>>] = Glyph(txt, First(txt) + i + 1, x)
    BY DEF Showing
  <2>3. CASE n < H
    <3>1. z = s /\ First(new) = 0 /\ First(txt) = 0
      BY <1>1, <1>2, <1>5, <2>3 DEF First
    <3> DEFINE k == First(new) + y + 1
    <3>2. k = First(txt) + y + 1 /\ k \in Nat /\ k >= 1
      BY <2>1, <3>1
    <3> HIDE DEF k
    <3>3. Glyph(new, k, x) = Glyph(txt, k, x)
      BY <1>7, <3>2
    <3> QED
      BY <2>2, <3>1, <3>2, <3>3 DEF k
  <2>4. CASE n >= H
    <3>1. First(txt) = n - H /\ First(new) = n + 1 - H
      BY <1>1, <1>2, <2>4 DEF First
    <3>2. z = [p \in X \X Y |-> IF p[2] = H - 1 THEN 0 ELSE s[<<p[1], p[2] + 1>>]]
      BY <1>5, <2>4
    <3>3. z[<<x, y>>] = IF y = H - 1 THEN 0 ELSE s[<<x, y + 1>>]
      BY <3>2
    <3>4. CASE y = H - 1
      <4>1. First(new) + y + 1 = n + 1
        BY <1>1, <2>1, <3>1, <3>4
      <4>2. Glyph(new, n + 1, x) = 0
        <5>1. ~(x < Len(<<>>))
          BY <2>1
        <5> QED
          BY <1>2, <5>1 DEF Glyph
      <4> QED
        BY <3>3, <3>4, <4>1, <4>2
    <3>5. CASE y # H - 1
      <4> DEFINE k == First(new) + y + 1
                 i == y + 1
      <4>1. i \in Y /\ k = First(txt) + i + 1 /\ k \in Nat /\ k >= 1
        <5> HIDE DEF n
        <5>1. i \in Y
          BY <1>1, <2>1, <3>5 DEF Y
        <5>2. k = First(txt) + i + 1 /\ k \in Nat /\ k >= 1
          BY <1>1, <2>1, <2>4, <3>1
        <5> QED
          BY <5>1, <5>2
      <4>2. z[<<x, y>>] = s[<<x, i>>]
        BY <3>3, <3>5
      <4> HIDE DEF k, i
      <4>3. Glyph(new, k, x) = Glyph(txt, k, x)
        BY <1>7, <4>1
      <4> QED
        BY <2>2, <4>1, <4>2, <4>3 DEF k
    <3> QED
      BY <3>4, <3>5
  <2> QED
    BY <1>1, <2>3, <2>4
<1> QED
  BY <1>1, <1>2, <1>6, <1>8 DEF Showing

----------------------------------------------------------------------------
(* The inductive invariant. *)

Progress == [do : {"off", "clear", "draw", "run"}, guest : BOOLEAN, col : Int]

\* The types of the variables; no ASSERT has failed.
Types ==
  /\ screen \in [X \X Y -> Int]
  /\ at \in [Cpus -> Progress]
  /\ shv_x \in [Cpus -> [BOOLEAN \X Rows -> Int]]
  /\ ticks \in [Cpus -> [BOOLEAN \X Rows -> Nat]]
  /\ vid \in [x : X, y : Y]
  /\ assert_failed = FALSE

\* Where a CPU is, and the columns that its timers come to next.
Located(c) ==
  /\ at[c].col \in 0..(Cols - 1)
  /\ at[c].do = "off" <=> ~Art
  /\ at[c].guest => Art
  /\ \A g \in BOOLEAN, r \in Rows : shv_x[c][<<g, r>>] = ticks[c][<<g, r>>] % Cols

\* The consoles of a CPU and of its guest.
Drawing(c) ==
  Art => \A g \in BOOLEAN : Console(c, g, screen, at[c], ticks[c])

Inv ==
  /\ Types
  /\ \A c \in Cpus : Located(c) /\ Drawing(c)
  /\ DEBUG_VGA => Showing(screen, text, vid)

\* The invariant holds before the first step.
LEMMA InitInv == ASSUME Configured, ConsoleInit PROVE Inv
<1>1. Types
  <2>1. 0 \in X /\ 0 \in Y
    BY Sizes DEF X, Y
  <2>2. at \in [Cpus -> Progress]
    <3>1. (IF Art THEN "clear" ELSE "off") \in {"off", "clear", "draw", "run"}
      OBVIOUS
    <3> QED
      BY <3>1 DEF ConsoleInit, Progress
  <2>3. vid \in [x : X, y : Y]
    BY <2>1 DEF ConsoleInit
  <2>4. screen \in [X \X Y -> Int] /\ assert_failed = FALSE
    BY DEF ConsoleInit
  <2>5. shv_x \in [Cpus -> [BOOLEAN \X Rows -> Int]] /\ ticks \in [Cpus -> [BOOLEAN \X Rows -> Nat]]
    BY DEF ConsoleInit
  <2> QED
    BY <2>2, <2>3, <2>4, <2>5 DEF Types
<1>2. ASSUME NEW c \in Cpus PROVE Located(c) /\ Drawing(c)
  <2>1. at[c] = [do |-> IF Art THEN "clear" ELSE "off", guest |-> FALSE, col |-> 0]
    BY DEF ConsoleInit
  <2>2. at[c].do = (IF Art THEN "clear" ELSE "off") /\ at[c].guest = FALSE /\ at[c].col = 0
    BY <2>1
  <2>3. \A g \in BOOLEAN, r \in Rows : shv_x[c][<<g, r>>] = 0 /\ ticks[c][<<g, r>>] = 0
    BY DEF ConsoleInit
  <2> DEFINE zero == 0
  <2>4. zero \in 0..(Cols - 1) /\ Cols \in Nat /\ Cols > 0
    BY Sizes
  <2> HIDE DEF zero
  <2>5. zero % Cols = zero
    BY <2>4, ModSmall
  <2>6. 0 % Cols = 0
    BY <2>5, Zenon DEF zero
  <2>7. Located(c)
    <3>1. at[c].col \in 0..(Cols - 1)
      BY <2>2, <2>4 DEF zero
    <3>2. at[c].do = "off" <=> ~Art
      BY <2>2
    <3>3. \A g \in BOOLEAN, r \in Rows : shv_x[c][<<g, r>>] = ticks[c][<<g, r>>] % Cols
      BY <2>3, <2>6
    <3> QED
      BY <2>2, <3>1, <3>2, <3>3 DEF Located
  <2>8. ASSUME Art, NEW g \in BOOLEAN PROVE Console(c, g, screen, at[c], ticks[c])
    <3>1. ~Done(at[c], g)
      BY <2>2, <2>8 DEF Done
    <3>2. Untouched(g, ticks[c])
      BY <2>3 DEF Untouched
    <3>3. Cleared(c, g, screen, 0)
      BY DEF Cleared
    <3> QED
      BY <2>2, <2>8, <3>1, <3>2, <3>3 DEF Console
  <2> QED
    BY <2>7, <2>8 DEF Drawing
<1>3. Showing(screen, text, vid)
  <2> DEFINE row == <<>>
  <2>1. text = <<row>> /\ row \in Seq(Int) /\ Len(row) = 0
    BY DEF ConsoleInit
  <2>2. text \in Seq(Seq(Int)) /\ Len(text) = 1 /\ text[1] = row
    BY <2>1
  <2>3. vid.x = 0 /\ vid.y = 0
    BY DEF ConsoleInit
  <2>4. ASSUME NEW x \in X, NEW y \in Y
        PROVE  screen[<<x, y>>] = Glyph(text, First(text) + y + 1, x)
    <3>1. screen[<<x, y>>] = 0
      BY DEF ConsoleInit
    <3>2. x \in Nat
      BY Sizes DEF X
    <3>3. y \in Nat
      BY Sizes DEF Y
    <3>4. First(text) = 0
      BY <2>2, Sizes DEF First
    <3> DEFINE k == First(text) + y + 1
    <3>5. k \in Nat /\ (k <= 1 => k = 1)
      BY <3>3, <3>4
    <3> HIDE DEF k
    <3>6. Glyph(text, k, x) = 0
      BY <2>1, <2>2, <3>2, <3>5 DEF Glyph
    <3> QED
      BY <3>1, <3>6 DEF k
  <2>5. CONSOLE_HEIGHT \in Nat /\ CONSOLE_HEIGHT >= 1
    BY Sizes
  <2>6. vid.x = Len(text[Len(text)]) /\ vid.y = (IF Len(text) > CONSOLE_HEIGHT THEN CONSOLE_HEIGHT ELSE Len(text)) - 1
    BY <2>1, <2>2, <2>3, <2>5
  <2> QED
    BY <2>2, <2>4, <2>6 DEF Showing
<1> QED
  BY <1>1, <1>2, <1>3 DEF Inv

\* The invariant says what the screen shows.
LEMMA InvShows == ASSUME Configured, Inv PROVE ScreenShows
<1>1. ConsoleTypeOK
  <2>1. DOMAIN screen = X \X Y
    BY DEF Inv, Types
  <2>2. ASSUME NEW c \in Cpus, NEW g \in BOOLEAN, NEW r \in Rows
        PROVE  shv_x[c][<<g, r>>] \in 0..(CONSOLE_WIDTH \div 2 - 1)
    <3> DEFINE n == ticks[c][<<g, r>>]
    <3>1. n \in Nat
      <4>1. <<g, r>> \in BOOLEAN \X Rows
        OBVIOUS
      <4> QED
        BY <4>1 DEF Inv, Types
    <3>2. shv_x[c][<<g, r>>] = n % Cols
      BY DEF Inv, Located
    <3> HIDE DEF n
    <3>3. n % Cols \in 0..(Cols - 1)
      BY <3>1, DivMod, Sizes
    <3> QED
      BY <3>2, <3>3, Zenon DEF Cols
  <2>3. vid.x \in X /\ vid.y \in Y
    BY DEF Inv, Types
  <2> QED
    BY <2>1, <2>2, <2>3 DEF ConsoleTypeOK
<1>2. CellsBlank
  BY DEF Inv, Types, CellsBlank
<1>3. RowsShown
  <2>1. SUFFICES ASSUME NEW c \in Cpus, NEW g \in BOOLEAN, Done(at[c], g),
                        NEW r \in Rows, NEW x \in 0..(Cols - 1)
                 PROVE  screen[Cell(console_get_vc(c, g), x, r)] = Shown(c, ticks[c][<<g, r>>], x)
    BY Zenon DEF RowsShown, Done, Cols
  <2>2. Located(c) /\ Drawing(c)
    BY DEF Inv
  <2>3. Art
    BY <2>1, <2>2 DEF Located, Done
  <2>4. Shows(c, g, screen, ticks[c])
    BY <2>1, <2>2, <2>3 DEF Drawing, Console
  <2> QED
    BY <2>4, CellIs DEF Shows
<1>4. TextShown
  <2>1. SUFFICES ASSUME DEBUG_VGA, NEW p \in X \X Y
                 PROVE  screen[p] = LET k == First(text) + p[2] + 1
                                    IN IF k <= Len(text) /\ p[1] < Len(text[k])
                                       THEN text[k][p[1] + 1] ELSE 0
    BY Zenon DEF TextShown, First
  <2>2. PICK x \in X, y \in Y : p = <<x, y>>
    OBVIOUS
  <2>3. p[1] = x /\ p[2] = y
    BY <2>2
  <2>4. screen[<<x, y>>] = Glyph(text, First(text) + y + 1, x)
    BY <2>1 DEF Inv, Showing
  <2> QED
    BY <2>2, <2>3, <2>4, Zenon DEF Glyph
<1> QED
  BY <1>1, <1>2, <1>3, <1>4 DEF ScreenShows

----------------------------------------------------------------------------
(* The steps of a CPU. *)

\* What the type of at[c] gives.
LEMMA AtType ==
  ASSUME Types, NEW c \in Cpus
  PROVE  /\ at[c] \in Progress /\ at[c].do \in {"off", "clear", "draw", "run"}
         /\ at[c].guest \in BOOLEAN /\ at[c].col \in Int
  BY DEF Types, Progress

\* A step of one CPU, within one of its consoles, leaves the others alone.
LEMMA OtherCpus ==
  ASSUME Configured, Inv, Art, NEW c \in Cpus, NEW g \in BOOLEAN,
         Only(c, g, screen, screen'), NEW d \in Cpus, d # c,
         at'[d] = at[d], ticks'[d] = ticks[d], shv_x'[d] = shv_x[d]
  PROVE  Located(d)' /\ Drawing(d)'
<1>1. Located(d) /\ Drawing(d)
  BY DEF Inv
<1>2. Located(d)'
  BY <1>1 DEF Located
<1>3. ASSUME NEW h \in BOOLEAN PROVE Console(d, h, screen', at'[d], ticks'[d])
  <2>1. Console(d, h, screen, at[d], ticks[d])
    BY <1>1 DEF Drawing
  <2>2. Console(d, h, screen', at[d], ticks[d])
    BY <2>1, ConsoleKept
  <2> QED
    BY <2>2
<1> QED
  BY <1>2, <1>3 DEF Drawing

\* A console that its CPU is not in depends only on its own ticks.
LEMMA ConsoleElsewhere ==
  ASSUME NEW c, NEW h \in BOOLEAN, NEW s, NEW a, NEW t, NEW a2, NEW t2,
         Console(c, h, s, a, t), a2.guest = a.guest, a2 = a \/ a.guest # h,
         \A r \in Rows : t2[<<h, r>>] = t[<<h, r>>]
  PROVE  Console(c, h, s, a2, t2)
<1>1. Done(a2, h) <=> Done(a, h)
  BY DEF Done
<1>2. Shows(c, h, s, t) => Shows(c, h, s, t2)
  BY DEF Shows
<1>3. Untouched(h, t) => Untouched(h, t2)
  BY DEF Untouched
<1> QED
  BY <1>1, <1>2, <1>3 DEF Console

\* The next column, or the next phase.
LEMMA AdvanceIs ==
  ASSUME Configured, Types, NEW c \in Cpus, Located(c),
         NEW next \in {"off", "clear", "draw", "run"}, Advance(c, next)
  PROVE  /\ at' \in [Cpus -> Progress]
         /\ at'[c].guest = at[c].guest
         /\ at'[c].do = IF at[c].col + 1 < Cols THEN at[c].do ELSE next
         /\ at'[c].col = IF at[c].col + 1 < Cols THEN at[c].col + 1 ELSE 0
         /\ at'[c].col \in 0..(Cols - 1)
         /\ \A d \in Cpus : d # c => at'[d] = at[d]
<1> DEFINE a == at[c]
           b == IF a.col + 1 < Cols
                THEN [do |-> a.do, guest |-> a.guest, col |-> a.col + 1]
                ELSE [do |-> next, guest |-> a.guest, col |-> 0]
<1>2. at' = [at EXCEPT ![c] = b]
  <2>1. Vc(c).width = Cols
    BY CellIs DEF Vc
  <2> QED
    BY <2>1 DEF Advance
<1>3. a.col \in 0..(Cols - 1) /\ Cols \in Nat /\ Cols >= 1
  BY Sizes DEF Located
<1>4. a.do \in {"off", "clear", "draw", "run"} /\ a.guest \in BOOLEAN
  BY AtType
<1>5. b \in Progress
  BY <1>3, <1>4 DEF Progress
<1>6. /\ b.guest = a.guest
      /\ b.do = IF a.col + 1 < Cols THEN a.do ELSE next
      /\ b.col = IF a.col + 1 < Cols THEN a.col + 1 ELSE 0
  OBVIOUS
<1>7. b.col \in 0..(Cols - 1)
  BY <1>3, <1>6
<1> HIDE DEF b
<1>8. at' \in [Cpus -> Progress] /\ at'[c] = b /\ \A d \in Cpus : d # c => at'[d] = at[d]
  BY <1>2, <1>5 DEF Types
<1> QED
  BY <1>6, <1>7, <1>8

\* console_clear
LEMMA ClearStep ==
  ASSUME Configured, Inv, NEW c \in Cpus, ClearColumn(c)
  PROVE  Inv'
<1> DEFINE g == at[c].guest
           n == at[c].col
<1>1. Types /\ Located(c) /\ Drawing(c)
  BY DEF Inv
<1>2. Art /\ at[c].do = "clear"
  BY <1>1 DEF ClearColumn, Located
<1>3. g \in BOOLEAN /\ n \in 0..(Cols - 1)
  BY <1>1, AtType DEF Located
<1>4. NumValid(c)
  BY <1>2, Sizes DEF NumValid, Cpus
<1>5. /\ screen' = [p \in X \X Y |-> IF \E y \in 0..(Height - 1) : p = At(c, g, n, y)
                                     THEN Blank ELSE screen[p]]
      /\ assert_failed' = assert_failed
  <2>1. /\ screen' = [p \in X \X Y |->
                        IF \E y \in 0..(Vc(c).height - 1) : p = Cell(Vc(c), n, y)
                        THEN Blank ELSE screen[p]]
        /\ assert_failed' = assert_failed
    BY <1>4, Zenon DEF ClearColumn
  <2>2. Vc(c).height = Height /\ \A y : Cell(Vc(c), n, y) = At(c, g, n, y)
    BY CellIs DEF Vc
  <2> HIDE DEF n, g
  <2> QED
    BY <2>1, <2>2
<1>6. /\ at' \in [Cpus -> Progress]
      /\ at'[c].guest = g
      /\ at'[c].do = IF n + 1 < Cols THEN "clear" ELSE "draw"
      /\ at'[c].col = IF n + 1 < Cols THEN n + 1 ELSE 0
      /\ at'[c].col \in 0..(Cols - 1)
      /\ \A d \in Cpus : d # c => at'[d] = at[d]
  <2>1. Advance(c, "draw")
    BY DEF ClearColumn
  <2> QED
    BY <1>1, <1>2, <2>1, AdvanceIs
<1>7. shv_x' = shv_x /\ ticks' = ticks /\ vid' = vid /\ text' = text
  BY DEF ClearColumn
<1>8. Console(c, g, screen, at[c], ticks[c])
  BY <1>1, <1>2, <1>3 DEF Drawing
<1>9. Only(c, g, screen, screen') /\ Cleared(c, g, screen', n + 1)
  <2>1. Cleared(c, g, screen, n)
    BY <1>2, <1>8 DEF Console
  <2> HIDE DEF g, n
  <2> QED
    BY <1>2, <1>3, <1>5, <2>1, ClearWrites
<1>10. Types'
  <2>1. screen' \in [X \X Y -> Int]
    BY <1>1, <1>5 DEF Types, Blank
  <2> QED
    BY <1>1, <1>5, <1>6, <1>7, <2>1 DEF Types
<1>11. Console(c, g, screen', at'[c], ticks'[c])
  <2>1. ~Done(at[c], g) /\ ~Done(at'[c], g)
    BY <1>2, <1>3, <1>6 DEF Done
  <2>2. Untouched(g, ticks'[c])
    BY <1>7, <1>8, <2>1 DEF Console
  <2>3. n + 1 < Cols => Cleared(c, g, screen', at'[c].col)
    BY <1>6, <1>9
  <2>4. ~(n + 1 < Cols) => HalfDrawn(c, g, screen', at'[c].col)
    <3>1. ASSUME ~(n + 1 < Cols), NEW r \in Rows, NEW x \in 0..(Cols - 1)
          PROVE  screen'[At(c, g, x, r)] = Blank /\ ~(x < 0)
      <4>1. x < n + 1 /\ ~(x < 0)
        BY <1>3, <3>1, Sizes
      <4>2. r \in 0..(Height - 1)
        BY <1>2, RowsInside
      <4> HIDE DEF g, n
      <4> QED
        BY <1>9, <4>1, <4>2 DEF Cleared
    <3> QED
      BY <1>6, <3>1 DEF HalfDrawn
  <2> QED
    BY <1>6, <2>1, <2>2, <2>3, <2>4 DEF Console
<1>12. ASSUME NEW h \in BOOLEAN, h # g PROVE Console(c, h, screen', at'[c], ticks'[c])
  <2>1. Console(c, h, screen, at[c], ticks[c])
    BY <1>1, <1>2 DEF Drawing
  <2>2. Console(c, h, screen', at[c], ticks[c])
    BY <1>2, <1>3, <1>9, <1>12, <2>1, ConsoleKept
  <2> QED
    BY <1>6, <1>7, <1>12, <2>2, ConsoleElsewhere
<1>13. Located(c)' /\ Drawing(c)'
  <2>1. Drawing(c)'
    BY <1>11, <1>12 DEF Drawing
  <2>2. at'[c].do # "off"
    BY <1>6
  <2> QED
    BY <1>1, <1>2, <1>6, <1>7, <2>1, <2>2 DEF Located
<1>14. ASSUME NEW d \in Cpus, d # c PROVE Located(d)' /\ Drawing(d)'
  BY <1>2, <1>3, <1>6, <1>7, <1>9, <1>14, OtherCpus
<1>15. ~DEBUG_VGA
  BY <1>2 DEF Configured
<1> QED
  BY <1>10, <1>13, <1>14, <1>15 DEF Inv

\* The banner: the cells that the ASSERT reads are still blank.
LEMMA DrawStep ==
  ASSUME Configured, Inv, NEW c \in Cpus, DrawColumn(c)
  PROVE  Inv'
<1> DEFINE g == at[c].guest
           n == at[c].col
           cells == {At(c, g, n, y) : y \in Rows}
<1>1. Types /\ Located(c) /\ Drawing(c)
  BY DEF Inv
<1>2. Art /\ at[c].do = "draw"
  BY <1>1 DEF DrawColumn, Located
<1>3. g \in BOOLEAN /\ n \in 0..(Cols - 1)
  BY <1>1, AtType DEF Located
<1>4. /\ screen' = [p \in X \X Y |-> IF p \in cells THEN Drawn(c) ELSE screen[p]]
      /\ assert_failed' = (\E p \in cells : screen[p] # Blank)
  <2>1. \A y : Cell(Vc(c), n, y) = At(c, g, n, y)
    BY CellIs DEF Vc
  <2>2. {Cell(Vc(c), n, y) : y \in Rows} = cells
    BY <2>1
  <2> HIDE DEF cells
  <2> QED
    BY <2>2, Zenon DEF DrawColumn
<1>5. /\ at' \in [Cpus -> Progress]
      /\ at'[c].guest = g
      /\ at'[c].do = IF n + 1 < Cols THEN "draw" ELSE "run"
      /\ at'[c].col = IF n + 1 < Cols THEN n + 1 ELSE 0
      /\ at'[c].col \in 0..(Cols - 1)
      /\ \A d \in Cpus : d # c => at'[d] = at[d]
  <2>1. Advance(c, "run")
    BY DEF DrawColumn
  <2> QED
    BY <1>1, <1>2, <2>1, AdvanceIs
<1>6. shv_x' = shv_x /\ ticks' = ticks /\ vid' = vid /\ text' = text
  BY DEF DrawColumn
<1>7. Console(c, g, screen, at[c], ticks[c])
  BY <1>1, <1>2, <1>3 DEF Drawing
<1>8. /\ Only(c, g, screen, screen') /\ HalfDrawn(c, g, screen', n + 1)
      /\ \A p \in cells : screen[p] = Blank
  <2>1. HalfDrawn(c, g, screen, n)
    BY <1>2, <1>7 DEF Console
  <2> HIDE DEF g, n
  <2> QED
    BY <1>2, <1>3, <1>4, <2>1, DrawWrites
<1>9. assert_failed' = FALSE
  BY <1>4, <1>8, Zenon
<1>10. Types'
  <2>1. Drawn(c) \in Int
    BY Sizes DEF Drawn, Cpus
  <2>2. screen' \in [X \X Y -> Int]
    <3> HIDE DEF cells
    <3> QED
      BY <1>1, <1>4, <2>1 DEF Types
  <2> QED
    BY <1>1, <1>5, <1>6, <1>9, <2>2 DEF Types
<1>11. Untouched(g, ticks[c])
  <2>1. ~Done(at[c], g)
    BY <1>2, <1>3 DEF Done
  <2> QED
    BY <1>7, <2>1 DEF Console
<1>12. Console(c, g, screen', at'[c], ticks'[c])
  <2>1. CASE n + 1 < Cols
    <3>1. ~Done(at'[c], g)
      BY <1>3, <1>5, <2>1 DEF Done
    <3> QED
      BY <1>5, <1>6, <1>8, <1>11, <2>1, <3>1 DEF Console
  <2>2. CASE ~(n + 1 < Cols)
    <3>1. ASSUME NEW r \in Rows, NEW x \in 0..(Cols - 1)
          PROVE  screen'[At(c, g, x, r)] = Shown(c, ticks[c][<<g, r>>], x)
      <4>1. x < n + 1
        BY <1>3, <2>2, Sizes
      <4>2. screen'[At(c, g, x, r)] = Drawn(c)
        BY <1>8, <4>1 DEF HalfDrawn
      <4>3. ticks[c][<<g, r>>] = 0
        BY <1>11 DEF Untouched
      <4> QED
        BY <4>2, <4>3, ShownFirst
    <3>2. Shows(c, g, screen', ticks'[c])
      BY <1>6, <3>1 DEF Shows
    <3>3. Done(at'[c], g) /\ at'[c].do = "run"
      BY <1>5, <2>2 DEF Done
    <3> QED
      BY <3>2, <3>3 DEF Console
  <2> QED
    BY <2>1, <2>2
<1>13. ASSUME NEW h \in BOOLEAN, h # g PROVE Console(c, h, screen', at'[c], ticks'[c])
  <2>1. Console(c, h, screen, at[c], ticks[c])
    BY <1>1, <1>2 DEF Drawing
  <2>2. Console(c, h, screen', at[c], ticks[c])
    BY <1>2, <1>3, <1>8, <1>13, <2>1, ConsoleKept
  <2> QED
    BY <1>5, <1>6, <1>13, <2>2, ConsoleElsewhere
<1>14. Located(c)' /\ Drawing(c)'
  <2>1. Drawing(c)'
    BY <1>12, <1>13 DEF Drawing
  <2>2. at'[c].do # "off"
    BY <1>5
  <2> QED
    BY <1>1, <1>2, <1>5, <1>6, <2>1, <2>2 DEF Located
<1>15. ASSUME NEW d \in Cpus, d # c PROVE Located(d)' /\ Drawing(d)'
  BY <1>2, <1>3, <1>5, <1>6, <1>8, <1>15, OtherCpus
<1>16. ~DEBUG_VGA
  BY <1>2 DEF Configured
<1> QED
  BY <1>10, <1>14, <1>15, <1>16 DEF Inv

\* The guest starts, with a console that no one has touched.
LEMMA LaunchStep ==
  ASSUME Configured, Inv, NEW c \in Cpus, Launch(c)
  PROVE  Inv'
<1> DEFINE b == [do |-> "clear", guest |-> TRUE, col |-> 0]
<1>1. Types /\ Located(c) /\ Drawing(c)
  BY DEF Inv
<1>2. Art /\ at[c].do = "run" /\ at[c].guest = FALSE
  <2>1. at[c].guest \in BOOLEAN
    BY <1>1, AtType
  <2> QED
    BY <1>1, <2>1 DEF Launch, Located
<1>3. at' = [at EXCEPT ![c] = b] /\ UNCHANGED <<screen, shv_x, ticks, vid, text, assert_failed>>
  BY DEF Launch
<1>4. b \in Progress /\ b.do = "clear" /\ b.guest = TRUE /\ b.col = 0
  BY DEF Progress
<1> HIDE DEF b
<1>5. at' \in [Cpus -> Progress] /\ at'[c] = b /\ \A d \in Cpus : d # c => at'[d] = at[d]
  BY <1>1, <1>3, <1>4 DEF Types
<1>6. Types'
  BY <1>1, <1>3, <1>5 DEF Types
<1>7. ASSUME NEW g \in BOOLEAN PROVE Console(c, g, screen, b, ticks[c])
  <2>1. Console(c, g, screen, at[c], ticks[c])
    BY <1>1, <1>2 DEF Drawing
  <2>2. CASE g = FALSE
    <3>1. Done(at[c], g) /\ Done(b, g)
      BY <1>2, <1>4, <2>2 DEF Done
    <3> QED
      BY <1>4, <2>1, <2>2, <3>1 DEF Console
  <2>3. CASE g = TRUE
    <3>1. ~Done(at[c], g) /\ ~Done(b, g)
      BY <1>2, <1>4, <2>3 DEF Done
    <3>2. Cleared(c, g, screen, 0)
      BY DEF Cleared
    <3> QED
      BY <1>4, <2>1, <3>1, <3>2 DEF Console
  <2> QED
    BY <2>2, <2>3
<1>8. Located(c)' /\ Drawing(c)'
  <2>1. at'[c].col \in 0..(Cols - 1) /\ at'[c].do # "off"
    BY <1>4, <1>5, Sizes
  <2>2. Drawing(c)'
    BY <1>3, <1>5, <1>7 DEF Drawing
  <2> QED
    BY <1>1, <1>2, <1>3, <2>1, <2>2 DEF Located
<1>9. ASSUME NEW d \in Cpus, d # c PROVE Located(d)' /\ Drawing(d)'
  <2>1. Located(d) /\ Drawing(d)
    BY DEF Inv
  <2> QED
    BY <1>3, <1>5, <1>9, <2>1 DEF Located, Drawing
<1>10. ~DEBUG_VGA
  BY <1>2 DEF Configured
<1> QED
  BY <1>6, <1>8, <1>9, <1>10 DEF Inv

\* A timer interrupt.
LEMMA TickStep ==
  ASSUME Configured, Inv, NEW c \in Cpus, NEW g \in BOOLEAN, NEW row \in Rows,
         UpdateScreen(c, g, row)
  PROVE  Inv'
<1> DEFINE t == ticks[c]
           n == t[<<g, row>>]
           u == n % Cols
           v == (n + Cols \div 2) % Cols
           q == shv_x[c][<<g, row>>]
<1>1. Types /\ Located(c) /\ Drawing(c)
  BY DEF Inv
<1>2. Art /\ at[c].do = "run" /\ (g => at[c].guest) /\ at[c].guest \in BOOLEAN
  BY <1>1, AtType DEF UpdateScreen, Located
<1>3. t \in [BOOLEAN \X Rows -> Nat] /\ <<g, row>> \in BOOLEAN \X Rows /\ n \in Nat
  BY <1>1 DEF Types
<1>4. Cols \in Nat /\ Cols >= 2
  BY <1>2, Sizes
<1>5. q = u
  BY <1>1 DEF Located
<1>6. /\ (u + Cols) % Cols = u /\ NextX(u, Cols) = (n + 1) % Cols
      /\ (u + Cols \div 2) % Cols = v /\ u \in 0..(Cols - 1) /\ v \in 0..(Cols - 1)
  <2> HIDE DEF n
  <2> QED
    BY <1>3, <1>4, NextColumns
<1>7. /\ screen' = [screen EXCEPT ![At(c, g, u, row)] = Updated(c), ![At(c, g, v, row)] = Blank]
      /\ shv_x' = [shv_x EXCEPT ![c][<<g, row>>] = (n + 1) % Cols]
      /\ ticks' = [ticks EXCEPT ![c][<<g, row>>] = n + 1]
      /\ UNCHANGED <<at, vid, text, assert_failed>>
  <2> DEFINE vc == console_get_vc(c, g)
             x == (q + vc.width) % vc.width
  <2>1. /\ screen' = [screen EXCEPT ![Cell(vc, x, row)] = Updated(c),
                        ![Cell(vc, (x + vc.width \div 2) % vc.width, row)] = Blank]
        /\ shv_x' = [shv_x EXCEPT ![c][<<g, row>>] = NextX(x, vc.width)]
    BY Zenon DEF UpdateScreen
  <2>2. ticks' = [ticks EXCEPT ![c][<<g, row>>] = n + 1] /\ UNCHANGED <<at, vid, text, assert_failed>>
    BY DEF UpdateScreen
  <2>3. vc.width = Cols /\ \A i, j : Cell(vc, i, j) = At(c, g, i, j)
    BY CellIs
  <2> HIDE DEF q, u, v, vc, x, n
  <2>4. x = u
    BY <1>5, <1>6, <2>3, Zenon DEF x
  <2>5. (x + vc.width \div 2) % vc.width = v /\ NextX(x, vc.width) = (n + 1) % Cols
    BY <1>6, <2>3, <2>4, Zenon
  <2>6. Cell(vc, u, row) = At(c, g, u, row) /\ Cell(vc, v, row) = At(c, g, v, row)
    BY <2>3, Zenon
  <2> QED
    BY <2>1, <2>2, <2>4, <2>5, <2>6, Zenon
<1> DEFINE w == ticks'[c]
<1>8. /\ ticks' \in [Cpus -> [BOOLEAN \X Rows -> Nat]]
      /\ \A h \in BOOLEAN, r \in Rows :
           w[<<h, r>>] = IF h = g /\ r = row THEN n + 1 ELSE t[<<h, r>>]
      /\ \A d \in Cpus : d # c => ticks'[d] = ticks[d]
  <2> HIDE DEF n
  <2> DEFINE m == n + 1
  <2>1. m \in Nat
    BY <1>3
  <2> HIDE DEF m
  <2>2. ticks' = [ticks EXCEPT ![c][<<g, row>>] = m] /\ ticks \in [Cpus -> [BOOLEAN \X Rows -> Nat]]
    BY <1>1, <1>7 DEF Types, m
  <2>3. \A h \in BOOLEAN, r \in Rows : <<h, r>> = <<g, row>> <=> h = g /\ r = row
    OBVIOUS
  <2>4. ticks' \in [Cpus -> [BOOLEAN \X Rows -> Nat]] /\ \A d \in Cpus : d # c => ticks'[d] = ticks[d]
    BY <1>3, <2>1, <2>2
  <2>5. \A p \in BOOLEAN \X Rows : w[p] = IF p = <<g, row>> THEN m ELSE t[p]
    BY <1>3, <2>2
  <2>6. \A h \in BOOLEAN, r \in Rows : w[<<h, r>>] = IF h = g /\ r = row THEN m ELSE t[<<h, r>>]
    BY <2>3, <2>5
  <2> QED
    BY <2>4, <2>6 DEF m
<1>9. /\ shv_x' \in [Cpus -> [BOOLEAN \X Rows -> Int]]
      /\ \A h \in BOOLEAN, r \in Rows :
           shv_x'[c][<<h, r>>] = IF h = g /\ r = row THEN (n + 1) % Cols ELSE shv_x[c][<<h, r>>]
      /\ \A d \in Cpus : d # c => shv_x'[d] = shv_x[d]
  <2> HIDE DEF n
  <2> DEFINE m == (n + 1) % Cols
  <2>1. m \in Int
    BY <1>3, <1>4
  <2> HIDE DEF m
  <2>2. shv_x' = [shv_x EXCEPT ![c][<<g, row>>] = m] /\ shv_x \in [Cpus -> [BOOLEAN \X Rows -> Int]]
    BY <1>1, <1>7 DEF Types, m
  <2>3. \A h \in BOOLEAN, r \in Rows : <<h, r>> = <<g, row>> <=> h = g /\ r = row
    OBVIOUS
  <2>4. shv_x' \in [Cpus -> [BOOLEAN \X Rows -> Int]] /\ \A d \in Cpus : d # c => shv_x'[d] = shv_x[d]
    BY <1>3, <2>1, <2>2
  <2>5. \A p \in BOOLEAN \X Rows : shv_x'[c][p] = IF p = <<g, row>> THEN m ELSE shv_x[c][p]
    BY <1>3, <2>2
  <2>6. \A h \in BOOLEAN, r \in Rows :
          shv_x'[c][<<h, r>>] = IF h = g /\ r = row THEN m ELSE shv_x[c][<<h, r>>]
    BY <2>3, <2>5
  <2> QED
    BY <2>4, <2>6 DEF m
<1>10. Done(at[c], g) /\ Shows(c, g, screen, t)
  <2>1. Done(at[c], g)
    BY <1>2 DEF Done
  <2> QED
    BY <1>1, <1>2, <2>1 DEF Drawing, Console
<1>11. Only(c, g, screen, screen') /\ Shows(c, g, screen', w)
  <2>1. Counted(g, row, t, w)
    <3> HIDE DEF w
    <3> QED
      BY <1>8 DEF Counted
  <2>2. screen \in [X \X Y -> Int]
    BY <1>1 DEF Types
  <2>3. t[<<g, row>>] \in Nat
    BY <1>3, Zenon
  <2>4. screen' = Ticked(c, g, row, t[<<g, row>>], screen)
    BY <1>7, Zenon DEF Ticked
  <2> HIDE DEF t, u, v, w, n
  <2> QED
    BY <1>2, <1>10, <2>1, <2>2, <2>3, <2>4, TickWrites
<1>12. Types'
  <2>1. Updated(c) \in Int /\ Blank \in Int
    BY Sizes DEF Updated, Blank, Cpus
  <2>2. screen' \in [X \X Y -> Int]
    <3> HIDE DEF u, v
    <3> QED
      BY <1>1, <1>7, <2>1 DEF Types
  <2> QED
    BY <1>1, <1>7, <1>8, <1>9, <2>2 DEF Types
<1>13. ASSUME NEW h \in BOOLEAN PROVE Console(c, h, screen', at'[c], ticks'[c])
  <2>1. CASE h = g
    <3>1. Console(c, g, screen', at[c], w)
      BY <1>2, <1>10, <1>11 DEF Console
    <3> QED
      BY <1>7, <2>1, <3>1
  <2>2. CASE h # g
    <3>1. Console(c, h, screen, at[c], t)
      BY <1>1, <1>2 DEF Drawing
    <3>2. Console(c, h, screen', at[c], t)
      BY <1>2, <1>11, <2>2, <3>1, ConsoleKept
    <3>3. \A r \in Rows : w[<<h, r>>] = t[<<h, r>>]
      BY <1>8, <2>2
    <3> HIDE DEF w, t
    <3>4. Console(c, h, screen', at[c], w)
      BY <3>2, <3>3, ConsoleElsewhere
    <3> QED
      BY <1>7, <3>4 DEF w
  <2> QED
    BY <2>1, <2>2
<1>14. Located(c)' /\ Drawing(c)'
  <2>1. Drawing(c)'
    BY <1>13 DEF Drawing
  <2>2. ASSUME NEW h \in BOOLEAN, NEW r \in Rows
        PROVE  shv_x'[c][<<h, r>>] = ticks'[c][<<h, r>>] % Cols
    <3>1. shv_x[c][<<h, r>>] = t[<<h, r>>] % Cols
      BY <1>1 DEF Located
    <3> QED
      BY <1>8, <1>9, <3>1, Zenon
  <2>3. at' = at
    BY <1>7
  <2> QED
    BY <1>1, <2>1, <2>2, <2>3 DEF Located
<1>15. ASSUME NEW d \in Cpus, d # c PROVE Located(d)' /\ Drawing(d)'
  <2>1. at'[d] = at[d]
    BY <1>7
  <2>2. ticks'[d] = ticks[d] /\ shv_x'[d] = shv_x[d]
    BY <1>8, <1>9, <1>15, Zenon
  <2> QED
    BY <1>2, <1>11, <1>15, <2>1, <2>2, OtherCpus
<1>16. ~DEBUG_VGA
  BY <1>2 DEF Configured
<1> QED
  BY <1>12, <1>14, <1>15, <1>16 DEF Inv

----------------------------------------------------------------------------
(* The steps of printf. *)

\* vgamem_newln: the screen keeps its size and the position stays on it.
LEMMA NewLineTypes ==
  ASSUME Configured, Types, NEW scr \in [X \X Y -> Int], NewLine(scr)
  PROVE  screen' \in [X \X Y -> Int] /\ vid' \in [x : X, y : Y]
<1>1. vid.x \in X /\ vid.y \in Y /\ 0 \in X
  BY Sizes DEF Types, X
<1>2. CONSOLE_HEIGHT \in Nat /\ CONSOLE_HEIGHT >= 1
  BY Sizes
<1>3. CASE Scrolls(vid.y + 1)
  <2>1. /\ vid' = [x |-> 0, y |-> CONSOLE_HEIGHT - 1]
        /\ screen' = [p \in X \X Y |-> IF p[2] = CONSOLE_HEIGHT - 1 THEN 0
                                       ELSE scr[<<p[1], p[2] + 1>>]]
    BY <1>3 DEF NewLine
  <2>2. CONSOLE_HEIGHT - 1 \in Y
    BY <1>2 DEF Y
  <2>3. ASSUME NEW p \in X \X Y, p[2] # CONSOLE_HEIGHT - 1
        PROVE  scr[<<p[1], p[2] + 1>>] \in Int
    <3>1. p[1] \in X /\ p[2] \in Y
      OBVIOUS
    <3>2. p[2] + 1 \in Y
      BY <1>2, <2>3, <3>1 DEF Y
    <3>3. <<p[1], p[2] + 1>> \in X \X Y
      BY <3>1, <3>2
    <3> QED
      BY <3>3
  <2> QED
    BY <1>1, <2>1, <2>2, <2>3
<1>4. CASE ~Scrolls(vid.y + 1)
  <2>1. vid' = [x |-> 0, y |-> vid.y + 1] /\ screen' = scr
    BY <1>4 DEF NewLine
  <2>2. vid.y + 1 \in Y
    BY <1>1, <1>2, <1>4 DEF Scrolls, Y
  <2> QED
    BY <1>1, <2>1, <2>2
<1> QED
  BY <1>3, <1>4

\* printf writes only where no consoles are drawn.
LEMMA PrintStep ==
  ASSUME Configured, Inv, DEBUG_VGA, UNCHANGED <<at, shv_x, ticks, assert_failed>>,
         screen' \in [X \X Y -> Int], vid' \in [x : X, y : Y],
         Showing(screen', text', vid')
  PROVE  Inv'
<1>1. ~Art
  BY DEF Configured
<1>2. Types'
  BY DEF Inv, Types
<1>3. ASSUME NEW c \in Cpus PROVE Located(c)' /\ Drawing(c)'
  <2>1. Located(c)
    BY DEF Inv
  <2> QED
    BY <1>1, <2>1 DEF Located, Drawing
<1> QED
  BY <1>2, <1>3 DEF Inv

\* What NewLine and PrintedLine show.
LEMMA LineShown ==
  ASSUME Configured, NEW scr, NEW txt, NEW v, Showing(scr, txt, v), v.y = vid.y,
         NewLine(scr), text' = Append(txt, <<>>)
  PROVE  Showing(screen', text', vid')
<1> DEFINE z == screen'
           w == vid'
           new == text'
<1>1. IF v.y + 1 >= CONSOLE_HEIGHT
      THEN /\ w = [x |-> 0, y |-> CONSOLE_HEIGHT - 1]
           /\ z = [p \in X \X Y |-> IF p[2] = CONSOLE_HEIGHT - 1 THEN 0
                                    ELSE scr[<<p[1], p[2] + 1>>]]
      ELSE w = [x |-> 0, y |-> v.y + 1] /\ z = scr
  BY Zenon DEF NewLine, Scrolls
<1>2. new = Append(txt, <<>>)
  OBVIOUS
<1> HIDE DEF z, w, new
<1>3. Showing(z, new, w)
  BY <1>1, <1>2, NewLineShown
<1> QED
  BY <1>3 DEF z, w, new

\* '\n'
LEMMA NewLineStep ==
  ASSUME Configured, Inv, PutNewLine
  PROVE  Inv'
<1>1. /\ DEBUG_VGA /\ NewLine(screen) /\ PrintedLine(text[Len(text)])
      /\ UNCHANGED <<at, shv_x, ticks, assert_failed>>
  BY DEF PutNewLine
<1>2. Types /\ Showing(screen, text, vid)
  BY <1>1 DEF Inv
<1>3. screen' \in [X \X Y -> Int] /\ vid' \in [x : X, y : Y]
  BY <1>1, <1>2, NewLineTypes DEF Types
<1>4. text' = Append(text, <<>>)
  <2>1. text \in Seq(Seq(Int)) /\ Len(text) >= 1
    BY <1>2 DEF Showing
  <2>2. [text EXCEPT ![Len(text)] = text[Len(text)]] = text
    BY <2>1
  <2> QED
    BY <1>1, <2>2, Zenon DEF PrintedLine
<1>5. Showing(screen', text', vid')
  BY <1>1, <1>2, <1>4, LineShown
<1> QED
  BY <1>1, <1>3, <1>5, PrintStep

\* Any other character.
LEMMA CharStep ==
  ASSUME Configured, Inv, NEW ch \in Chars, PutChar(ch)
  PROVE  Inv'
<1> DEFINE scr == [screen EXCEPT ![<<vid.x, vid.y>>] = ch]
           row == Append(text[Len(text)], ch)
           new == [text EXCEPT ![Len(text)] = row]
           v == [x |-> vid.x + 1, y |-> vid.y]
<1>1. /\ DEBUG_VGA /\ UNCHANGED <<at, shv_x, ticks, assert_failed>>
      /\ IF vid.x + 1 >= CONSOLE_WIDTH
         THEN NewLine(scr) /\ PrintedLine(row)
         ELSE screen' = scr /\ vid' = [vid EXCEPT !.x = @ + 1] /\ PrintedRow(row)
  BY Zenon DEF PutChar
<1>2. Types /\ Showing(screen, text, vid)
  BY <1>1 DEF Inv
<1>3. ch \in Int
  BY DEF Chars
<1>4. screen \in [X \X Y -> Int] /\ vid \in [x : X, y : Y] /\ vid.x \in X /\ vid.y \in Y
  BY <1>2 DEF Types
<1>5. scr \in [X \X Y -> Int]
  BY <1>3, <1>4
<1>6. v.y = vid.y
  OBVIOUS
<1>7. Showing(scr, new, v)
  <2>1. scr = [screen EXCEPT ![<<vid.x, vid.y>>] = ch]
        /\ new = [text EXCEPT ![Len(text)] = Append(text[Len(text)], ch)]
    OBVIOUS
  <2> HIDE DEF scr, new, row
  <2> QED
    BY <1>2, <1>3, <1>4, <2>1, CharShown
<1>8. CASE vid.x + 1 >= CONSOLE_WIDTH
  <2>1. NewLine(scr) /\ text' = Append(new, <<>>)
    BY <1>1, <1>8, Zenon DEF PrintedLine
  <2> HIDE DEF scr, new, v
  <2>2. Showing(screen', text', vid')
    BY <1>6, <1>7, <2>1, LineShown
  <2>3. screen' \in [X \X Y -> Int] /\ vid' \in [x : X, y : Y]
    BY <1>2, <1>5, <2>1, NewLineTypes
  <2> QED
    BY <1>1, <2>2, <2>3, PrintStep
<1>9. CASE ~(vid.x + 1 >= CONSOLE_WIDTH)
  <2>1. screen' = scr /\ vid' = [vid EXCEPT !.x = @ + 1] /\ text' = new
    BY <1>1, <1>9, Zenon DEF PrintedRow
  <2>2. vid' = v
    BY <1>4, <2>1
  <2>3. vid.x + 1 \in X
    BY <1>4, <1>9, Sizes DEF X
  <2>4. v \in [x : X, y : Y]
    BY <1>4, <2>3
  <2> HIDE DEF scr, new, v
  <2>5. Showing(screen', text', vid')
    BY <1>7, <2>1, <2>2
  <2>6. screen' \in [X \X Y -> Int] /\ vid' \in [x : X, y : Y]
    BY <1>5, <2>1, <2>2, <2>4
  <2> QED
    BY <1>1, <2>5, <2>6, PrintStep
<1> QED
  BY <1>8, <1>9

----------------------------------------------------------------------------

\* Every step keeps the invariant.
LEMMA StepInv == ASSUME Configured, Inv, [ConsoleNext]_consoleVars PROVE Inv'
<1>1. ASSUME NEW c \in Cpus, Draw(c) PROVE Inv'
  BY <1>1, ClearStep, DrawStep DEF Draw
<1>2. ASSUME NEW c \in Cpus, Launch(c) PROVE Inv'
  BY <1>2, LaunchStep
<1>3. ASSUME NEW c \in Cpus, NEW g \in BOOLEAN, NEW r \in Rows, UpdateScreen(c, g, r) PROVE Inv'
  BY <1>3, TickStep
<1>4. ASSUME NEW ch \in Chars, PutChar(ch) PROVE Inv'
  BY <1>4, CharStep
<1>5. CASE PutNewLine
  BY <1>5, NewLineStep
<1>6. CASE UNCHANGED consoleVars
  <2>1. /\ screen' = screen /\ at' = at /\ shv_x' = shv_x /\ ticks' = ticks
        /\ vid' = vid /\ text' = text /\ assert_failed' = assert_failed
    BY <1>6 DEF consoleVars
  <2> QED
    BY <2>1, Zenon DEF Inv, Types, Located, Drawing
<1> QED
  BY <1>1, <1>2, <1>3, <1>4, <1>5, <1>6, Zenon DEF ConsoleNext

\* The screen always shows what was written to it: no ASSERT fails over a cell
\* of another CPU, every row shows the trail of its own timer (update_screen),
\* and with DEBUG_VGA the last rows of what was printed (debug-vga.c). For every
\* size of the screen and every number of CPUs that have a console.
THEOREM ScreenAlwaysShows ==
  ASSUME Configured
  PROVE  ConsoleSpec => []ScreenShows
<1>1. ConsoleInit => Inv
  BY InitInv
<1>2. Inv /\ [ConsoleNext]_consoleVars => Inv'
  BY StepInv
<1>3. Inv => ScreenShows
  BY InvShows
<1> QED
  BY <1>1, <1>2, <1>3, PTL DEF ConsoleSpec

============================================================================
