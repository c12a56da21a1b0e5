------------------------------ MODULE CmdLine ------------------------------
(***************************************************************************)
(* parse_cmdline and match_var (cmdline.c) and tb_strtoull (strtoul.c): how *)
(* the options on the multiboot command line become the values of g_shv_opt *)
(* and its like.                                                           *)
(*                                                                         *)
(* A command line is a sequence of characters, in which one element stands  *)
(* for a whole prefix such as "nmi_exp=". One step is one word, or one      *)
(* character of a number. Integers keep their widths, which are constants.  *)
(***************************************************************************)
EXTENDS Integers, Sequences, FiniteSetsExt

CONSTANTS
  Prefixes,       \* the prefixes of cmdline_vars
  LongLongBits,   \* width of unsigned long long and u64
  LongBits,       \* width of unsigned long, which tb_strtoull returns
  Lines,          \* the command lines
  Default         \* SHV_OPT and its like

\* The value of a digit or letter.
Val == [ch \in {"0", "1", "3", "7", "a", "f"} |->
          CASE ch = "0" -> 0 [] ch = "1" -> 1 [] ch = "3" -> 3
            [] ch = "7" -> 7 [] ch = "a" -> 10 [] ch = "f" -> 15]
Chars == Prefixes \cup DOMAIN Val \cup {" ", "x", "-", "+"}
ULONGLONG_MAX == 2^LongLongBits - 1

\* What the constants must be.
CmdLineConstants ==
  /\ LongLongBits \in Nat \ {0}
  /\ LongBits \in 1..LongLongBits
  /\ \A line \in Lines : line \in Seq(Chars)
  /\ Default \in 0..ULONGLONG_MAX

VARIABLES
  cmdline,
  pc,             \* "word", "digits", "done", or "halted" by tb_strtoull
  word,           \* begin_word
  var,            \* the prefix that was matched
  s,              \* where tb_strtoull reads the next character
  num,            \* base, neg, acc and any of tb_strtoull
  opt             \* the values of the options

vars == <<cmdline, pc, word, var, s, num, opt>>

NoNum == [base |-> 10, neg |-> FALSE, acc |-> 0, any |-> 0]

Init ==
  /\ cmdline \in Lines
  /\ pc = "word"
  /\ word = 1
  /\ var = CHOOSE v \in Prefixes : TRUE
  /\ s = 1
  /\ num = NoNum
  /\ opt = [v \in Prefixes |-> Default]

----------------------------------------------------------------------------

At(k) == IF k <= Len(cmdline) THEN cmdline[k] ELSE "nul"

\* The first place from k on that is not, or that is, a space or the end.
NotSpace(k) ==
  CHOOSE j \in k..(Len(cmdline) + 1) :
    At(j) # " " /\ \A i \in k..(j - 1) : At(i) = " "
Space(k) ==
  CHOOSE j \in k..(Len(cmdline) + 1) :
    At(j) \in {" ", "nul"} /\ \A i \in k..(j - 1) : At(i) \notin {" ", "nul"}

\* The next word of parse_cmdline.
NextWord == NotSpace(Space(word))

\* The beginning of tb_strtoull: spaces, a sign, the base.
Signed(k) == IF At(k) \in {"-", "+"} THEN k + 1 ELSE k
IsHex(k) == At(k) = "0" /\ At(k + 1) = "x"
Base(k) == IF IsHex(k) THEN 16 ELSE IF At(k) = "0" THEN 8 ELSE 10

NoMatch ==
  /\ pc = "word"
  /\ At(word) # "nul"
  /\ At(word) \notin Prefixes
  /\ word' = NextWord
  /\ UNCHANGED <<cmdline, pc, var, s, num, opt>>

Match ==
  LET k == NotSpace(word + 1)
      d == Signed(k)
  IN /\ pc = "word"
     /\ At(word) \in Prefixes
     /\ pc' = "digits"
     /\ var' = At(word)
     /\ s' = IF IsHex(d) THEN d + 2 ELSE d
     /\ num' = [base |-> Base(d), neg |-> At(k) = "-", acc |-> 0, any |-> 0]
     /\ UNCHANGED <<cmdline, word, opt>>

\* Whether the number goes on: 'x' and the letters of a prefix are letters
\* beyond every base.
IsDigit(ch, base) == ch \in DOMAIN Val /\ Val[ch] < base

cutoff == ULONGLONG_MAX \div num.base
cutlim == ULONGLONG_MAX % num.base

\* A variant that forgets the last digit.
TooBigCutoff(c) == num.any < 0 \/ num.acc > cutoff
TooBig(c) == num.any < 0 \/ num.acc > cutoff \/ (num.acc = cutoff /\ c > cutlim)

Digit ==
  /\ pc = "digits"
  /\ IsDigit(At(s), num.base)
  /\ \E c \in {Val[At(s)]} :
       num' = IF TooBig(c) THEN [num EXCEPT !.any = -1]
              ELSE [num EXCEPT !.any = 1,
                               !.acc = (@ * num.base + c) % 2^LongLongBits]
  /\ s' = s + 1
  /\ UNCHANGED <<cmdline, pc, word, var, opt>>

\* acc = -acc, and the conversion to unsigned long.
Returned ==
  (IF num.neg THEN (2^LongLongBits - num.acc) % 2^LongLongBits ELSE num.acc)
    % 2^LongBits

EndOfNumber ==
  /\ pc = "digits"
  /\ ~IsDigit(At(s), num.base)
  /\ IF num.any < 0
     THEN pc' = "halted" /\ UNCHANGED <<word, num, opt>>
     ELSE /\ pc' = "word"
          /\ opt' = [opt EXCEPT ![var] = Returned]
          /\ word' = NextWord
          /\ num' = NoNum
  /\ UNCHANGED <<cmdline, var, s>>

Done ==
  /\ pc = "word"
  /\ At(word) = "nul"
  /\ pc' = "done"
  /\ UNCHANGED <<cmdline, word, var, s, num, opt>>

Next == NoMatch \/ Match \/ Digit \/ EndOfNumber \/ Done

\* parse_cmdline runs alone, before interrupts are enabled.
Spec == Init /\ [][Next]_vars /\ WF_vars(Next)

----------------------------------------------------------------------------
(* What the options mean, without the words, steps and limits of the code.  *)

\* The places where an option begins: at the start of a word.
Options ==
  {k \in DOMAIN cmdline : cmdline[k] \in Prefixes /\ (k = 1 \/ cmdline[k - 1] = " ")}

\* The number that stands behind the prefix at k, spaces before it ignored: a
\* sign, 0x for base 16 or 0 for base 8, and digits up to the first that is
\* none.
Number(k) ==
  LET sign == NotSpace(k + 1)
      neg == At(sign) = "-"
      first == IF neg \/ At(sign) = "+" THEN sign + 1 ELSE sign
      hex == At(first) = "0" /\ At(first + 1) = "x"
      base == IF hex THEN 16 ELSE IF At(first) = "0" THEN 8 ELSE 10
      from == IF hex THEN first + 2 ELSE first
      places == {p \in from..Len(cmdline) :
                   \A i \in from..p : cmdline[i] \in DOMAIN Val /\ Val[cmdline[i]] < base}
      weight(p) == Val[cmdline[p]] * base^(from + Cardinality(places) - 1 - p)
  IN [neg |-> neg, abs |-> MapThenSumSet(weight, places)]

\* The value of option v as the command line gives it: that of its last use,
\* negative numbers in two's complement.
Meant(v) ==
  LET uses == {k \in Options : cmdline[k] = v}
      n == Number(CHOOSE k \in uses : \A j \in uses : j <= k)
  IN IF uses = {} THEN Default
     ELSE IF n.neg THEN (2^LongLongBits - n.abs) % 2^LongLongBits
     ELSE n.abs

Ended == pc \in {"done", "halted"}

\* The types of the variables; acc is an unsigned long long.
TypeOK ==
  /\ pc \in {"word", "digits", "done", "halted"}
  /\ word \in 1..(Len(cmdline) + 1)
  /\ var \in Prefixes
  /\ s \in 1..(Len(cmdline) + 2)
  /\ num.acc \in 0..ULONGLONG_MAX
  /\ opt \in [Prefixes -> 0..ULONGLONG_MAX]

\* parse_cmdline sets every option to the value that the command line gives it,
\* whatever else is on the line.
OptionsSet == pc = "done" => \A v \in Prefixes : opt[v] = Meant(v)

\* tb_strtoull halts on a number that does not fit 64 bits, and on no other.
HaltsOnOverflow ==
  /\ pc = "halted" => \E k \in Options : Number(k).abs > ULONGLONG_MAX
  /\ pc = "done" => \A k \in Options : Number(k).abs <= ULONGLONG_MAX

\* The command line is parsed to its end, or tb_strtoull halts, and then the
\* options are what the command line says.
OptionsRight == <>(Ended /\ TypeOK /\ OptionsSet /\ HaltsOnOverflow)
=============================================================================
