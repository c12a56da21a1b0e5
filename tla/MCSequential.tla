---------------------------- MODULE MCSequential ----------------------------
(***************************************************************************)
(* What one CPU does by itself, for TLC: the memory type of a page (MemType)  *)
(* and the fields of a page map entry (Hpt), which this module extends,       *)
(* parsing the command line (CmdLine), copying through page maps (HptwCopy)   *)
(* and building an EPT (Ept). They share no state, so that a behaviour is one *)
(* of one of them and the others stay in an initial state.                    *)
(***************************************************************************)
EXTENDS MemType, Hpt

VARIABLES
  part,                                               \* which one
  cmdline, cpc, word, var, s, num, opt,               \* of CmdLine
  src_pm, dst_pm, cmem, buf, call, copied, rv,        \* of HptwCopy
  pm, page_alloc, home, epc, req, pmo, err,           \* of Ept
  large, first, state, ept_num, ept_valid, todo, mem

----------------------------------------------------------------------------
(* Up to two variable MTRRs over all pages (with a base outside of the mask)  *)
(* or over the odd ones, some of them not valid; a third one over all.        *)

Mtrr(v, b, m, ty) == [valid |-> v, base |-> b, mask |-> m, type |-> ty]
AllPages == {Mtrr(TRUE, {0}, {}, ty) : ty \in Types}
Ranges == AllPages \cup {Mtrr(TRUE, {0}, {0}, ty) : ty \in Types}
            \cup {Mtrr(FALSE, {}, {}, "UC")}
MCVarMtrrs ==
  UNION {[1..n -> Ranges] : n \in 0..2}
    \cup {<<m, n, o>> : m \in Ranges, n \in Ranges, o \in AllPages}
MCFixed == {[c \in (1..11) \X (0..7) |-> IF c = <<1, 0>> THEN "UC" ELSE "WB"]}

AnyPage ==
  /\ page = 0
  /\ mtrrs = <<>>
  /\ mtrr_enable = FALSE /\ fixmtrr_enable = FALSE
  /\ defaulttype = "UC"

----------------------------------------------------------------------------
(* Command lines of up to five characters, with a u64 of five bits. They      *)
(* begin with an option, a space or a word that is none.                      *)

MCChars == {"shv_opt=", "nmi_exp=", "0", "1", "3", "f", "x", "-", "+", " "}
MCLines ==
  {<<>>} \cup {<<ch>> \o line : ch \in {"shv_opt=", " ", "x"},
                              line \in UNION {[1..n -> MCChars] : n \in 0..4}}

CL == INSTANCE CmdLine WITH
        Prefixes <- {"shv_opt=", "nmi_exp="}, LongLongBits <- 5, LongBits <- 5,
        Lines <- MCLines, Default <- 5, pc <- cpc

NoOptions == cmdline = <<>>

----------------------------------------------------------------------------
(* Entries of all types of paging. The addresses have ones around the         *)
(* boundaries of the fields, before they are aligned.                         *)

MCAddresses == {{12, 21, 31}, {13, 22, 30, 39, 51}, {20, 29, 32, 40, 47}}

AnyEntry == t = "NORM" /\ lvl = 1

----------------------------------------------------------------------------
(* Copies through two levels of page maps. The source is memory 0 to 7 and   *)
(* the destination memory 8 to 15, in pages of two bytes and large pages of   *)
(* four.                                                                      *)

RWX == {"R", "W", "X"}
RX == {"R", "X"}
Entry(ps, prot, user, to) == [ps |-> ps, prot |-> prot, user |-> user, to |-> to]
Nothing == Entry(FALSE, {"X"}, FALSE, 0)
Empty == [k \in {0, 1} |-> Nothing]

\* A page map with a page map, a large page or nothing in each half; the pages
\* of a half are swapped, so that addresses in sequence are not so in memory.
Halves(base) ==
  {[top |-> Entry(TRUE, p, u, base), low |-> Empty] : p \in {RWX, RX}, u \in BOOLEAN}
  \cup {[top |-> Nothing, low |-> Empty]}
  \cup {[top |-> Entry(FALSE, p, u, 0),
         low |-> [k \in {0, 1} |-> IF k = 0 THEN Entry(FALSE, RWX, TRUE, base + 2) ELSE q]] :
           p \in {RWX, RX}, u \in BOOLEAN,
           q \in {Entry(FALSE, RWX, TRUE, base), Entry(FALSE, RX, FALSE, base), Nothing}}
Two(h, g) ==
  [m \in 0..2 |->
     CASE m = 0 -> [k \in {0, 1} |->
                      LET e == IF k = 0 THEN h.top ELSE g.top
                      IN IF e.ps THEN e ELSE [e EXCEPT !.to = k + 1]]
       [] m = 1 -> h.low
       [] m = 2 -> g.low]
Whole(base) == [top |-> Entry(TRUE, RWX, TRUE, base), low |-> Empty]
Split(base) ==
  [top |-> Entry(FALSE, RWX, TRUE, 0),
   low |-> [k \in {0, 1} |-> Entry(FALSE, RWX, TRUE, base + 2 - 2 * k)]]

\* The map under test is on either side; the other one allows everything.
MCContexts ==
  {<<Two(h, Split(4)), Two(Split(8), Whole(12))>> : h \in Halves(0)}
  \cup {<<Two(Whole(0), Split(4)), Two(Split(8), g)>> : g \in Halves(12)}
  \cup {<<Two(Whole(4), Split(0)), Two(Whole(8), Whole(12))>>}

C == INSTANCE HptwCopy WITH
       MaxLvl <- 2, Fanout <- 2, PageLvls <- {1, 2}, PoolSize <- 2,
       Frames <- 0..15, Ept <- FALSE, Prots <- {},
       PageSz <- 2, Contexts <- MCContexts, Bytes <- 0..15,
       Vas <- {0, 1, 3}, Lens <- {0, 2, 5}, mem <- cmem

AnyCopy ==
  /\ src_pm = Two(Whole(4), Split(0))
  /\ dst_pm = Two(Whole(8), Whole(12))
  /\ call = [op |-> "memset_va", src_user |-> TRUE, dst_user |-> TRUE,
             src |-> 0, dst |-> 0, len |-> 0]

----------------------------------------------------------------------------
(* An EPT of 16 pages. Its pool is as large as the first build needs.         *)

EP == INSTANCE Ept WITH
        MaxLvl <- 4, Fanout <- 2, PageLvls <- {1, 2}, PoolSize <- 12,
        Frames <- 0..31, Ept <- TRUE, Prots <- {RWX},
        RealModeEnd <- 2, EptHigh <- 8, Lapic <- 15, Console <- 1, Target <- 9,
        LargePages <- [k \in {0, 1} |-> 4 + 2 * k],
        EptTarget <- 16, Firsts <- {0, 3}, Count <- 3, pc <- epc

AnyEpt == large = FALSE /\ first = 0

ASSUME CL!CmdLineConstants /\ Callers /\ C!CopyConstants /\ EP!EptConstants

----------------------------------------------------------------------------

optionsVars == <<cmdline, cpc, word, var, s, num, opt>>
copyVars == <<src_pm, dst_pm, cmem, buf, call, copied, rv>>
eptVars == <<pm, page_alloc, home, epc, req, pmo, err,
             large, first, state, ept_num, ept_valid, todo, mem>>
sequentialVars == <<part, vars, optionsVars, entryVars, copyVars, eptVars>>

SequentialInit ==
  /\ part \in {"memtype", "options", "entry", "copy", "ept"}
  /\ part # "memtype" => AnyPage
  /\ part # "options" => NoOptions
  /\ part # "entry" => AnyEntry
  /\ part # "copy" => AnyCopy
  /\ part # "ept" => AnyEpt
  /\ Init
  /\ CL!Init
  /\ EntryInit
  /\ C!Init
  /\ EP!EptInit

MemTypeStep ==
  /\ part = "memtype" /\ Next
  /\ UNCHANGED <<part, optionsVars, entryVars, copyVars, eptVars>>
OptionsStep ==
  /\ part = "options" /\ CL!Next
  /\ UNCHANGED <<part, vars, entryVars, copyVars, eptVars>>
EntryStep ==
  /\ part = "entry" /\ EntryNext
  /\ UNCHANGED <<part, vars, optionsVars, copyVars, eptVars>>
CopyStep ==
  /\ part = "copy" /\ C!Next
  /\ UNCHANGED <<part, vars, optionsVars, entryVars, eptVars>>
EptStep ==
  /\ part = "ept" /\ EP!EptNext
  /\ UNCHANGED <<part, vars, optionsVars, entryVars, copyVars>>

SequentialNext == MemTypeStep \/ OptionsStep \/ EntryStep \/ CopyStep \/ EptStep

\* Nothing else runs on the CPU meanwhile: the fairness of the components.
SequentialSpec ==
  /\ SequentialInit /\ [][SequentialNext]_sequentialVars
  /\ WF_sequentialVars(OptionsStep \/ CopyStep \/ EptStep)

----------------------------------------------------------------------------
(* The properties of MemType and Hpt have their own names. Those of the others *)
(* are for the behaviours that are theirs.                                    *)

\* parse_cmdline comes to the end of every command line and has set every option
\* to what the line says last; tb_strtoull halts on numbers beyond 64 bits and
\* on no others.
OptionsRight == part = "options" => CL!OptionsRight

\* hptw_checked_copy_* and hptw_checked_memset_va return, 0 after all bytes and
\* 1 at the first that is not accessible, and have written the bytes up to
\* there, where they belong, and nothing else.
CopyRight == part = "copy" => C!CopyRight

\* shv_build_ept returns with no ASSERT failed, and the EPT maps every address
\* to what is meant for its ept_num, however often it was built before;
\* building it again takes no page from the pool.
BuildRight == EP!BuildRight
=============================================================================
