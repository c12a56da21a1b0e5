----------------------------- MODULE HptwTables -----------------------------
(***************************************************************************)
(* The data that the page table walker (hptw.c) works on: page maps, their  *)
(* entries, and the walk from the root page map towards an address.         *)
(*                                                                         *)
(* A virtual address is the function of its indices, one for each level     *)
(* (module Hpt shows how they are cut from its bits). An entry is a record  *)
(* of the fields that module Hpt shows to be independent. Page maps are     *)
(* numbered: 0 is the root, the others are the pages of a pool.             *)
(***************************************************************************)
EXTENDS Integers

CONSTANTS
  MaxLvl,     \* hpt_type_max_lvl, the level of the root page map
  Fanout,     \* number of entries of a page map
  PageLvls,   \* the levels whose entries can be pages
  PoolSize,   \* number of pages of the pool (EPT_POOL_SIZE)
  Frames,     \* what a page entry may point to
  Ept,        \* whether the entries are those of an EPT, else of 64-bit paging
  Prots       \* the protections that clients ask for

Levels == 1..MaxLvl
Index == 0..(Fanout - 1)
Va == [Levels -> Index]
Pool == 1..PoolSize
Maps == 0..PoolSize
Access == {"R", "W", "X"}
HPT_PROTS_RWX == Access

ASSUME HptwAssumption ==
  /\ MaxLvl \in Nat \ {0}
  /\ Fanout \in Nat \ {0}
  /\ 1 \in PageLvls
  /\ PageLvls \subseteq Levels
  /\ PoolSize \in Nat
  /\ 0 \in Frames
  /\ Ept \in BOOLEAN
  /\ Prots \subseteq SUBSET Access

Entry == [ps : BOOLEAN, prot : SUBSET Access, user : BOOLEAN,
          to : Maps \cup Frames]

\* pme == 0: no execute is a bit of its own in 64-bit paging, and EPT has no
\* user bit.
Zero == [ps |-> FALSE, prot |-> IF Ept THEN {} ELSE {"X"}, user |-> Ept, to |-> 0]
ZeroMap == [i \in Index |-> Zero]

\* hpt_pme_is_present and hpt_pme_is_page
IsPresent(e) == IF Ept THEN e.prot # {} ELSE "R" \in e.prot
IsPage(l, e) == l = 1 \/ e.ps

\* Whether the walk goes on through an entry of level l (hptw_next_lvl).
Descends(l, e) == IsPresent(e) /\ ~IsPage(l, e)

\* Where the walk of va ends: the level and the entry, and the protections of
\* the entries on the way, combined.
Walked(pm, va) ==
  LET end[l \in Levels] ==
        IF l = MaxLvl
        THEN LET e == pm[0][va[l]]
             IN [lvl |-> l, pme |-> e, prot |-> e.prot, user |-> e.user]
        ELSE LET up == end[l + 1]
                 e == pm[up.pme.to][va[l]]
             IN IF up.lvl = l + 1 /\ Descends(up.lvl, up.pme)
                THEN [lvl |-> l, pme |-> e,
                      prot |-> up.prot \cap e.prot, user |-> up.user /\ e.user]
                ELSE up
  IN end[1]
=============================================================================
