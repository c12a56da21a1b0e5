------------------------------ MODULE PageMap ------------------------------
(***************************************************************************)
(* What the page table walker promises to its clients: a map from addresses *)
(* to pages with protections. A call maps, unmaps or protects all addresses *)
(* of one page, at once when it returns, or it fails and changes nothing.   *)
(***************************************************************************)
EXTENDS Integers

CONSTANTS
  Va, Levels,
  NoLeaf,     \* what an address that is not mapped is mapped to
  IsCall(_),  \* a record of va, lvl and either leaf or prot
  NoCall

VARIABLES
  map,      \* what each address is mapped to
  call,     \* the call under way
  err       \* what the last call returned

vars == <<map, call, err>>

Init ==
  /\ map = [v \in Va |-> NoLeaf]
  /\ call = NoCall
  /\ err = 0

Begin ==
  /\ call = NoCall
  /\ IsCall(call')
  /\ UNCHANGED <<map, err>>

\* The addresses that an entry of level l for va translates.
InRange(l, va, v) == \A k \in Levels : k >= l => v[k] = va[k]

\* A page is mapped, or unmapped when its leaf is NoLeaf.
Map ==
  /\ call # NoCall
  /\ "leaf" \in DOMAIN call
  /\ map' = [v \in Va |-> IF InRange(call.lvl, call.va, v) THEN call.leaf
                          ELSE map[v]]

\* The protection of a page changes; its frame is kept even without access.
Protect ==
  /\ call # NoCall
  /\ "prot" \in DOMAIN call
  /\ map[call.va].lvl = call.lvl
  /\ map' = [map EXCEPT ![call.va].prot = call.prot]

Succeed ==
  /\ Map \/ Protect
  /\ call' = NoCall
  /\ err' = 0

Fail ==
  /\ call # NoCall
  /\ call' = NoCall
  /\ err' = 1
  /\ UNCHANGED map

Next == Begin \/ Succeed \/ Fail

Spec == Init /\ [][Next]_vars
============================================================================
