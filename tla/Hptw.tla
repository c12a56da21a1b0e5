-------------------------------- MODULE Hptw --------------------------------
(***************************************************************************)
(* The operations of the page table walker (hptw.c) that change page maps:  *)
(* hptw_insert_pmeo_alloc, hptw_insert_pmeo and hptw_set_prot, over a pool  *)
(* of zeroed pages that are never given back (shv_ept_gzp).                 *)
(*                                                                         *)
(* One step is one iteration of a walk. The variable home remembers for     *)
(* which level and address a page of the pool was taken.                    *)
(***************************************************************************)
EXTENDS HptwTables

VARIABLES
  pm,           \* the contents of the page maps
  page_alloc,   \* the pages of the pool that were taken
  home,         \* the level of a page map and an address below it
  pc,           \* "idle", "walk", or "halted" by a failed assertion
  req,          \* the call: its operation, address, level and entry
  pmo,          \* the page map that the walk has come to, and its level
  err           \* what the last call returned

vars == <<pm, page_alloc, home, pc, req, pmo, err>>

Ops == {"insert_alloc", "insert", "set_prot"}
Requests == [op : Ops, va : Va, lvl : Levels, pme : Entry]
NoReq == [op |-> "insert", va |-> [l \in Levels |-> 0], lvl |-> 1, pme |-> Zero]
RootPmo == [pm |-> 0, lvl |-> MaxLvl]

Init ==
  /\ pm = [m \in Maps |-> ZeroMap]
  /\ page_alloc = {}
  /\ home = [m \in Maps |-> [lvl |-> MaxLvl, va |-> [l \in Levels |-> 0]]]
  /\ pc = "idle"
  /\ req = NoReq
  /\ pmo = RootPmo
  /\ err = 0

\* The entries that clients build: pages, at a level above 1 with access, and
\* zero.
Users == IF Ept THEN {TRUE} ELSE BOOLEAN
PageEntries(l) ==
  {e \in [ps : {l > 1}, prot : Prots, user : Users, to : Frames] :
     l > 1 => IsPresent(e)}
ClientEntries(l) == (IF l \in PageLvls THEN PageEntries(l) ELSE {}) \cup {Zero}

\* The first address of the range that an entry of level l for va translates.
Base(l, va) == [k \in Levels |-> IF k >= l THEN va[k] ELSE 0]

\* The entry that the walk looks at, and the page map that it points to.
Cur == pm[pmo.pm][req.va[pmo.lvl]]

Begin(r) ==
  /\ pc = "idle"
  /\ pc' = "walk"
  /\ req' = r
  /\ pmo' = RootPmo
  /\ UNCHANGED <<pm, page_alloc, home, err>>

Return(e) ==
  /\ pc' = "idle"
  /\ err' = e
  /\ req' = NoReq
  /\ pmo' = RootPmo

\* hptw_next_lvl, when it goes down.
NextLvl ==
  /\ pc = "walk"
  /\ pmo.lvl > req.lvl
  /\ Descends(pmo.lvl, Cur)
  /\ pmo' = [pm |-> Cur.to, lvl |-> pmo.lvl - 1]
  /\ UNCHANGED <<pm, page_alloc, home, pc, req, err>>

\* shv_ept_gzp: the first page that is free.
Free == Pool \ page_alloc
\* A variant that does not look whether a page is free.
FirstFreeBlind == 1
FirstFree == CHOOSE m \in Free : \A k \in Free : m <= k

\* A variant that leaves out part of what makes an entry passable for all.
TableEntryRead(m) == [ps |-> FALSE, prot |-> {"R"}, user |-> TRUE, to |-> m]

\* The entry for a new page map.
TableEntry(m) == [ps |-> FALSE, prot |-> HPT_PROTS_RWX, user |-> TRUE, to |-> m]

\* hptw_get_pmo_alloc, when there is no page map below the entry.
AllocLvl ==
  /\ pc = "walk"
  /\ req.op = "insert_alloc"
  /\ pmo.lvl > req.lvl
  /\ ~IsPage(pmo.lvl, Cur)
  /\ ~IsPresent(Cur)
  /\ Free # {}
  /\ page_alloc' = page_alloc \cup {FirstFree}
  /\ pm' = [pm EXCEPT ![pmo.pm][req.va[pmo.lvl]] = TableEntry(FirstFree)]
  /\ home' = [home EXCEPT ![FirstFree] =
                  [lvl |-> pmo.lvl - 1, va |-> Base(pmo.lvl, req.va)]]
  /\ pmo' = [pm |-> FirstFree, lvl |-> pmo.lvl - 1]
  /\ UNCHANGED <<pc, req, err>>

\* A page is in the way, or the pool is empty. Page maps that were added on
\* the way stay.
AllocFails ==
  /\ pc = "walk"
  /\ req.op = "insert_alloc"
  /\ pmo.lvl > req.lvl
  /\ IsPage(pmo.lvl, Cur) \/ (~IsPresent(Cur) /\ Free = {})
  /\ Return(1)
  /\ UNCHANGED <<pm, page_alloc, home>>

\* Without allocation the walk ends at the first entry that leads nowhere.
\* hptw_set_prot asserts that this does not happen.
WalkFails ==
  /\ pc = "walk"
  /\ req.op # "insert_alloc"
  /\ pmo.lvl > req.lvl
  /\ ~Descends(pmo.lvl, Cur)
  /\ IF req.op = "insert"
     THEN Return(1)
     ELSE pc' = "halted" /\ UNCHANGED <<req, pmo, err>>
  /\ UNCHANGED <<pm, page_alloc, home>>

\* The entry that the call stores.
NewEntry ==
  IF req.op = "set_prot" THEN [Cur EXCEPT !.prot = req.pme.prot] ELSE req.pme

\* A variant that always takes the index of level 1.
SetPmeLvl1 ==
  /\ pc = "walk"
  /\ pmo.lvl = req.lvl
  /\ pm' = [pm EXCEPT ![pmo.pm][req.va[1]] = NewEntry]
  /\ Return(0)
  /\ UNCHANGED <<page_alloc, home>>

SetPme ==
  /\ pc = "walk"
  /\ pmo.lvl = req.lvl
  /\ pm' = [pm EXCEPT ![pmo.pm][req.va[pmo.lvl]] = NewEntry]
  /\ Return(0)
  /\ UNCHANGED <<page_alloc, home>>

\* The calls that clients make.
Calls ==
  LET on(op, va, l, e) == Begin([op |-> op, va |-> va, lvl |-> l, pme |-> e]) IN
  \E va \in Va :
    \/ \E op \in {"insert_alloc", "insert"}, l \in Levels :
         /\ va = Base(l, va)
         /\ \E e \in ClientEntries(l) : on(op, va, l, e)
    \/ \E prot \in Prots : on("set_prot", va, 1, [Zero EXCEPT !.prot = prot])

Walk == NextLvl \/ AllocLvl \/ AllocFails \/ WalkFails \/ SetPme

Next == Calls \/ Walk

Spec == Init /\ [][Next]_vars

----------------------------------------------------------------------------

InUse == {0} \cup page_alloc

\* Whether page map m lies on the walk of va as far as the indices go.
Agree(l, va, vb) == \A k \in Levels : k > l => va[k] = vb[k]

\* The types of the variables.
TypeOK ==
  /\ pm \in [Maps -> [Index -> Entry]]
  /\ page_alloc \in SUBSET Pool
  /\ home \in [Maps -> [lvl : Levels, va : Va]]
  /\ pc \in {"idle", "walk", "halted"}
  /\ req \in Requests
  /\ pmo \in [pm : Maps, lvl : Levels]
  /\ err \in {0, 1}

\* The page maps form a tree: an entry that the walk goes through leads to a
\* page that was taken from the pool for just that level and those indices,
\* and no two entries lead to the same page. So a change below one entry is
\* never seen through another (hptw_get_pmo_alloc).
PathsMatch ==
  \A m \in InUse, i \in Index :
    LET l == home[m].lvl
        c == pm[m][i].to
    IN Descends(l, pm[m][i]) =>
         /\ c \in page_alloc
         /\ home[c].lvl = l - 1
         /\ Agree(l, home[c].va, home[m].va)
         /\ home[c].va[l] = i
OneParent ==
  \A m, n \in InUse, i, j \in Index :
    /\ Descends(home[m].lvl, pm[m][i])
    /\ Descends(home[n].lvl, pm[n][j])
    /\ pm[m][i].to = pm[n][j].to
    => m = n /\ i = j
Tree == PathsMatch /\ OneParent

\* shv_ept_gzp returns pages that are zero although it never clears one: pages
\* that were not taken are not written to either.
PoolZero == \A m \in Pool \ page_alloc : pm[m] = ZeroMap

\* While a walk is under way its page map object is a page map of the level
\* it claims, for the address of the call (the assertions after hptw_next_lvl
\* and EU_CHK(pmo.lvl == pmeo->lvl)).
CursorRight ==
  pc = "walk" =>
    /\ pmo.pm \in InUse
    /\ home[pmo.pm].lvl = pmo.lvl
    /\ pmo.lvl >= req.lvl
    /\ Agree(pmo.lvl, home[pmo.pm].va, req.va)

\* Whatever calls came before, failed ones included: page maps form a tree, the
\* pages still in the pool are zero, and a walk is where it believes to be.
WalkerRight == Tree /\ PoolZero /\ CursorRight

\* A step changes at most the entry that the call is for, or turns an entry
\* that was not present into one for an empty page map. A call that fails
\* takes no mapping away.
EntriesKept ==
  [][\A m \in Maps, i \in Index :
       pm'[m][i] # pm[m][i] =>
         \/ /\ ~IsPresent(pm[m][i])
            /\ pm'[m][i].to \in page_alloc' \ page_alloc
            /\ pm'[pm'[m][i].to] = ZeroMap
         \/ /\ home[m].lvl = req.lvl
            /\ Agree(req.lvl, home[m].va, req.va)
            /\ i = req.va[req.lvl]
            /\ err' = 0]_vars

----------------------------------------------------------------------------
(* Refinement of PageMap: what the walk of each address ends at. *)

NoLeaf == [lvl |-> 1, to |-> 0, prot |-> Zero.prot, user |-> Ept]
LeafOf(l, e, prot, user) ==
  IF l = 1 \/ IsPresent(e)
  THEN [lvl |-> l, to |-> e.to, prot |-> prot, user |-> user]
  ELSE NoLeaf
Leaf(va) == LET w == Walked(pm, va) IN LeafOf(w.lvl, w.pme, w.prot, w.user)

NoCall == [op |-> "none"]
CallOf(r) ==
  IF r.op = "set_prot" THEN [va |-> r.va, lvl |-> r.lvl, prot |-> r.pme.prot]
  ELSE [va |-> r.va, lvl |-> r.lvl,
        leaf |-> LeafOf(r.lvl, r.pme, r.pme.prot, r.pme.user)]

IsCall(c) == c # NoCall /\ c.va \in Va /\ c.lvl \in Levels

\* The calls that clients make, as PageMap sees them. A call that halts is
\* one that does not return.
P == INSTANCE PageMap WITH
       map <- [va \in Va |-> Leaf(va)],
       call <- IF pc = "idle" THEN NoCall ELSE CallOf(req)

\* The walker is a map from addresses to pages: a call maps, unmaps or protects
\* exactly the addresses of its page, with the protection it asks for, at the
\* step at which it returns 0, or does nothing that can be seen.
ImplementsPageMap == P!Spec
=============================================================================
