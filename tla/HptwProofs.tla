----------------------------- MODULE HptwProofs -----------------------------
(***************************************************************************)
(* The page maps that hptw.c builds are a tree, for any number of levels,   *)
(* any size of page maps and of the pool, and any calls, and the walker     *)
(* implements a map from addresses to pages (PageMap).                      *)
(***************************************************************************)
EXTENDS Hptw, WellFoundedInduction, TLAPS

\* The call under way stores no entry that leads to a page map: only pages and
\* zero, or what hptw_set_prot makes of an entry of level 1.
RequestIsLeaf ==
  pc = "walk" =>
    req.lvl = 1 \/ (req.op # "set_prot" /\ ~Descends(req.lvl, req.pme))

RootHome == home[0].lvl = MaxLvl

\* The inductive invariant. The walk cannot stay right without the tree, nor
\* the tree without the zeroed pages, which become part of it.
IInv ==
  /\ TypeOK
  /\ RootHome
  /\ PathsMatch
  /\ OneParent
  /\ PoolZero
  /\ CursorRight
  /\ RequestIsLeaf

----------------------------------------------------------------------------

LEMMA ZeroFacts ==
  /\ Zero \in Entry
  /\ ~IsPresent(Zero)
  /\ ZeroMap \in [Index -> Entry]
  /\ \A i \in Index : ZeroMap[i] = Zero
<1>1. Zero \in Entry
  BY HptwAssumption DEF Zero, Entry, Maps, Access
<1> QED
  BY <1>1 DEF Zero, ZeroMap, IsPresent

\* An entry that a walk passes is above level 1.
LEMMA DescendsAbove1 ==
  ASSUME NEW l \in Levels, NEW e \in Entry, Descends(l, e)
  PROVE  l > 1 /\ l - 1 \in Levels /\ IsPresent(e)
BY HptwAssumption DEF Descends, IsPage, Levels

\* shv_ept_gzp finds a page that is free when there is one.
LEMMA FirstFreeIsFree ==
  ASSUME Free # {}
  PROVE  FirstFree \in Pool /\ FirstFree \notin page_alloc
<1>1. Free \subseteq Nat
  BY HptwAssumption DEF Free, Pool
<1> DEFINE R == {ss \in Nat \X Nat : ss[1] < ss[2]}
<1>2. IsWellFoundedOn(R, Nat)
  BY NatLessThanWellFounded, Zenon DEF OpToRel
<1>3. PICK m \in Free : \A k \in Free : ~(<<k, m>> \in R)
  <2> HIDE DEF R
  <2> QED
    BY <1>1, <1>2, WFMin
<1>4. \A k \in Free : m <= k
  <2>1. SUFFICES ASSUME NEW k \in Free, ~(m <= k)
                 PROVE  FALSE
    OBVIOUS
  <2>2. k \in Nat /\ m \in Nat /\ k < m
    BY <1>1, <2>1
  <2>3. <<k, m>> \in Nat \X Nat /\ <<k, m>>[1] < <<k, m>>[2]
    BY <2>2
  <2>4. <<k, m>> \in R
    BY <2>3, Zenon
  <2> QED
    BY <1>3, <2>4
<1>5. FirstFree \in Free
  BY <1>4 DEF FirstFree
<1> QED
  BY <1>5 DEF Free

LEMMA TableEntryFacts ==
  ASSUME NEW m \in Maps
  PROVE  TableEntry(m) \in Entry /\ TableEntry(m).to = m
BY DEF TableEntry, Entry, HPT_PROTS_RWX, Access

LEMMA BaseFacts ==
  ASSUME NEW l \in Levels, NEW va \in Va
  PROVE  /\ Base(l, va) \in Va
         /\ \A k \in Levels : k >= l => Base(l, va)[k] = va[k]
<1>1. 0 \in Index
  BY HptwAssumption DEF Index
<1> QED
  BY <1>1 DEF Base, Va, Index, Levels

\* The entries of a client lead to no page map.
LEMMA ClientEntriesFacts ==
  ASSUME NEW l \in Levels, NEW e \in ClientEntries(l)
  PROVE  e \in Entry /\ ~Descends(l, e)
<1>1. CASE e = Zero
  BY <1>1, ZeroFacts DEF Descends
<1>2. CASE e \in PageEntries(l)
  <2>1. e \in [ps : {l > 1}, prot : Prots, user : Users, to : Frames]
    BY <1>2, Zenon DEF PageEntries
  <2>2. e.prot \in SUBSET Access /\ e.user \in BOOLEAN /\ e.to \in Frames
    BY <2>1, HptwAssumption DEF Users
  <2>3. CASE l > 1
    <3>1. e \in [ps : {TRUE}, prot : Prots, user : Users, to : Frames]
      <4>1. (l > 1) = TRUE
        BY <2>3
      <4> QED
        BY <2>1, <4>1
    <3>2. e.ps = TRUE
      BY <3>1
    <3>3. e \in Entry
      BY <3>1, <2>2 DEF Entry
    <3> QED
      BY <3>2, <3>3 DEF Descends, IsPage
  <2>4. CASE l = 1
    <3>1. e \in [ps : {FALSE}, prot : Prots, user : Users, to : Frames]
      <4>1. (l > 1) = FALSE
        BY <2>4
      <4> QED
        BY <2>1, <4>1
    <3>2. e \in Entry
      BY <3>1, <2>2 DEF Entry
    <3> QED
      BY <2>4, <3>2 DEF Descends, IsPage
  <2> QED
    BY <2>3, <2>4, HptwAssumption DEF Levels
<1> QED
  BY <1>1, <1>2 DEF ClientEntries

LEMMA RootFacts ==
  /\ RootPmo \in [pm : Maps, lvl : Levels]
  /\ NoReq \in Requests
  /\ MaxLvl \in Levels
<1>1. MaxLvl \in Levels /\ 1 \in Levels /\ 0 \in Maps /\ 0 \in Index
  BY HptwAssumption DEF Levels, Maps, Index
<1>2. RootPmo \in [pm : Maps, lvl : Levels]
  BY <1>1 DEF RootPmo
<1>3. NoReq \in Requests
  BY <1>1, ZeroFacts DEF NoReq, Requests, Ops, Va
<1> QED
  BY <1>1, <1>2, <1>3

----------------------------------------------------------------------------

LEMMA InitIInv ==
  ASSUME Init
  PROVE  IInv
<1>1. /\ MaxLvl \in Levels /\ 0 \in Maps /\ 0 \in Index
      /\ [l \in Levels |-> 0] \in Va
  BY HptwAssumption DEF Levels, Maps, Index, Va
<1>2. TypeOK
  BY <1>1, ZeroFacts, RootFacts DEF Init, TypeOK
<1>3. RootHome
  BY <1>1 DEF Init, RootHome
<1>4. \A m \in Maps, i \in Index : pm[m][i] = Zero
  BY ZeroFacts DEF Init
<1>5. InUse \subseteq Maps
  BY <1>1 DEF Init, InUse
<1>6. PathsMatch /\ OneParent
  BY <1>4, <1>5, ZeroFacts DEF PathsMatch, OneParent, Descends
<1>7. PoolZero
  BY DEF Init, PoolZero, Pool, Maps
<1> QED
  BY <1>2, <1>3, <1>6, <1>7 DEF IInv, Init, CursorRight, RequestIsLeaf

----------------------------------------------------------------------------

LEMMA PoolInMaps == Pool \subseteq Maps /\ 0 \in Maps /\ 0 \notin Pool
BY HptwAssumption DEF Pool, Maps

LEMMA PathsMatchAt ==
  ASSUME PathsMatch, NEW m \in InUse, NEW i \in Index,
         Descends(home[m].lvl, pm[m][i])
  PROVE  /\ pm[m][i].to \in page_alloc
         /\ home[pm[m][i].to].lvl = home[m].lvl - 1
         /\ Agree(home[m].lvl, home[pm[m][i].to].va, home[m].va)
         /\ home[pm[m][i].to].va[home[m].lvl] = i
BY Zenon DEF PathsMatch

\* What a walk under way looks at.
LEMMA CurFacts ==
  ASSUME TypeOK
  PROVE  /\ pmo.pm \in Maps /\ pmo.lvl \in Levels
         /\ req.op \in Ops /\ req.va \in Va /\ req.lvl \in Levels /\ req.pme \in Entry
         /\ req.va[pmo.lvl] \in Index
         /\ Cur \in Entry
         /\ InUse \subseteq Maps
<1>1. pmo.pm \in Maps /\ pmo.lvl \in Levels
  BY DEF TypeOK
<1>2. req.op \in Ops /\ req.va \in Va /\ req.lvl \in Levels /\ req.pme \in Entry
  BY DEF TypeOK, Requests
<1>3. req.va[pmo.lvl] \in Index
  BY <1>1, <1>2 DEF Va
<1>4. Cur \in Entry
  BY <1>1, <1>3 DEF TypeOK, Cur
<1>5. InUse \subseteq Maps
  BY HptwAssumption DEF TypeOK, InUse, Maps, Pool
<1> QED
  BY <1>1, <1>2, <1>3, <1>4, <1>5

\* A step that writes to no page map keeps what they are like.
LEMMA NoWrite ==
  ASSUME RootHome, PathsMatch, OneParent, PoolZero,
         UNCHANGED <<pm, page_alloc, home>>
  PROVE  RootHome' /\ PathsMatch' /\ OneParent' /\ PoolZero'
BY DEF RootHome, PathsMatch, OneParent, PoolZero, InUse

\* A call that returns leaves no walk behind.
LEMMA ReturnFacts ==
  ASSUME TypeOK, NEW e \in {0, 1}, Return(e)
  PROVE  /\ pc' = "idle" /\ err' = e
         /\ req' \in Requests
         /\ pmo' \in [pm : Maps, lvl : Levels]
         /\ CursorRight' /\ RequestIsLeaf'
BY RootFacts DEF Return, CursorRight, RequestIsLeaf

LEMMA BeginIInv ==
  ASSUME IInv, NEW r \in Requests, Begin(r),
         r.lvl = 1 \/ (r.op # "set_prot" /\ ~Descends(r.lvl, r.pme))
  PROVE  IInv'
<1>1. RootHome' /\ PathsMatch' /\ OneParent' /\ PoolZero'
  BY NoWrite DEF IInv, Begin
<1>2. TypeOK'
  BY RootFacts DEF IInv, TypeOK, Begin
<1>3. CursorRight'
  <2>1. /\ pmo' = RootPmo /\ req' = r /\ home' = home /\ page_alloc' = page_alloc
        /\ r.lvl \in Levels
    BY DEF Begin, Requests
  <2>2. pmo'.pm = 0 /\ pmo'.lvl = MaxLvl
    BY <2>1 DEF RootPmo
  <2>3. Agree(pmo'.lvl, home'[pmo'.pm].va, req'.va)
    BY <2>2, HptwAssumption DEF Agree, Levels
  <2> QED
    BY <2>1, <2>2, <2>3, HptwAssumption DEF CursorRight, InUse, IInv, RootHome, Levels
<1>4. RequestIsLeaf'
  BY DEF RequestIsLeaf, Begin
<1> QED
  BY <1>1, <1>2, <1>3, <1>4 DEF IInv

LEMMA CallsIInv ==
  ASSUME IInv, Calls
  PROVE  IInv'
<1>1. PICK va \in Va :
        \/ \E op \in {"insert_alloc", "insert"}, l \in Levels :
             \E e \in ClientEntries(l) :
               Begin([op |-> op, va |-> va, lvl |-> l, pme |-> e])
        \/ \E prot \in Prots :
             Begin([op |-> "set_prot", va |-> va, lvl |-> 1,
                    pme |-> [Zero EXCEPT !.prot = prot]])
  BY Zenon DEF Calls
<1>2. ASSUME NEW op \in {"insert_alloc", "insert"}, NEW l \in Levels,
             NEW e \in ClientEntries(l),
             Begin([op |-> op, va |-> va, lvl |-> l, pme |-> e])
      PROVE  IInv'
  <2> DEFINE r == [op |-> op, va |-> va, lvl |-> l, pme |-> e]
  <2>1. r \in Requests /\ r.op # "set_prot" /\ ~Descends(r.lvl, r.pme)
    BY <1>2, ClientEntriesFacts DEF Requests, Ops
  <2>2. Begin(r)
    BY <1>2
  <2> HIDE DEF r
  <2> QED
    BY <2>1, <2>2, BeginIInv
<1>3. ASSUME NEW prot \in Prots,
             Begin([op |-> "set_prot", va |-> va, lvl |-> 1,
                    pme |-> [Zero EXCEPT !.prot = prot]])
      PROVE  IInv'
  <2> DEFINE e == [Zero EXCEPT !.prot = prot]
             r == [op |-> "set_prot", va |-> va, lvl |-> 1, pme |-> e]
  <2>1. e \in Entry
    BY <1>3, ZeroFacts, HptwAssumption DEF Entry
  <2>2. 1 \in Levels
    BY HptwAssumption DEF Levels
  <2>3. r \in Requests /\ r.lvl = 1
    <3> HIDE DEF e
    <3> QED
      BY <2>1, <2>2 DEF Requests, Ops
  <2>4. Begin(r)
    BY <1>3
  <2> HIDE DEF r
  <2> QED
    BY <2>3, <2>4, BeginIInv
<1> QED
  BY <1>1, <1>2, <1>3

----------------------------------------------------------------------------

LEMMA NextLvlIInv ==
  ASSUME IInv, NextLvl
  PROVE  IInv'
<1> DEFINE l == pmo.lvl
           m == pmo.pm
           i == req.va[l]
           c == Cur.to
<1>1. /\ m \in Maps /\ l \in Levels /\ i \in Index /\ Cur \in Entry
      /\ InUse \subseteq Maps /\ req.va \in Va /\ req.lvl \in Levels
  BY CurFacts DEF IInv
<1>2. /\ pc = "walk" /\ l > req.lvl /\ Descends(l, Cur)
      /\ pmo' = [pm |-> c, lvl |-> l - 1]
      /\ UNCHANGED <<pm, page_alloc, home, pc, req, err>>
  BY DEF NextLvl
<1>3. m \in InUse /\ home[m].lvl = l /\ Agree(l, home[m].va, req.va)
  BY <1>2 DEF IInv, CursorRight
<1>4. /\ c \in page_alloc
      /\ home[c].lvl = l - 1
      /\ Agree(l, home[c].va, home[m].va)
      /\ home[c].va[l] = i
  <2>1. Cur = pm[m][i] /\ Descends(home[m].lvl, pm[m][i])
    BY <1>2, <1>3 DEF Cur
  <2>2. PathsMatch
    BY DEF IInv
  <2> HIDE DEF m, i, l
  <2> QED
    BY <1>1, <1>3, <2>1, <2>2, PathsMatchAt
<1>5. l - 1 \in Levels
  BY <1>1, <1>2, DescendsAbove1
<1>6. c \in Maps
  <2>1. page_alloc \subseteq Pool
    BY DEF IInv, TypeOK
  <2> QED
    BY <1>4, <2>1, PoolInMaps
<1>7. TypeOK'
  BY <1>2, <1>5, <1>6 DEF IInv, TypeOK
<1>8. RootHome' /\ PathsMatch' /\ OneParent' /\ PoolZero'
  BY <1>2, NoWrite DEF IInv
<1>9. CursorRight'
  <2>1. \A k \in Levels : k > l - 1 => home[c].va[k] = req.va[k]
    <3> SUFFICES ASSUME NEW k \in Levels, k > l - 1
                 PROVE  home[c].va[k] = req.va[k]
      OBVIOUS
    <3>1. CASE k = l
      BY <1>4, <3>1
    <3>2. CASE k > l
      BY <1>3, <1>4, <3>2 DEF Agree
    <3> QED
      BY <1>1, <3>1, <3>2 DEF Levels
  <2>2. pmo'.pm = c /\ pmo'.lvl = l - 1
    BY <1>2
  <2>3. l - 1 >= req.lvl
    BY <1>1, <1>2 DEF Levels
  <2> HIDE DEF c, l
  <2> QED
    BY <1>2, <1>4, <2>1, <2>2, <2>3 DEF CursorRight, InUse, Agree
<1>10. RequestIsLeaf'
  BY <1>2 DEF IInv, RequestIsLeaf
<1> QED
  BY <1>7, <1>8, <1>9, <1>10 DEF IInv

LEMMA AllocFailsIInv ==
  ASSUME IInv, AllocFails
  PROVE  IInv'
<1>1. Return(1) /\ UNCHANGED <<pm, page_alloc, home>>
  BY DEF AllocFails
<1>2. TypeOK'
  BY <1>1, ReturnFacts DEF IInv, TypeOK
<1>3. RootHome' /\ PathsMatch' /\ OneParent' /\ PoolZero'
  BY <1>1, NoWrite DEF IInv
<1> QED
  BY <1>1, <1>2, <1>3, ReturnFacts DEF IInv

LEMMA WalkFailsIInv ==
  ASSUME IInv, WalkFails
  PROVE  IInv'
<1>1. UNCHANGED <<pm, page_alloc, home>>
  BY DEF WalkFails
<1>2. RootHome' /\ PathsMatch' /\ OneParent' /\ PoolZero'
  BY <1>1, NoWrite DEF IInv
<1>3. CASE Return(1)
  <2>1. TypeOK'
    BY <1>1, <1>3, ReturnFacts DEF IInv, TypeOK
  <2> QED
    BY <1>2, <1>3, <2>1, ReturnFacts DEF IInv
<1>4. CASE pc' = "halted" /\ UNCHANGED <<req, pmo, err>>
  <2>1. TypeOK'
    BY <1>1, <1>4 DEF IInv, TypeOK
  <2> QED
    BY <1>2, <1>4, <2>1 DEF IInv, CursorRight, RequestIsLeaf
<1> QED
  BY <1>3, <1>4 DEF WalkFails

----------------------------------------------------------------------------

\* hpt_pmo_set_pme_by_va writes one entry.
LEMMA OneEntry ==
  ASSUME NEW p \in [Maps -> [Index -> Entry]], NEW m \in Maps, NEW i \in Index,
         NEW e \in Entry, NEW q, q = [p EXCEPT ![m][i] = e]
  PROVE  /\ q \in [Maps -> [Index -> Entry]]
         /\ q[m][i] = e
         /\ \A n \in Maps, j \in Index : n # m \/ j # i => q[n][j] = p[n][j]
         /\ \A n \in Maps : n # m => q[n] = p[n]
OBVIOUS

LEMMA AllocLvlIInv ==
  ASSUME IInv, AllocLvl
  PROVE  IInv'
<1> DEFINE l == pmo.lvl
           m == pmo.pm
           i == req.va[l]
           c == FirstFree
           h == [lvl |-> l - 1, va |-> Base(l, req.va)]
<1>1. /\ m \in Maps /\ l \in Levels /\ i \in Index /\ Cur \in Entry
      /\ InUse \subseteq Maps /\ req.va \in Va /\ req.lvl \in Levels
  BY CurFacts DEF IInv
<1>2. /\ pc = "walk" /\ l > req.lvl /\ ~IsPresent(Cur) /\ Free # {}
      /\ page_alloc' = page_alloc \cup {c}
      /\ pm' = [pm EXCEPT ![m][i] = TableEntry(c)]
      /\ home' = [home EXCEPT ![c] = h]
      /\ pmo' = [pm |-> c, lvl |-> l - 1]
      /\ UNCHANGED <<pc, req, err>>
  BY DEF AllocLvl
<1>3. c \in Pool /\ c \notin page_alloc /\ c \in Maps /\ c # 0 /\ c \notin InUse
  BY <1>2, FirstFreeIsFree, PoolInMaps DEF InUse
<1>4. m \in InUse /\ home[m].lvl = l /\ Agree(l, home[m].va, req.va) /\ m # c
  BY <1>2, <1>3 DEF IInv, CursorRight
<1>5. l - 1 \in Levels /\ l - 1 >= req.lvl
  BY <1>1, <1>2, HptwAssumption DEF Levels
<1>6. /\ h \in [lvl : Levels, va : Va]
      /\ \A k \in Levels : k >= l => h.va[k] = req.va[k]
  BY <1>1, <1>5, BaseFacts
<1>7. /\ pm \in [Maps -> [Index -> Entry]]
      /\ home \in [Maps -> [lvl : Levels, va : Va]]
      /\ page_alloc \subseteq Pool
  BY DEF IInv, TypeOK
<1>8. /\ pm' \in [Maps -> [Index -> Entry]]
      /\ pm'[m][i] = TableEntry(c)
      /\ \A n \in Maps, j \in Index : n # m \/ j # i => pm'[n][j] = pm[n][j]
      /\ \A n \in Maps : n # m => pm'[n] = pm[n]
  <2> HIDE DEF m, i, c
  <2>1. TableEntry(c) \in Entry
    BY <1>3, TableEntryFacts
  <2> QED
    BY <1>1, <1>2, <1>7, <2>1, OneEntry
<1>9. /\ home' \in [Maps -> [lvl : Levels, va : Va]]
      /\ home'[c] = h
      /\ \A n \in Maps : n # c => home'[n] = home[n]
  <2> HIDE DEF c, h
  <2> QED
    BY <1>2, <1>3, <1>6, <1>7
<1>10. InUse' = InUse \cup {c}
  BY <1>2 DEF InUse
<1>11. TableEntry(c).to = c
  BY <1>3, TableEntryFacts
<1>12. \A j \in Index : ~Descends(home'[c].lvl, pm'[c][j])
  <2>1. pm[c] = ZeroMap
    BY <1>3 DEF IInv, PoolZero
  <2>2. pm'[c] = ZeroMap
    BY <1>3, <1>4, <1>8, <2>1
  <2> QED
    BY <2>2, ZeroFacts DEF Descends
<1>13. ~Descends(l, Cur)
  BY <1>2 DEF Descends
<1> HIDE DEF l, m, i, c, h
<1>14. TypeOK'
  <2>1. pmo' \in [pm : Maps, lvl : Levels]
    BY <1>2, <1>3, <1>5
  <2>2. page_alloc' \in SUBSET Pool
    BY <1>2, <1>3, <1>7
  <2> QED
    BY <1>2, <1>8, <1>9, <2>1, <2>2 DEF IInv, TypeOK
<1>15. RootHome'
  BY <1>3, <1>9, PoolInMaps DEF IInv, RootHome
\* The entries through which walks go are the old ones and the new one.
<1>16. ASSUME NEW n \in InUse', NEW j \in Index, Descends(home'[n].lvl, pm'[n][j])
       PROVE  \/ n = m /\ j = i /\ pm'[n][j].to = c
              \/ /\ n \in InUse /\ n # c
                 /\ pm'[n][j] = pm[n][j] /\ home'[n] = home[n]
                 /\ Descends(home[n].lvl, pm[n][j])
                 /\ pm[n][j].to \in page_alloc
  <2>1. n \in InUse /\ n # c /\ n \in Maps
    BY <1>1, <1>3, <1>10, <1>12, <1>16
  <2>2. home'[n] = home[n]
    BY <1>9, <2>1
  <2>3. CASE n = m /\ j = i
    BY <1>8, <1>11, <2>3
  <2>4. CASE n # m \/ j # i
    <3>1. pm'[n][j] = pm[n][j]
      BY <1>8, <2>1, <2>4
    <3>2. Descends(home[n].lvl, pm[n][j])
      BY <1>16, <2>2, <3>1
    <3>3. pm[n][j].to \in page_alloc
      BY <2>1, <3>2, PathsMatchAt DEF IInv
    <3> QED
      BY <2>1, <2>2, <3>1, <3>2, <3>3
  <2> QED
    BY <2>3, <2>4
<1>17. PathsMatch'
  <2> SUFFICES ASSUME NEW n \in InUse', NEW j \in Index,
                      Descends(home'[n].lvl, pm'[n][j])
               PROVE  /\ pm'[n][j].to \in page_alloc'
                      /\ home'[pm'[n][j].to].lvl = home'[n].lvl - 1
                      /\ Agree(home'[n].lvl, home'[pm'[n][j].to].va, home'[n].va)
                      /\ home'[pm'[n][j].to].va[home'[n].lvl] = j
    BY Zenon DEF PathsMatch
  <2>1. CASE n = m /\ j = i /\ pm'[n][j].to = c
    <3>1. home'[n] = home[m] /\ home[m].lvl = l
      BY <1>1, <1>4, <1>9, <2>1
    <3>2. home'[c].lvl = l - 1 /\ home'[c].va[l] = i
      BY <1>1, <1>6, <1>9 DEF h, i, Levels
    <3>3. Agree(l, home'[c].va, home[m].va)
      BY <1>1, <1>4, <1>6, <1>9 DEF Agree, Levels
    <3> QED
      BY <1>2, <2>1, <3>1, <3>2, <3>3
  <2>2. CASE /\ n \in InUse /\ n # c
             /\ pm'[n][j] = pm[n][j] /\ home'[n] = home[n]
             /\ Descends(home[n].lvl, pm[n][j])
             /\ pm[n][j].to \in page_alloc
    <3> DEFINE d == pm[n][j].to
    <3>1. /\ home[d].lvl = home[n].lvl - 1
          /\ Agree(home[n].lvl, home[d].va, home[n].va)
          /\ home[d].va[home[n].lvl] = j
      BY <2>2, PathsMatchAt DEF IInv
    <3>2. home'[d] = home[d]
      BY <1>3, <1>7, <1>9, <2>2, PoolInMaps
    <3> QED
      BY <1>2, <2>2, <3>1, <3>2
  <2> QED
    BY <1>16, <2>1, <2>2
<1>18. OneParent'
  <2> SUFFICES ASSUME NEW n \in InUse', NEW o \in InUse', NEW j \in Index, NEW k \in Index,
                      Descends(home'[n].lvl, pm'[n][j]),
                      Descends(home'[o].lvl, pm'[o][k]),
                      pm'[n][j].to = pm'[o][k].to
               PROVE  n = o /\ j = k
    BY Zenon DEF OneParent
  <2>1. \/ n = m /\ j = i /\ pm'[n][j].to = c
        \/ /\ n \in InUse /\ pm'[n][j] = pm[n][j]
           /\ Descends(home[n].lvl, pm[n][j]) /\ pm[n][j].to \in page_alloc
    BY <1>16
  <2>2. \/ o = m /\ k = i /\ pm'[o][k].to = c
        \/ /\ o \in InUse /\ pm'[o][k] = pm[o][k]
           /\ Descends(home[o].lvl, pm[o][k]) /\ pm[o][k].to \in page_alloc
    BY <1>16
  <2> QED
    BY <1>3, <2>1, <2>2 DEF IInv, OneParent
<1>19. PoolZero'
  <2> SUFFICES ASSUME NEW n \in Pool \ page_alloc'
               PROVE  pm'[n] = ZeroMap
    BY DEF PoolZero
  <2>1. n \in Pool \ page_alloc /\ n \in Maps
    BY <1>2, PoolInMaps
  <2>2. n # m
    BY <1>4, <2>1, PoolInMaps DEF InUse
  <2> QED
    BY <1>8, <2>1, <2>2 DEF IInv, PoolZero
<1>20. CursorRight'
  <2>1. pmo'.pm = c /\ pmo'.lvl = l - 1 /\ c \in InUse' /\ req' = req
    BY <1>2, <1>10
  <2>2. home'[c].lvl = l - 1
    BY <1>9 DEF h
  <2>3. Agree(l - 1, home'[c].va, req.va)
    BY <1>1, <1>6, <1>9 DEF Agree, Levels
  <2> QED
    BY <1>5, <2>1, <2>2, <2>3 DEF CursorRight
<1>21. RequestIsLeaf'
  BY <1>2 DEF IInv, RequestIsLeaf
<1> QED
  BY <1>14, <1>15, <1>17, <1>18, <1>19, <1>20, <1>21 DEF IInv

\* What SetPme writes, and where.
LEMMA SetPmeFacts ==
  ASSUME IInv, SetPme
  PROVE  /\ pmo.pm \in InUse /\ pmo.pm \in Maps /\ req.va[req.lvl] \in Index
         /\ home[pmo.pm].lvl = req.lvl /\ pmo.lvl = req.lvl
         /\ Agree(req.lvl, home[pmo.pm].va, req.va)
         /\ pm' = [pm EXCEPT ![pmo.pm][req.va[req.lvl]] = NewEntry]
         /\ NewEntry \in Entry
         /\ ~Descends(req.lvl, NewEntry)
         /\ Return(0) /\ UNCHANGED <<page_alloc, home>>
<1>1. /\ pmo.pm \in Maps /\ pmo.lvl \in Levels /\ req.va[pmo.lvl] \in Index
      /\ Cur \in Entry /\ req.pme \in Entry /\ req.lvl \in Levels
  BY CurFacts DEF IInv
<1>2. /\ pc = "walk" /\ pmo.lvl = req.lvl
      /\ pm' = [pm EXCEPT ![pmo.pm][req.va[req.lvl]] = NewEntry]
      /\ Return(0) /\ UNCHANGED <<page_alloc, home>>
  BY DEF SetPme
<1>3. /\ pmo.pm \in InUse /\ home[pmo.pm].lvl = req.lvl
      /\ Agree(req.lvl, home[pmo.pm].va, req.va)
  BY <1>2 DEF IInv, CursorRight
<1>4. NewEntry \in Entry
  <2>1. req.pme.prot \in SUBSET Access
    BY <1>1 DEF Entry
  <2>2. [Cur EXCEPT !.prot = req.pme.prot] \in Entry
    BY <1>1, <2>1 DEF Entry
  <2> QED
    BY <1>1, <2>2 DEF NewEntry
<1>5. ~Descends(req.lvl, NewEntry)
  <2>1. CASE req.lvl = 1
    BY <2>1 DEF Descends, IsPage
  <2>2. CASE req.op # "set_prot" /\ ~Descends(req.lvl, req.pme)
    BY <2>2 DEF NewEntry
  <2> QED
    BY <1>2, <2>1, <2>2 DEF IInv, RequestIsLeaf
<1> QED
  BY <1>1, <1>2, <1>3, <1>4, <1>5

LEMMA SetPmeIInv ==
  ASSUME IInv, SetPme
  PROVE  IInv'
<1> DEFINE l == req.lvl
           m == pmo.pm
           i == req.va[l]
           e == NewEntry
<1>1. /\ m \in InUse /\ m \in Maps /\ i \in Index /\ home[m].lvl = l
      /\ pm' = [pm EXCEPT ![m][i] = e]
      /\ e \in Entry /\ ~Descends(l, e)
      /\ Return(0) /\ UNCHANGED <<page_alloc, home>>
  BY SetPmeFacts
<1>2. /\ pm \in [Maps -> [Index -> Entry]] /\ TypeOK
  BY DEF IInv, TypeOK
<1>3. InUse \subseteq Maps /\ InUse' = InUse
  BY <1>1, <1>2, CurFacts DEF InUse
<1> HIDE DEF l, m, i, e
<1>4. /\ pm' \in [Maps -> [Index -> Entry]]
      /\ pm'[m][i] = e
      /\ \A n \in Maps, j \in Index : n # m \/ j # i => pm'[n][j] = pm[n][j]
      /\ \A n \in Maps : n # m => pm'[n] = pm[n]
  BY <1>1, <1>2, OneEntry
<1>5. TypeOK'
  BY <1>1, <1>2, <1>4, ReturnFacts DEF TypeOK
<1>6. RootHome'
  BY <1>1 DEF IInv, RootHome
\* The entries through which walks go are old ones.
<1>7. ASSUME NEW n \in InUse', NEW j \in Index, Descends(home'[n].lvl, pm'[n][j])
      PROVE  n \in InUse /\ pm'[n][j] = pm[n][j] /\ Descends(home[n].lvl, pm[n][j])
  <2>1. n \in InUse /\ n \in Maps /\ home' = home
    BY <1>1, <1>3
  <2>2. n # m \/ j # i
    BY <1>1, <1>4, <1>7, <2>1
  <2> QED
    BY <1>4, <1>7, <2>1, <2>2
<1>8. PathsMatch'
  <2> SUFFICES ASSUME NEW n \in InUse', NEW j \in Index,
                      Descends(home'[n].lvl, pm'[n][j])
               PROVE  /\ pm'[n][j].to \in page_alloc'
                      /\ home'[pm'[n][j].to].lvl = home'[n].lvl - 1
                      /\ Agree(home'[n].lvl, home'[pm'[n][j].to].va, home'[n].va)
                      /\ home'[pm'[n][j].to].va[home'[n].lvl] = j
    BY Zenon DEF PathsMatch
  <2>1. n \in InUse /\ pm'[n][j] = pm[n][j] /\ Descends(home[n].lvl, pm[n][j])
    BY <1>7
  <2>2. home' = home /\ page_alloc' = page_alloc
    BY <1>1
  <2> QED
    BY <2>1, <2>2, PathsMatchAt DEF IInv
<1>9. OneParent'
  <2> SUFFICES ASSUME NEW n \in InUse', NEW o \in InUse', NEW j \in Index, NEW k \in Index,
                      Descends(home'[n].lvl, pm'[n][j]),
                      Descends(home'[o].lvl, pm'[o][k]),
                      pm'[n][j].to = pm'[o][k].to
               PROVE  n = o /\ j = k
    BY Zenon DEF OneParent
  <2> QED
    BY <1>7 DEF IInv, OneParent
<1>10. PoolZero'
  <2> SUFFICES ASSUME NEW n \in Pool \ page_alloc'
               PROVE  pm'[n] = ZeroMap
    BY DEF PoolZero
  <2>1. n \in Pool \ page_alloc /\ n \in Maps /\ n # m
    BY <1>1, PoolInMaps DEF InUse
  <2> QED
    BY <1>4, <2>1 DEF IInv, PoolZero
<1> QED
  BY <1>1, <1>2, <1>5, <1>6, <1>8, <1>9, <1>10, ReturnFacts DEF IInv

----------------------------------------------------------------------------

LEMMA NextIInv ==
  ASSUME IInv, [Next]_vars
  PROVE  IInv'
<1>1. CASE Calls
  BY <1>1, CallsIInv
<1>2. CASE NextLvl
  BY <1>2, NextLvlIInv
<1>3. CASE AllocLvl
  BY <1>3, AllocLvlIInv
<1>4. CASE AllocFails
  BY <1>4, AllocFailsIInv
<1>5. CASE WalkFails
  BY <1>5, WalkFailsIInv
<1>6. CASE SetPme
  BY <1>6, SetPmeIInv
<1>7. CASE UNCHANGED vars
  <2>1. RootHome' /\ PathsMatch' /\ OneParent' /\ PoolZero'
    BY <1>7, NoWrite DEF IInv, vars
  <2> QED
    BY <1>7, <2>1 DEF IInv, vars, TypeOK, CursorRight, RequestIsLeaf, InUse
<1> QED
  BY <1>1, <1>2, <1>3, <1>4, <1>5, <1>6, <1>7 DEF Next, Walk

LEMMA Inductive == Spec => []IInv
<1>1. Init => IInv
  BY InitIInv
<1>2. IInv /\ [Next]_vars => IInv'
  BY NextIInv
<1> QED
  BY <1>1, <1>2, PTL DEF Spec

\* The walker's variables keep their types.
THEOREM Typed == Spec => []TypeOK
<1>1. IInv => TypeOK
  BY DEF IInv
<1> QED
  BY <1>1, Inductive, PTL

\* The walker is right for every number of levels, fanout and size of the pool:
\* page maps form a tree, the pages left in the pool are zero (shv_ept_gzp), and
\* a walk is at a page map on the path of its address, of the level it believes.
THEOREM WalkerStaysRight == Spec => []WalkerRight
<1>1. IInv => WalkerRight
  BY DEF IInv, WalkerRight, Tree
<1> QED
  BY <1>1, Inductive, PTL

\* A step writes the entry that the call is for, or links an empty page map
\* where nothing was present.
THEOREM OnlyTheEntryChanges == Spec => EntriesKept
<1> DEFINE A == \A m \in Maps, i \in Index :
                  pm'[m][i] # pm[m][i] =>
                    \/ /\ ~IsPresent(pm[m][i])
                       /\ pm'[m][i].to \in page_alloc' \ page_alloc
                       /\ pm'[pm'[m][i].to] = ZeroMap
                    \/ /\ home[m].lvl = req.lvl
                       /\ Agree(req.lvl, home[m].va, req.va)
                       /\ i = req.va[req.lvl]
                       /\ err' = 0
<1>1. ASSUME IInv, [Next]_vars
      PROVE  [A]_vars
  <2> SUFFICES ASSUME NEW m \in Maps, NEW i \in Index, pm'[m][i] # pm[m][i]
               PROVE  \/ /\ ~IsPresent(pm[m][i])
                         /\ pm'[m][i].to \in page_alloc' \ page_alloc
                         /\ pm'[pm'[m][i].to] = ZeroMap
                      \/ /\ home[m].lvl = req.lvl
                         /\ Agree(req.lvl, home[m].va, req.va)
                         /\ i = req.va[req.lvl]
                         /\ err' = 0
    OBVIOUS
  <2>1. pm \in [Maps -> [Index -> Entry]] /\ TypeOK
    BY <1>1 DEF IInv, TypeOK
  <2>2. pm' # pm
    OBVIOUS
  <2>3. CASE AllocLvl
    <3> DEFINE n == pmo.pm
               j == req.va[pmo.lvl]
               c == FirstFree
    <3>1. /\ n \in Maps /\ j \in Index /\ c \in Maps /\ c \notin page_alloc
          /\ c \in Pool
      BY <2>1, <2>3, CurFacts, FirstFreeIsFree, PoolInMaps DEF AllocLvl
    <3>2. /\ pm' = [pm EXCEPT ![n][j] = TableEntry(c)]
          /\ ~IsPresent(pm[n][j]) /\ page_alloc' = page_alloc \cup {c}
          /\ pc = "walk"
      BY <2>3 DEF AllocLvl, Cur
    <3>3. n # c
      BY <1>1, <3>1, <3>2, PoolInMaps DEF IInv, CursorRight, InUse
    <3>4. pm[c] = ZeroMap
      BY <1>1, <3>1 DEF IInv, PoolZero
    <3>5. TableEntry(c) \in Entry /\ TableEntry(c).to = c
      BY <3>1, TableEntryFacts
    <3> HIDE DEF n, j, c
    <3>6. /\ pm'[n][j] = TableEntry(c)
          /\ \A o \in Maps, k \in Index : o # n \/ k # j => pm'[o][k] = pm[o][k]
          /\ \A o \in Maps : o # n => pm'[o] = pm[o]
      BY <2>1, <3>1, <3>2, <3>5, OneEntry
    <3>7. m = n /\ i = j
      BY <3>6
    <3> QED
      BY <3>1, <3>2, <3>3, <3>4, <3>5, <3>6, <3>7
  <2>4. CASE SetPme
    <3> DEFINE n == pmo.pm
               j == req.va[req.lvl]
    <3>1. /\ n \in Maps /\ j \in Index /\ home[n].lvl = req.lvl
          /\ Agree(req.lvl, home[n].va, req.va)
          /\ pm' = [pm EXCEPT ![n][j] = NewEntry]
          /\ NewEntry \in Entry /\ Return(0)
      BY <1>1, <2>4, SetPmeFacts
    <3>2. err' = 0
      BY <3>1 DEF Return
    <3>3. m = n /\ i = j
      <4> HIDE DEF n, j
      <4> QED
        BY <2>1, <3>1, OneEntry
    <3> QED
      BY <3>1, <3>2, <3>3
  <2>5. AllocLvl \/ SetPme
    BY <1>1, <2>2 DEF Next, Walk, Calls, Begin, NextLvl, AllocFails, WalkFails, vars
  <2> QED
    BY <2>3, <2>4, <2>5
<1>2. [][A]_vars => EntriesKept
  BY DEF EntriesKept
<1> QED
  BY <1>1, <1>2, Inductive, PTL DEF Spec

----------------------------------------------------------------------------
(* The refinement of PageMap. What the walk of an address sees is a path of  *)
(* page maps. A call that stores an entry changes the paths of the addresses *)
(* it is for and of no others, because page maps form a tree.                *)

\* An entry for a page map allows everything (TableEntry), so that the
\* protection of a page is the one of its own entry.
AllowsAll(e) == e.prot = HPT_PROTS_RWX /\ e.user = TRUE

\* In the page maps q the walk of va comes down to level k, to the page map
\* p[l] at each level l on the way.
Path(q, va, k, p) ==
  /\ p \in [k..MaxLvl -> Maps]
  /\ p[MaxLvl] = 0
  /\ \A l \in (k + 1)..MaxLvl :
       LET e == q[p[l]][va[l]]
       IN Descends(l, e) /\ AllowsAll(e) /\ e.to = p[l - 1]

\* Every entry for a page map is one that the walker wrote.
TablesAllow ==
  \A m \in InUse, i \in Index :
    Descends(home[m].lvl, pm[m][i]) => AllowsAll(pm[m][i])

\* The walk of a call that is under way has come down such a path.
CursorPath ==
  pc = "walk" =>
    \E p \in [pmo.lvl..MaxLvl -> Maps] :
      Path(pm, req.va, pmo.lvl, p) /\ p[pmo.lvl] = pmo.pm

RInv == IInv /\ TablesAllow /\ CursorPath

----------------------------------------------------------------------------
(* Induction over the levels, from the root downwards. *)

\* What holds at the root, and at the next level wherever it holds, holds down
\* to level k.
LEMMA DownInduction ==
  ASSUME NEW k \in Levels, NEW S, MaxLvl \in S,
         \A l \in (k + 1)..MaxLvl : l \in S => l - 1 \in S
  PROVE  \A l \in k..MaxLvl : l \in S
<1> USE HptwAssumption DEF Levels
<1> DEFINE T == {n \in 0..(MaxLvl - k) : MaxLvl - n \notin S}
<1>1. T = {}
  <2> SUFFICES ASSUME T # {} PROVE FALSE
    OBVIOUS
  <2> DEFINE R == {ss \in Nat \X Nat : ss[1] < ss[2]}
  <2>1. IsWellFoundedOn(R, Nat)
    BY NatLessThanWellFounded, Zenon DEF OpToRel
  <2>2. T \subseteq Nat
    OBVIOUS
  <2>3. PICK n \in T : \A j \in T : ~(<<j, n>> \in R)
    <3> HIDE DEF R, T
    <3> QED
      BY <2>1, <2>2, WFMin
  <2>4. n # 0 /\ n \in Nat /\ n <= MaxLvl - k /\ MaxLvl - n \notin S
    <3>1. n \in 0..(MaxLvl - k) /\ MaxLvl - n \notin S
      BY <2>3
    <3>2. n # 0
      <4> SUFFICES ASSUME n = 0 PROVE FALSE
        OBVIOUS
      <4>1. MaxLvl - n = MaxLvl
        OBVIOUS
      <4> QED
        BY <3>1, <4>1
    <3> QED
      BY <3>1, <3>2
  <2>5. n - 1 \notin T
    <3>1. <<n - 1, n>> \in R
      BY <2>4
    <3> QED
      BY <2>3, <3>1
  <2>6. MaxLvl - (n - 1) \in S /\ MaxLvl - (n - 1) \in (k + 1)..MaxLvl
    BY <2>4, <2>5
  <2>7. (MaxLvl - (n - 1)) - 1 \in S
    BY <2>6
  <2>8. (MaxLvl - (n - 1)) - 1 = MaxLvl - n
    BY <2>4
  <2> QED
    BY <2>4, <2>7, <2>8
<1> QED
  <2> SUFFICES ASSUME NEW l \in k..MaxLvl PROVE l \in S
    OBVIOUS
  <2>1. MaxLvl - l \in 0..(MaxLvl - k) /\ MaxLvl - (MaxLvl - l) = l
    OBVIOUS
  <2> QED
    BY <1>1, <2>1

----------------------------------------------------------------------------
(* The recursive function of Walked. *)

EndBody(q, va, g, l) ==
  IF l = MaxLvl
  THEN LET e == q[0][va[l]]
       IN [lvl |-> l, pme |-> e, prot |-> e.prot, user |-> e.user]
  ELSE LET up == g[l + 1]
           e == q[up.pme.to][va[l]]
       IN IF up.lvl = l + 1 /\ Descends(up.lvl, up.pme)
          THEN [lvl |-> l, pme |-> e,
                prot |-> up.prot \cap e.prot, user |-> up.user /\ e.user]
          ELSE up
EndOf(q, va) == CHOOSE g : g = [l \in Levels |-> EndBody(q, va, g, l)]

\* Walked is the last level of the recursive function.
LEMMA WalkedIsEnd ==
  ASSUME NEW q, NEW va
  PROVE  Walked(q, va) = EndOf(q, va)[1]
BY DEF Walked, EndOf, EndBody

\* A level depends on the one above it only.
LEMMA EndBodyAbove ==
  ASSUME NEW q, NEW va, NEW g, NEW h, NEW l, l = MaxLvl \/ g[l + 1] = h[l + 1]
  PROVE  EndBody(q, va, g, l) = EndBody(q, va, h, l)
BY DEF EndBody

\* The function exists, so that it is what its definition says.
LEMMA EndIs ==
  ASSUME NEW q, NEW va
  PROVE  EndOf(q, va) = [l \in Levels |-> EndBody(q, va, EndOf(q, va), l)]
<1> USE HptwAssumption DEF Levels
<1> DEFINE Good(k, g) == g = [l \in k..MaxLvl |-> EndBody(q, va, g, l)]
<1> DEFINE S == {k \in Levels : \E g : Good(k, g)}
<1>1. MaxLvl \in S
  <2> DEFINE g == [l \in MaxLvl..MaxLvl |-> EndBody(q, va, << >>, l)]
  <2>1. \A l \in MaxLvl..MaxLvl : EndBody(q, va, g, l) = EndBody(q, va, << >>, l)
    <3> SUFFICES ASSUME NEW l \in MaxLvl..MaxLvl
                 PROVE  EndBody(q, va, g, l) = EndBody(q, va, << >>, l)
      OBVIOUS
    <3>1. l = MaxLvl
      OBVIOUS
    <3> QED
      BY <3>1, EndBodyAbove
  <2>2. Good(MaxLvl, g)
    BY <2>1, Zenon
  <2>3. MaxLvl \in Levels
    OBVIOUS
  <2> HIDE DEF g, Good
  <2> QED
    BY <2>2, <2>3, Zenon
<1>2. ASSUME NEW k \in 2..MaxLvl, k \in S PROVE k - 1 \in S
  <2>1. PICK g : Good(k, g)
    BY <1>2
  <2> DEFINE h == [l \in (k - 1)..MaxLvl |->
                     IF l = k - 1 THEN EndBody(q, va, g, l) ELSE g[l]]
  <2>2. \A l \in k..MaxLvl : h[l] = g[l] /\ l # k - 1 /\ l \in (k - 1)..MaxLvl
    <3>1. \A l \in k..MaxLvl : l # k - 1 /\ l \in (k - 1)..MaxLvl
      OBVIOUS
    <3> QED
      BY <3>1, Zenon
  <2>3. \A l \in (k - 1)..MaxLvl : l = MaxLvl \/ h[l + 1] = g[l + 1]
    <3> HIDE DEF h
    <3>1. \A l \in (k - 1)..MaxLvl : l = MaxLvl \/ l + 1 \in k..MaxLvl
      OBVIOUS
    <3> QED
      BY <2>2, <3>1
  <2>4. \A l \in (k - 1)..MaxLvl : EndBody(q, va, h, l) = EndBody(q, va, g, l)
    <3> HIDE DEF h
    <3> QED BY <2>3, EndBodyAbove
  <2>5. \A l \in k..MaxLvl : g[l] = EndBody(q, va, g, l)
    <3>1. g = [l \in k..MaxLvl |-> EndBody(q, va, g, l)]
      BY <2>1
    <3> QED BY <3>1, Zenon
  <2>6. \A l \in (k - 1)..MaxLvl : l = k - 1 \/ l \in k..MaxLvl
    OBVIOUS
  <2>7. \A l \in (k - 1)..MaxLvl : h[l] = EndBody(q, va, h, l)
    BY <2>4, <2>5, <2>6
  <2>8. Good(k - 1, h)
    BY <2>7
  <2>9. k - 1 \in Levels
    OBVIOUS
  <2> QED
    BY <2>8, <2>9
<1>3. 1 \in S
  <2> HIDE DEF S
  <2>1. 1 \in Levels /\ 1 \in 1..MaxLvl /\ 1 + 1 = 2
    OBVIOUS
  <2> QED
    BY <1>1, <1>2, <2>1, DownInduction
<1>4. \E g : g = [l \in Levels |-> EndBody(q, va, g, l)]
  BY <1>3
<1> QED
  BY <1>4, Zenon DEF EndOf

----------------------------------------------------------------------------
(* Paths. *)

\* What Walked makes of entry e of level l, below entries that allow all.
At(l, e) == [lvl |-> l, pme |-> e, prot |-> e.prot, user |-> e.user]

\* What an entry of level l at which a walk ends maps its addresses to.
EntryLeaf(l, e) == LeafOf(l, e, e.prot, e.user)
LeafIn(q, va) == LET w == Walked(q, va) IN LeafOf(w.lvl, w.pme, w.prot, w.user)

\* Along a path Walked sees the entries of the path.
LEMMA EndAlong ==
  ASSUME NEW q \in [Maps -> [Index -> Entry]], NEW va \in Va,
         NEW k \in Levels, NEW p, Path(q, va, k, p)
  PROVE  \A l \in k..MaxLvl : EndOf(q, va)[l] = At(l, q[p[l]][va[l]])
<1> DEFINE g == EndOf(q, va)
           e(l) == q[p[l]][va[l]]
           S == {l \in Levels : l >= k => g[l] = At(l, e(l))}
<1>1. g = [l \in Levels |-> EndBody(q, va, g, l)]
  BY EndIs
<1> HIDE DEF g
<1>2. \A l \in Levels : g[l] = EndBody(q, va, g, l)
  BY <1>1, Zenon
<1>3. MaxLvl \in Levels /\ k..MaxLvl \subseteq Levels
  BY HptwAssumption DEF Levels
<1>4. g[MaxLvl] = At(MaxLvl, e(MaxLvl))
  <2>1. g[MaxLvl] = EndBody(q, va, g, MaxLvl)
    BY <1>2, <1>3
  <2>2. p[MaxLvl] = 0
    BY DEF Path
  <2> QED
    BY <2>1, <2>2 DEF EndBody, At
<1>5. MaxLvl \in S
  BY <1>3, <1>4
<1>6. ASSUME NEW l \in (k + 1)..MaxLvl, l \in S PROVE l - 1 \in S
  <2>1. /\ l \in Levels /\ l - 1 \in Levels /\ l >= k /\ l - 1 # MaxLvl
        /\ (l - 1) + 1 = l /\ l - 1 \in k..MaxLvl
    BY HptwAssumption DEF Levels
  <2>2. g[l] = At(l, e(l))
    BY <1>6, <2>1
  <2>3. g[l - 1] = EndBody(q, va, g, l - 1)
    BY <1>2, <2>1
  <2>4. Descends(l, e(l)) /\ AllowsAll(e(l)) /\ e(l).to = p[l - 1]
    BY DEF Path
  <2>5. e(l - 1) \in Entry
    <3>1. p[l - 1] \in Maps /\ va[l - 1] \in Index
      BY <2>1 DEF Path, Va
    <3> QED
      BY <3>1
  <2> HIDE DEF e
  <2>6. e(l - 1) = q[p[l - 1]][va[l - 1]]
    BY DEF e
  <2>7. g[l].lvl = l /\ g[l].pme = e(l) /\ g[l].prot = e(l).prot /\ g[l].user = e(l).user
    BY <2>2 DEF At
  <2>8. EndBody(q, va, g, l - 1) =
          [lvl |-> l - 1, pme |-> e(l - 1),
           prot |-> g[l].prot \cap e(l - 1).prot, user |-> g[l].user /\ e(l - 1).user]
    BY <2>1, <2>4, <2>6, <2>7 DEF EndBody
  <2>9. g[l].prot \cap e(l - 1).prot = e(l - 1).prot
    BY <2>4, <2>5, <2>7 DEF AllowsAll, Entry, HPT_PROTS_RWX
  <2>10. (g[l].user /\ e(l - 1).user) = e(l - 1).user
    <3>1. e(l - 1).user \in BOOLEAN
      BY <2>5 DEF Entry
    <3>2. g[l].user = TRUE
      BY <2>4, <2>7 DEF AllowsAll
    <3> QED
      BY <3>1, <3>2, Zenon
  <2>11. g[l - 1] = At(l - 1, e(l - 1))
    BY <2>3, <2>8, <2>9, <2>10 DEF At
  <2> QED
    BY <2>1, <2>11
<1>7. \A l \in k..MaxLvl : l \in S
  <2> HIDE DEF S
  <2> QED
    BY <1>5, <1>6, DownInduction
<1>8. \A l \in k..MaxLvl : l >= k
  BY HptwAssumption DEF Levels
<1> QED
  BY <1>7, <1>8 DEF g

\* A path that ends in an entry that leads to no page map is the whole walk.
LEMMA PathEnds ==
  ASSUME NEW q \in [Maps -> [Index -> Entry]], NEW va \in Va,
         NEW k \in Levels, NEW p, Path(q, va, k, p),
         ~Descends(k, q[p[k]][va[k]])
  PROVE  LeafIn(q, va) = EntryLeaf(k, q[p[k]][va[k]])
<1> DEFINE g == EndOf(q, va)
           a == At(k, q[p[k]][va[k]])
           S == {l \in Levels : l < k => g[l] = a}
<1>1. g = [l \in Levels |-> EndBody(q, va, g, l)]
  BY EndIs
<1>2. g[k] = a
  <2>1. k \in k..MaxLvl
    BY HptwAssumption DEF Levels
  <2> QED
    BY <2>1, EndAlong
<1>3. a.lvl = k /\ ~Descends(k, a.pme)
  BY DEF At
<1> HIDE DEF g, a
<1>4. \A l \in Levels : g[l] = EndBody(q, va, g, l)
  BY <1>1, Zenon
<1>5. 1 \in Levels /\ MaxLvl \in S
  BY HptwAssumption DEF Levels
<1>6. ASSUME NEW l \in (1 + 1)..MaxLvl, l \in S PROVE l - 1 \in S
  <2>1. /\ l \in Levels /\ l - 1 \in Levels /\ l - 1 # MaxLvl /\ (l - 1) + 1 = l
    BY HptwAssumption DEF Levels
  <2>2. SUFFICES ASSUME l - 1 < k PROVE g[l - 1] = a
    BY <2>1
  <2>3. g[l] = a
    <3>1. l < k \/ l = k
      BY <2>1, <2>2 DEF Levels
    <3> QED
      BY <1>2, <1>6, <3>1
  <2>4. ~(a.lvl = l /\ Descends(a.lvl, a.pme))
    BY <1>3
  <2>5. EndBody(q, va, g, l - 1) = a
    BY <2>1, <2>3, <2>4 DEF EndBody
  <2> QED
    BY <1>4, <2>1, <2>5
<1>7. 1 \in S
  <2> HIDE DEF S
  <2>1. 1 \in 1..MaxLvl
    BY HptwAssumption
  <2> QED
    BY <1>5, <1>6, <2>1, DownInduction
<1>8. g[1] = a
  <2>1. 1 < k \/ 1 = k
    BY DEF Levels
  <2> QED
    BY <1>2, <1>7, <2>1
<1>9. Walked(q, va) = a
  BY <1>8, WalkedIsEnd DEF g
<1> QED
  BY <1>9 DEF LeafIn, EntryLeaf, a, At

\* A path stays one where its entries stay, also as the path of another address.
LEMMA PathKept ==
  ASSUME NEW q, NEW va, NEW k \in Levels, NEW p, Path(q, va, k, p), NEW r, NEW v,
         \A l \in (k + 1)..MaxLvl : r[p[l]][v[l]] = q[p[l]][va[l]]
  PROVE  Path(r, v, k, p)
BY Zenon DEF Path

\* The path of every address starts at the root.
LEMMA PathRoot ==
  ASSUME NEW q, NEW va
  PROVE  Path(q, va, MaxLvl, [l \in {MaxLvl} |-> 0])
<1>1. MaxLvl..MaxLvl = {MaxLvl} /\ (MaxLvl + 1)..MaxLvl = {} /\ 0 \in Maps
  BY HptwAssumption DEF Maps
<1> QED
  BY <1>1 DEF Path

\* The path p to level k, and one level further to page map c.
Down(p, k, c) == [l \in (k - 1)..MaxLvl |-> IF l = k - 1 THEN c ELSE p[l]]

\* A path goes on through an entry for a page map.
LEMMA PathExtends ==
  ASSUME NEW q, NEW va, NEW k \in Levels, k # 1, NEW p, Path(q, va, k, p),
         Descends(k, q[p[k]][va[k]]), AllowsAll(q[p[k]][va[k]]),
         q[p[k]][va[k]].to \in Maps
  PROVE  Path(q, va, k - 1, Down(p, k, q[p[k]][va[k]].to))
<1> DEFINE c == q[p[k]][va[k]].to
           r == Down(p, k, c)
<1>1. /\ k - 1 \in (k - 1)..MaxLvl /\ MaxLvl \in k..MaxLvl
      /\ \A l \in k..MaxLvl : l # k - 1 /\ l \in (k - 1)..MaxLvl
      /\ \A l \in (k - 1)..MaxLvl : l = k - 1 \/ l \in k..MaxLvl
  BY HptwAssumption DEF Levels
<1>2. /\ p \in [k..MaxLvl -> Maps] /\ p[MaxLvl] = 0
      /\ \A l \in (k + 1)..MaxLvl :
           Descends(l, q[p[l]][va[l]]) /\ AllowsAll(q[p[l]][va[l]])
           /\ q[p[l]][va[l]].to = p[l - 1]
  BY Zenon DEF Path
<1>3. c \in Maps
  OBVIOUS
<1>4. r[k - 1] = c /\ \A l \in k..MaxLvl : r[l] = p[l]
  BY <1>1, Zenon DEF Down
<1>5. r \in [(k - 1)..MaxLvl -> Maps]
  <2>1. \A l \in (k - 1)..MaxLvl : (IF l = k - 1 THEN c ELSE p[l]) \in Maps
    BY <1>1, <1>2, <1>3
  <2> QED
    BY <2>1, Zenon DEF Down
<1>6. r[MaxLvl] = 0
  BY <1>1, <1>2, <1>4
<1> HIDE DEF r
<1>7. ASSUME NEW l \in ((k - 1) + 1)..MaxLvl
      PROVE  /\ Descends(l, q[r[l]][va[l]]) /\ AllowsAll(q[r[l]][va[l]])
             /\ q[r[l]][va[l]].to = r[l - 1]
  <2>1. CASE l = k
    <3>1. k \in k..MaxLvl
      BY HptwAssumption DEF Levels
    <3> QED
      BY <1>4, <2>1, <3>1
  <2>2. CASE l \in (k + 1)..MaxLvl
    <3>1. l \in k..MaxLvl /\ l - 1 \in k..MaxLvl
      BY <2>2, HptwAssumption DEF Levels
    <3>2. r[l] = p[l] /\ r[l - 1] = p[l - 1]
      BY <1>4, <3>1
    <3> QED
      BY <1>2, <2>2, <3>2, Zenon
  <2> QED
    BY <2>1, <2>2, HptwAssumption DEF Levels
<1>8. Path(q, va, k - 1, r)
  BY <1>5, <1>6, <1>7, Zenon DEF Path
<1> QED
  BY <1>8 DEF r

\* What the map one level down is.
LEMMA DownFacts ==
  ASSUME NEW p, NEW k \in Levels, NEW c
  PROVE  Down(p, k, c)[k - 1] = c
<1>1. k - 1 \in (k - 1)..MaxLvl
  BY HptwAssumption DEF Levels
<1> QED
  BY <1>1, Zenon DEF Down

----------------------------------------------------------------------------
(* Paths in the page maps of the walker. *)

\* A path goes through page maps that were taken for its levels and indices.
LEMMA PathHome ==
  ASSUME TypeOK, RootHome, PathsMatch,
         NEW va \in Va, NEW k \in Levels, NEW p, Path(pm, va, k, p)
  PROVE  \A l \in k..MaxLvl :
           p[l] \in InUse /\ home[p[l]].lvl = l /\ Agree(l, home[p[l]].va, va)
<1> DEFINE H(l) == p[l] \in InUse /\ home[p[l]].lvl = l /\ Agree(l, home[p[l]].va, va)
           S == {l \in Levels : H(l)}
<1>1. MaxLvl \in S
  <2>1. p[MaxLvl] = 0 /\ MaxLvl \in Levels
    BY HptwAssumption DEF Path, Levels
  <2>2. Agree(MaxLvl, home[0].va, va)
    BY HptwAssumption DEF Agree, Levels
  <2> QED
    BY <2>1, <2>2 DEF InUse, RootHome
<1>2. ASSUME NEW l \in (k + 1)..MaxLvl, l \in S PROVE l - 1 \in S
  <2> DEFINE m == p[l]
             i == va[l]
             c == p[l - 1]
  <2>1. l \in Levels /\ l - 1 \in Levels
    BY HptwAssumption DEF Levels
  <2>2. m \in InUse /\ home[m].lvl = l /\ Agree(l, home[m].va, va) /\ i \in Index
    BY <1>2, <2>1 DEF Va
  <2>3. Descends(l, pm[m][i]) /\ pm[m][i].to = c
    BY DEF Path
  <2> HIDE DEF m, i, c
  <2>4. c \in page_alloc /\ home[c].lvl = l - 1 /\ home[c].va[l] = i
        /\ Agree(l, home[c].va, home[m].va)
    BY <2>2, <2>3, PathsMatchAt
  <2>5. Agree(l - 1, home[c].va, va)
    <3> SUFFICES ASSUME NEW j \in Levels, j > l - 1
                 PROVE  home[c].va[j] = va[j]
      BY DEF Agree
    <3>1. CASE j = l
      BY <2>4, <3>1 DEF i
    <3>2. CASE j > l
      BY <2>2, <2>4, <3>2 DEF Agree
    <3> QED
      BY <2>1, <3>1, <3>2 DEF Levels
  <2> QED
    BY <2>1, <2>4, <2>5 DEF InUse, c
<1> HIDE DEF S
<1>3. \A l \in k..MaxLvl : l \in S
  BY <1>1, <1>2, DownInduction
<1> QED
  BY <1>3 DEF S

\* The walk of every address comes to an end.
LEMMA PathToEnd ==
  ASSUME TypeOK, RootHome, PathsMatch, TablesAllow, NEW va \in Va
  PROVE  \E k \in Levels : \E p :
           Path(pm, va, k, p) /\ ~Descends(k, pm[p[k]][va[k]])
<1> SUFFICES ASSUME \A k \in Levels : \A p :
                      Path(pm, va, k, p) => Descends(k, pm[p[k]][va[k]])
             PROVE  FALSE
  OBVIOUS
<1> DEFINE S == {k \in Levels : \E p : Path(pm, va, k, p)}
<1>1. MaxLvl \in S
  <2>1. MaxLvl \in Levels
    BY HptwAssumption DEF Levels
  <2> QED
    BY <2>1, PathRoot
<1>2. ASSUME NEW k \in S PROVE k > 1 /\ k - 1 \in S
  <2>1. PICK p : Path(pm, va, k, p)
    OBVIOUS
  <2> DEFINE e == pm[p[k]][va[k]]
  <2>2. k \in Levels /\ k \in k..MaxLvl
    BY HptwAssumption DEF Levels
  <2>3. p[k] \in InUse /\ home[p[k]].lvl = k
    BY <2>1, <2>2, PathHome
  <2>4. va[k] \in Index
    BY <2>2 DEF Va
  <2>5. Descends(k, e)
    BY <2>1, <2>2
  <2>6. AllowsAll(e)
    BY <2>3, <2>4, <2>5 DEF TablesAllow
  <2>7. e.to \in Maps
    <3>1. e.to \in page_alloc
      BY <2>3, <2>4, <2>5, PathsMatchAt
    <3> QED
      BY <3>1, PoolInMaps DEF TypeOK
  <2>8. k # 1 /\ k > 1 /\ k - 1 \in Levels
    <3>1. k # 1
      BY <2>5 DEF Descends, IsPage
    <3> QED
      BY <2>2, <3>1, HptwAssumption DEF Levels
  <2>9. Path(pm, va, k - 1, Down(p, k, e.to))
    BY <2>1, <2>2, <2>5, <2>6, <2>7, <2>8, PathExtends
  <2> QED
    BY <2>8, <2>9
<1> HIDE DEF S
<1>3. 1 \in S
  <2>1. 1 \in Levels /\ 1 \in 1..MaxLvl
    BY HptwAssumption DEF Levels
  <2> QED
    BY <1>1, <1>2, <2>1, DownInduction
<1> QED
  BY <1>2, <1>3

----------------------------------------------------------------------------
(* The paths stay as RInv says. *)

\* What the walker writes, in AllocLvl.
LEMMA AllocLvlFacts ==
  ASSUME IInv, AllocLvl
  PROVE  /\ pmo.lvl \in Levels /\ pmo.lvl > 1 /\ pmo.lvl - 1 \in Levels
         /\ pmo.pm \in InUse /\ pmo.pm \in Maps /\ home[pmo.pm].lvl = pmo.lvl
         /\ Agree(pmo.lvl, home[pmo.pm].va, req.va)
         /\ req.va \in Va /\ req.va[pmo.lvl] \in Index
         /\ ~IsPresent(pm[pmo.pm][req.va[pmo.lvl]])
         /\ FirstFree \in Maps /\ FirstFree \notin InUse
         /\ pm'[pmo.pm][req.va[pmo.lvl]] = TableEntry(FirstFree)
         /\ \A n \in Maps, j \in Index :
              n # pmo.pm \/ j # req.va[pmo.lvl] => pm'[n][j] = pm[n][j]
         /\ pm'[FirstFree] = ZeroMap
         /\ pc = "walk" /\ pc' = "walk" /\ req' = req /\ err' = err
         /\ pmo'.pm = FirstFree /\ pmo'.lvl = pmo.lvl - 1
         /\ InUse' = InUse \cup {FirstFree}
         /\ \A n \in InUse : home'[n] = home[n]
<1> DEFINE l == pmo.lvl
           m == pmo.pm
           i == req.va[l]
           c == FirstFree
           h == [lvl |-> l - 1, va |-> Base(l, req.va)]
<1>1. /\ m \in Maps /\ l \in Levels /\ i \in Index /\ Cur \in Entry
      /\ InUse \subseteq Maps /\ req.va \in Va /\ req.lvl \in Levels
  BY CurFacts DEF IInv
<1>2. /\ pc = "walk" /\ l > req.lvl /\ ~IsPresent(Cur) /\ Free # {}
      /\ page_alloc' = page_alloc \cup {c}
      /\ pm' = [pm EXCEPT ![m][i] = TableEntry(c)]
      /\ home' = [home EXCEPT ![c] = h]
      /\ pmo' = [pm |-> c, lvl |-> l - 1]
      /\ UNCHANGED <<pc, req, err>>
  BY DEF AllocLvl
<1>3. c \in Pool /\ c \notin page_alloc /\ c \in Maps /\ c \notin InUse
  BY <1>2, FirstFreeIsFree, PoolInMaps DEF InUse
<1>4. m \in InUse /\ home[m].lvl = l /\ Agree(l, home[m].va, req.va) /\ m # c
  BY <1>2, <1>3 DEF IInv, CursorRight
<1>5. l > 1 /\ l - 1 \in Levels
  BY <1>1, <1>2, HptwAssumption DEF Levels
<1>6. pm \in [Maps -> [Index -> Entry]] /\ home \in [Maps -> [lvl : Levels, va : Va]]
  BY DEF IInv, TypeOK
<1>7. TableEntry(c) \in Entry
  BY <1>3, TableEntryFacts
<1>8. pm[c] = ZeroMap
  BY <1>3 DEF IInv, PoolZero
<1>9. Cur = pm[m][i]
  BY DEF Cur
<1>10. InUse' = InUse \cup {c}
  BY <1>2 DEF InUse
<1> HIDE DEF l, m, i, c, h
<1>11. /\ pm'[m][i] = TableEntry(c)
       /\ \A n \in Maps, j \in Index : n # m \/ j # i => pm'[n][j] = pm[n][j]
       /\ \A n \in Maps : n # m => pm'[n] = pm[n]
  BY <1>1, <1>2, <1>6, <1>7, OneEntry
<1>12. \A n \in InUse : home'[n] = home[n]
  BY <1>1, <1>2, <1>3, <1>6
<1>13. pm'[c] = ZeroMap
  BY <1>3, <1>4, <1>8, <1>11
<1>14. pmo'.pm = c /\ pmo'.lvl = l - 1
  BY <1>2
<1> QED
  BY <1>1, <1>2, <1>3, <1>4, <1>5, <1>9, <1>10, <1>11, <1>12, <1>13, <1>14
     DEF l, m, i, c

\* The entry that AllocLvl writes leads to a page map.
LEMMA TableEntryDescends ==
  ASSUME NEW m, NEW l \in Levels, l > 1
  PROVE  Descends(l, TableEntry(m)) /\ AllowsAll(TableEntry(m)) /\ TableEntry(m).to = m
BY DEF Descends, IsPresent, IsPage, AllowsAll, TableEntry, HPT_PROTS_RWX, Access

\* An entry of zeroes leads nowhere.
LEMMA ZeroDoesNot ==
  ASSUME NEW l, NEW i \in Index
  PROVE  ~Descends(l, ZeroMap[i])
BY ZeroFacts DEF Descends

\* The entries above a page map are at other levels.
LEMMA AboveIsOther ==
  ASSUME TypeOK, RootHome, PathsMatch,
         NEW va \in Va, NEW k \in Levels, NEW p, Path(pm, va, k, p),
         NEW m, home[m].lvl = k, NEW l \in (k + 1)..MaxLvl
  PROVE  p[l] # m /\ p[l] \in Maps /\ va[l] \in Index /\ l \in Levels
<1>1. l \in k..MaxLvl /\ l # k /\ l \in Levels
  BY HptwAssumption DEF Levels
<1>2. p[l] \in InUse /\ home[p[l]].lvl = l
  BY <1>1, PathHome
<1>3. p[l] # m
  BY <1>1, <1>2
<1>4. p[l] \in Maps
  BY <1>1 DEF Path
<1>5. va[l] \in Index
  BY <1>1 DEF Va
<1> QED
  BY <1>1, <1>3, <1>4, <1>5

\* With an empty root there is neither an entry for a page map nor a walk.
LEMMA InitRInv ==
  ASSUME Init
  PROVE  RInv
<1>1. IInv
  BY InitIInv
<1>2. \A m \in Maps, i \in Index : ~Descends(home[m].lvl, pm[m][i])
  BY ZeroDoesNot DEF Init
<1>3. TablesAllow
  BY <1>1, <1>2, CurFacts DEF TablesAllow, IInv
<1> QED
  BY <1>1, <1>3 DEF RInv, Init, CursorPath

\* A step that writes to no page map keeps what the entries for page maps are.
LEMMA NoWriteAllow ==
  ASSUME TablesAllow, UNCHANGED <<pm, page_alloc, home>>
  PROVE  TablesAllow'
BY DEF TablesAllow, InUse

\* The entry for a new page map allows every access.
LEMMA AllocLvlAllow ==
  ASSUME IInv, TablesAllow, AllocLvl
  PROVE  TablesAllow'
<1> DEFINE m == pmo.pm
           i == req.va[pmo.lvl]
           c == FirstFree
<1> SUFFICES ASSUME NEW n \in InUse', NEW j \in Index,
                    Descends(home'[n].lvl, pm'[n][j])
             PROVE  AllowsAll(pm'[n][j])
  BY DEF TablesAllow
<1>1. /\ pmo.lvl \in Levels /\ pmo.lvl > 1
      /\ pm'[m][i] = TableEntry(c) /\ pm'[c] = ZeroMap
      /\ \A o \in Maps, k \in Index : o # m \/ k # i => pm'[o][k] = pm[o][k]
      /\ InUse' = InUse \cup {c} /\ \A o \in InUse : home'[o] = home[o]
  BY AllocLvlFacts
<1> HIDE DEF m, i, c
<1>2. n # c
  BY <1>1, ZeroDoesNot
<1>3. n \in InUse /\ n \in Maps
  BY <1>1, <1>2, CurFacts DEF IInv
<1>4. CASE n = m /\ j = i
  BY <1>1, <1>4, TableEntryDescends
<1>5. CASE n # m \/ j # i
  BY <1>1, <1>3, <1>5 DEF TablesAllow
<1> QED
  BY <1>4, <1>5

\* What SetPme writes, entry by entry.
LEMMA SetPmeWrites ==
  ASSUME IInv, SetPme
  PROVE  /\ pm'[pmo.pm][req.va[req.lvl]] = NewEntry
         /\ \A n \in Maps, j \in Index :
              n # pmo.pm \/ j # req.va[req.lvl] => pm'[n][j] = pm[n][j]
<1> DEFINE m == pmo.pm
           i == req.va[req.lvl]
<1>1. m \in Maps /\ i \in Index /\ NewEntry \in Entry
      /\ pm' = [pm EXCEPT ![m][i] = NewEntry]
  BY SetPmeFacts
<1>2. pm \in [Maps -> [Index -> Entry]]
  BY DEF IInv, TypeOK
<1> HIDE DEF m, i
<1>3. /\ pm'[m][i] = NewEntry
      /\ \A n \in Maps, j \in Index : n # m \/ j # i => pm'[n][j] = pm[n][j]
  BY <1>1, <1>2, OneEntry
<1> QED
  BY <1>3 DEF m, i

\* An entry that a client stores is not one for a page map.
LEMMA SetPmeAllow ==
  ASSUME IInv, TablesAllow, SetPme
  PROVE  TablesAllow'
<1> DEFINE m == pmo.pm
           i == req.va[req.lvl]
<1> SUFFICES ASSUME NEW n \in InUse', NEW j \in Index,
                    Descends(home'[n].lvl, pm'[n][j])
             PROVE  AllowsAll(pm'[n][j])
  BY DEF TablesAllow
<1>1. /\ home[m].lvl = req.lvl /\ ~Descends(req.lvl, NewEntry)
      /\ UNCHANGED <<page_alloc, home>>
  BY SetPmeFacts
<1>2. /\ pm'[m][i] = NewEntry
      /\ \A o \in Maps, k \in Index : o # m \/ k # i => pm'[o][k] = pm[o][k]
  BY SetPmeWrites
<1> HIDE DEF m, i
<1>3. n \in InUse /\ n \in Maps
  BY <1>1, CurFacts DEF IInv, InUse
<1>4. n # m \/ j # i
  BY <1>1, <1>2
<1> QED
  BY <1>1, <1>2, <1>3, <1>4 DEF TablesAllow

\* A call starts at the root, on the path of its address.
LEMMA BeginCursorPath ==
  ASSUME NEW r, Begin(r)
  PROVE  CursorPath'
<1>1. pmo'.pm = 0 /\ pmo'.lvl = MaxLvl
  BY DEF Begin, RootPmo
<1> DEFINE p == [l \in {MaxLvl} |-> 0]
<1>2. Path(pm', req'.va, MaxLvl, p) /\ p[MaxLvl] = 0
  BY PathRoot
<1>3. p \in [MaxLvl..MaxLvl -> Maps]
  BY <1>2 DEF Path
<1> HIDE DEF p
<1> QED
  BY <1>1, <1>2, <1>3 DEF CursorPath

\* One level down the call is still on the path of its address.
LEMMA NextLvlCursorPath ==
  ASSUME IInv, TablesAllow, CursorPath, NextLvl
  PROVE  CursorPath'
<1> DEFINE l == pmo.lvl
           e == pm[pmo.pm][req.va[l]]
<1>1. /\ pc = "walk" /\ Descends(l, e) /\ e = Cur
      /\ pmo' = [pm |-> e.to, lvl |-> l - 1] /\ pm' = pm /\ req' = req
  BY DEF NextLvl, Cur
<1>2. /\ l \in Levels /\ req.va \in Va /\ req.va[l] \in Index /\ Cur \in Entry
  BY CurFacts DEF IInv
<1>3. PICK p : Path(pm, req.va, l, p) /\ p[l] = pmo.pm
  BY <1>1 DEF CursorPath
<1>4. pmo.pm \in InUse /\ home[pmo.pm].lvl = l
  BY <1>1 DEF IInv, CursorRight
<1>5. l > 1
  <2> HIDE DEF l, e
  <2> QED BY <1>1, <1>2, DescendsAbove1
<1>6. AllowsAll(e)
  BY <1>1, <1>2, <1>4 DEF TablesAllow
<1>7. e.to \in Maps
  <2>1. e.to \in page_alloc
    <3>1. PathsMatch /\ Descends(home[pmo.pm].lvl, e)
      BY <1>1, <1>4 DEF IInv
    <3> HIDE DEF l
    <3> QED
      BY <1>2, <1>4, <3>1, PathsMatchAt
  <2> QED
    BY <2>1, PoolInMaps DEF IInv, TypeOK
<1> DEFINE r == Down(p, l, e.to)
<1>8. /\ Path(pm, req.va, l - 1, r) /\ r[l - 1] = e.to
      /\ r \in [(l - 1)..MaxLvl -> Maps]
  <2>1. /\ l \in Levels /\ l # 1 /\ Path(pm, req.va, l, p)
        /\ e = pm[p[l]][req.va[l]]
    BY <1>2, <1>3, <1>5
  <2> HIDE DEF l, e
  <2>2. /\ Descends(l, pm[p[l]][req.va[l]]) /\ AllowsAll(pm[p[l]][req.va[l]])
        /\ pm[p[l]][req.va[l]].to \in Maps
    BY <1>1, <1>6, <1>7, <2>1
  <2>3. Path(pm, req.va, l - 1, Down(p, l, pm[p[l]][req.va[l]].to))
    BY <2>1, <2>2, PathExtends, Zenon
  <2>4. Path(pm, req.va, l - 1, r)
    BY <2>1, <2>3
  <2> HIDE DEF r
  <2>5. r[l - 1] = e.to
    BY <2>1, DownFacts, Zenon DEF r
  <2> QED
    BY <2>4, <2>5, Zenon DEF Path
<1>9. pmo'.lvl = l - 1 /\ pmo'.pm = e.to
  BY <1>1
<1> HIDE DEF l, e, r
<1> QED
  BY <1>1, <1>8, <1>9 DEF CursorPath

\* The entry that a call is at is on the path of every address below it.
LEMMA PathShared ==
  ASSUME NEW q, NEW va, NEW v, NEW k \in Levels, NEW p, Path(q, va, k, p),
         \A l \in Levels : l > k => v[l] = va[l]
  PROVE  Path(q, v, k, p)
<1>1. \A l \in (k + 1)..MaxLvl : q[p[l]][v[l]] = q[p[l]][va[l]]
  BY HptwAssumption DEF Levels
<1> QED
  BY <1>1, PathKept, Zenon

\* AllocLvl adds a page map to the paths of the addresses below its entry.
LEMMA AllocLvlPath ==
  ASSUME IInv, AllocLvl, NEW p, Path(pm, req.va, pmo.lvl, p), p[pmo.lvl] = pmo.pm,
         NEW v \in Va, \A l \in Levels : l >= pmo.lvl => v[l] = req.va[l]
  PROVE  /\ Path(pm, v, pmo.lvl, p)
         /\ Path(pm', v, pmo.lvl - 1, Down(p, pmo.lvl, FirstFree))
         /\ Down(p, pmo.lvl, FirstFree)[pmo.lvl - 1] = FirstFree
<1> DEFINE l == pmo.lvl
           m == pmo.pm
           c == FirstFree
           va == req.va
<1>1. /\ l \in Levels /\ l > 1 /\ home[m].lvl = l /\ c \in Maps
      /\ pm'[m][va[l]] = TableEntry(c)
      /\ \A n \in Maps, j \in Index : n # m \/ j # va[l] => pm'[n][j] = pm[n][j]
  BY AllocLvlFacts
<1>2. /\ TypeOK /\ RootHome /\ PathsMatch /\ Path(pm, va, l, p) /\ p[l] = m
      /\ \A k \in Levels : k >= l => v[k] = va[k]
  BY DEF IInv
<1> HIDE DEF l, m, c, va
<1>3. v[l] = va[l] /\ l # 1 /\ l \in Levels
  BY <1>1, <1>2 DEF Levels
<1>4. Path(pm, v, l, p)
  <2>1. \A k \in Levels : k > l => v[k] = va[k]
    BY <1>1, <1>2 DEF Levels
  <2>2. Path(pm, va, l, p)
    BY <1>2
  <2> QED
    BY <1>3, <2>1, <2>2, PathShared, Zenon
<1>5. \A k \in (l + 1)..MaxLvl : pm'[p[k]][v[k]] = pm[p[k]][v[k]]
  <2> SUFFICES ASSUME NEW k \in (l + 1)..MaxLvl
               PROVE  pm'[p[k]][v[k]] = pm[p[k]][v[k]]
    OBVIOUS
  <2>1. p[k] # m /\ p[k] \in Maps /\ v[k] \in Index
    BY <1>1, <1>2, <1>4, AboveIsOther
  <2> QED
    BY <1>1, <2>1
<1>6. Path(pm', v, l, p)
  BY <1>3, <1>4, <1>5, PathKept
<1>7. /\ Descends(l, TableEntry(c)) /\ AllowsAll(TableEntry(c)) /\ TableEntry(c).to = c
      /\ pm'[p[l]][v[l]] = TableEntry(c)
  BY <1>1, <1>2, <1>3, TableEntryDescends
<1>8. /\ Descends(l, pm'[p[l]][v[l]]) /\ AllowsAll(pm'[p[l]][v[l]])
      /\ pm'[p[l]][v[l]].to \in Maps /\ pm'[p[l]][v[l]].to = c
  BY <1>1, <1>7
<1>9. Path(pm', v, l - 1, Down(p, l, pm'[p[l]][v[l]].to))
  BY <1>3, <1>6, <1>8, PathExtends, Zenon
<1>10. Path(pm', v, l - 1, Down(p, l, c))
  BY <1>8, <1>9
<1>11. Down(p, l, c)[l - 1] = c
  <2>1. l \in Levels
    BY <1>3
  <2> QED
    BY <2>1, DownFacts
<1> QED
  BY <1>4, <1>10, <1>11 DEF l, m, c

\* The page map that AllocLvl adds does not lead other calls astray.
LEMMA AllocLvlCursorPath ==
  ASSUME IInv, CursorPath, AllocLvl
  PROVE  CursorPath'
<1> DEFINE l == pmo.lvl
           c == FirstFree
<1>1. /\ l \in Levels /\ req.va \in Va /\ pc = "walk"
      /\ req' = req /\ pmo'.pm = c /\ pmo'.lvl = l - 1
  BY AllocLvlFacts
<1>2. PICK p : Path(pm, req.va, pmo.lvl, p) /\ p[pmo.lvl] = pmo.pm
  BY <1>1 DEF CursorPath
<1> DEFINE r == Down(p, l, c)
<1>3. Path(pm', req.va, l - 1, r) /\ r[l - 1] = c
  BY <1>1, <1>2, AllocLvlPath
<1>4. r \in [(l - 1)..MaxLvl -> Maps]
  BY <1>3, Zenon DEF Path
<1> HIDE DEF l, c, r
<1> QED
  BY <1>1, <1>3, <1>4 DEF CursorPath

\* No step breaks the invariant.
LEMMA NextRInv ==
  ASSUME RInv, [Next]_vars
  PROVE  RInv'
<1> USE DEF RInv
<1>1. IInv'
  BY NextIInv
<1>2. CASE Calls
  <2>1. \E r : Begin(r)
    BY <1>2, Zenon DEF Calls
  <2>2. UNCHANGED <<pm, page_alloc, home>>
    BY <2>1 DEF Begin
  <2> QED
    BY <1>1, <2>1, <2>2, BeginCursorPath, NoWriteAllow
<1>3. CASE NextLvl
  <2>1. UNCHANGED <<pm, page_alloc, home>>
    BY <1>3 DEF NextLvl
  <2> QED
    BY <1>1, <1>3, <2>1, NextLvlCursorPath, NoWriteAllow
<1>4. CASE AllocLvl
  BY <1>1, <1>4, AllocLvlCursorPath, AllocLvlAllow
<1>5. CASE AllocFails \/ WalkFails
  <2>1. UNCHANGED <<pm, page_alloc, home>> /\ pc' # "walk"
    BY <1>5 DEF AllocFails, WalkFails, Return
  <2> QED
    BY <1>1, <2>1, NoWriteAllow DEF CursorPath
<1>6. CASE SetPme
  <2>1. pc' # "walk"
    BY <1>6 DEF SetPme, Return
  <2> QED
    BY <1>1, <1>6, <2>1, SetPmeAllow DEF CursorPath
<1>7. CASE UNCHANGED vars
  BY <1>1, <1>7, NoWriteAllow DEF vars, CursorPath, Path
<1> QED
  BY <1>2, <1>3, <1>4, <1>5, <1>6, <1>7 DEF Next, Walk

\* So it always holds.
LEMMA RInductive == Spec => []RInv
<1>1. Init => RInv
  BY InitRInv
<1>2. RInv /\ [Next]_vars => RInv'
  BY NextRInv
<1> QED
  BY <1>1, <1>2, PTL DEF Spec

----------------------------------------------------------------------------
(* What a step does to what the addresses are mapped to. *)

\* Whether the walk of v can come to entry i of page map m.
On(m, i, v) == Agree(home[m].lvl, home[m].va, v) /\ v[home[m].lvl] = i

\* The mapping of an address, with the page maps as an argument.
LEMMA LeafIsLeafIn ==
  ASSUME NEW v
  PROVE  Leaf(v) = LeafIn(pm, v) /\ Leaf(v)' = LeafIn(pm', v)
BY DEF Leaf, LeafIn

\* What an address is mapped to is what the entry at the end of its walk says.
LEMMA LeafAtEnd ==
  ASSUME IInv, TablesAllow, NEW v \in Va
  PROVE  \E k \in Levels : \E p :
           /\ Path(pm, v, k, p) /\ ~Descends(k, pm[p[k]][v[k]])
           /\ LeafIn(pm, v) = EntryLeaf(k, pm[p[k]][v[k]])
<1>1. TypeOK /\ RootHome /\ PathsMatch
  BY DEF IInv
<1>2. pm \in [Maps -> [Index -> Entry]]
  BY <1>1 DEF TypeOK
<1>3. PICK k \in Levels : \E p : Path(pm, v, k, p) /\ ~Descends(k, pm[p[k]][v[k]])
  BY <1>1, PathToEnd
<1>4. PICK p : Path(pm, v, k, p) /\ ~Descends(k, pm[p[k]][v[k]])
  BY <1>3
<1>5. LeafIn(pm, v) = EntryLeaf(k, pm[p[k]][v[k]])
  BY <1>2, <1>4, PathEnds
<1> QED
  BY <1>4, <1>5

\* Writing an entry is not seen through others.
LEMMA LeafKept ==
  ASSUME IInv, TablesAllow, pm' \in [Maps -> [Index -> Entry]],
         NEW m \in Maps, NEW i \in Index, NEW v \in Va, ~On(m, i, v),
         \A n \in Maps, j \in Index : n # m \/ j # i => pm'[n][j] = pm[n][j]
  PROVE  LeafIn(pm', v) = LeafIn(pm, v)
<1>1. TypeOK /\ RootHome /\ PathsMatch /\ pm \in [Maps -> [Index -> Entry]]
  BY DEF IInv, TypeOK
<1>2. PICK k \in Levels : \E p :
        /\ Path(pm, v, k, p) /\ ~Descends(k, pm[p[k]][v[k]])
        /\ LeafIn(pm, v) = EntryLeaf(k, pm[p[k]][v[k]])
  BY LeafAtEnd
<1>3. PICK p :
        /\ Path(pm, v, k, p) /\ ~Descends(k, pm[p[k]][v[k]])
        /\ LeafIn(pm, v) = EntryLeaf(k, pm[p[k]][v[k]])
  BY <1>2
<1>4. \A l \in k..MaxLvl : pm'[p[l]][v[l]] = pm[p[l]][v[l]]
  <2> SUFFICES ASSUME NEW l \in k..MaxLvl
               PROVE  pm'[p[l]][v[l]] = pm[p[l]][v[l]]
    OBVIOUS
  <2>1. l \in Levels
    BY HptwAssumption DEF Levels
  <2>2. p[l] \in Maps /\ v[l] \in Index
    BY <1>3, <2>1 DEF Path, Va
  <2>3. home[p[l]].lvl = l /\ Agree(l, home[p[l]].va, v)
    BY <1>1, <1>3, PathHome
  <2>4. p[l] # m \/ v[l] # i
    BY <2>3 DEF On
  <2> QED
    BY <2>2, <2>4
<1>5. k \in k..MaxLvl /\ \A l \in (k + 1)..MaxLvl : l \in k..MaxLvl
  BY HptwAssumption DEF Levels
<1>6. \A l \in (k + 1)..MaxLvl : pm'[p[l]][v[l]] = pm[p[l]][v[l]]
  BY <1>4, <1>5
<1>7. Path(pm', v, k, p)
  BY <1>3, <1>6, PathKept
<1>8. pm'[p[k]][v[k]] = pm[p[k]][v[k]]
  BY <1>4, <1>5
<1>9. LeafIn(pm', v) = EntryLeaf(k, pm'[p[k]][v[k]])
  <2>1. ~Descends(k, pm'[p[k]][v[k]])
    BY <1>3, <1>8
  <2> QED
    BY <1>7, <2>1, PathEnds
<1> QED
  BY <1>3, <1>8, <1>9

\* Nothing is mapped by an entry above level 1 that is not present, nor by a
\* page map of zeroes.
LEMMA LeafOfNothing ==
  /\ \A l, e : l # 1 /\ ~IsPresent(e) => EntryLeaf(l, e) = NoLeaf
  /\ \A l \in Levels : EntryLeaf(l, Zero) = NoLeaf
<1>1. \A l, e : l # 1 /\ ~IsPresent(e) => EntryLeaf(l, e) = NoLeaf
  BY DEF EntryLeaf, LeafOf
<1>2. EntryLeaf(1, Zero) = NoLeaf
  BY DEF EntryLeaf, LeafOf, NoLeaf, Zero
<1> QED
  BY <1>1, <1>2, ZeroFacts

\* A new page map is not seen.
LEMMA AllocLvlLeaf ==
  ASSUME RInv, AllocLvl, NEW v \in Va
  PROVE  LeafIn(pm', v) = LeafIn(pm, v)
<1> DEFINE l == pmo.lvl
           m == pmo.pm
           i == req.va[l]
           c == FirstFree
<1>1. /\ l \in Levels /\ l > 1 /\ l - 1 \in Levels /\ m \in Maps /\ i \in Index
      /\ home[m].lvl = l /\ Agree(l, home[m].va, req.va)
      /\ ~IsPresent(pm[m][i]) /\ pm'[c] = ZeroMap /\ pc = "walk"
      /\ \A n \in Maps, j \in Index : n # m \/ j # i => pm'[n][j] = pm[n][j]
  BY AllocLvlFacts DEF RInv
<1>2. pm \in [Maps -> [Index -> Entry]] /\ pm' \in [Maps -> [Index -> Entry]]
  BY AllocLvlIInv DEF RInv, IInv, TypeOK
<1>3. CASE ~On(m, i, v)
  <2> HIDE DEF m, i
  <2> QED
    BY <1>1, <1>2, <1>3, LeafKept DEF RInv
<1>4. CASE On(m, i, v)
  <2>1. \A k \in Levels : k >= l => v[k] = req.va[k]
    <3> SUFFICES ASSUME NEW k \in Levels, k >= l PROVE v[k] = req.va[k]
      OBVIOUS
    <3>1. CASE k = l
      BY <1>1, <1>4, <3>1 DEF On
    <3>2. CASE k > l
      BY <1>1, <1>4, <3>2 DEF On, Agree
    <3> QED
      BY <1>1, <3>1, <3>2 DEF Levels
  <2>2. PICK p : Path(pm, req.va, pmo.lvl, p) /\ p[pmo.lvl] = pmo.pm
    BY <1>1 DEF RInv, CursorPath
  <2> DEFINE r == Down(p, l, c)
  <2>3. Path(pm, v, l, p) /\ Path(pm', v, l - 1, r) /\ r[l - 1] = c
    BY <2>1, <2>2, AllocLvlPath DEF RInv
  <2>4. p[l] = m /\ v[l] = i
    BY <1>1, <2>1, <2>2 DEF Levels
  <2> HIDE DEF l, m, i, c, r
  <2>5. LeafIn(pm, v) = NoLeaf
    <3>1. ~IsPresent(pm[p[l]][v[l]]) /\ ~Descends(l, pm[p[l]][v[l]]) /\ l # 1
      BY <1>1, <2>4 DEF Descends
    <3>2. LeafIn(pm, v) = EntryLeaf(l, pm[p[l]][v[l]])
      <4>1. l \in Levels /\ Path(pm, v, l, p)
        BY <1>1, <2>3
      <4> QED
        BY <1>2, <3>1, <4>1, PathEnds, Zenon
    <3> QED
      BY <3>1, <3>2, LeafOfNothing
  <2>6. LeafIn(pm', v) = NoLeaf
    <3>1. v[l - 1] \in Index
      BY <1>1 DEF Va
    <3>2. pm'[r[l - 1]][v[l - 1]] = Zero /\ ~Descends(l - 1, pm'[r[l - 1]][v[l - 1]])
      BY <1>1, <2>3, <3>1, ZeroFacts DEF Descends
    <3>3. LeafIn(pm', v) = EntryLeaf(l - 1, pm'[r[l - 1]][v[l - 1]])
      BY <1>1, <1>2, <2>3, <3>2, PathEnds
    <3> QED
      BY <1>1, <3>2, <3>3, LeafOfNothing
  <2> QED
    BY <2>5, <2>6
<1> QED
  BY <1>3, <1>4

\* The entry that a call stores is what its addresses are mapped to, and the
\* others keep what they are mapped to.
LEMMA SetPmeLeaf ==
  ASSUME RInv, SetPme, NEW v \in Va
  PROVE  LeafIn(pm', v) = IF P!InRange(req.lvl, req.va, v)
                          THEN EntryLeaf(req.lvl, NewEntry) ELSE LeafIn(pm, v)
<1> DEFINE l == req.lvl
           m == pmo.pm
           va == req.va
           e == NewEntry
<1>1. /\ m \in Maps /\ va[l] \in Index /\ home[m].lvl = l /\ pmo.lvl = l
      /\ Agree(l, home[m].va, va) /\ ~Descends(l, e)
  BY SetPmeFacts DEF RInv
<1>2. /\ pm'[m][va[l]] = e
      /\ \A n \in Maps, j \in Index : n # m \/ j # va[l] => pm'[n][j] = pm[n][j]
  BY SetPmeWrites DEF RInv
<1>3. pm' \in [Maps -> [Index -> Entry]]
  BY SetPmeIInv DEF RInv, IInv, TypeOK
<1>4. l \in Levels /\ va \in Va
  BY CurFacts DEF RInv, IInv
<1>5. On(m, va[l], v) <=> P!InRange(l, va, v)
  <2>1. On(m, va[l], v) <=> (\A k \in Levels : k > l => v[k] = va[k]) /\ v[l] = va[l]
    BY <1>1 DEF On, Agree
  <2>2. P!InRange(l, va, v) <=> \A k \in Levels : k >= l => v[k] = va[k]
    BY DEF P!InRange
  <2> HIDE DEF l, va
  <2> QED
    BY <1>4, <2>1, <2>2 DEF Levels
<1>6. CASE ~On(m, va[l], v)
  <2>1. LeafIn(pm', v) = LeafIn(pm, v)
    <3> HIDE DEF m, l, va
    <3> QED
      BY <1>1, <1>2, <1>3, <1>6, LeafKept DEF RInv
  <2> QED
    BY <1>5, <1>6, <2>1
<1>7. CASE On(m, va[l], v)
  <2>1. PICK p : Path(pm, req.va, pmo.lvl, p) /\ p[pmo.lvl] = pmo.pm
    BY DEF RInv, CursorPath, SetPme
  <2>2. Path(pm, va, l, p) /\ p[l] = m
    BY <1>1, <2>1
  <2>3. /\ TypeOK /\ RootHome /\ PathsMatch
        /\ \A k \in Levels : k >= l => v[k] = va[k]
    BY <1>5, <1>7 DEF RInv, IInv, P!InRange
  <2> HIDE DEF l, m, va, e
  <2>4. v[l] = va[l] /\ \A k \in Levels : k > l => v[k] = va[k]
    BY <1>4, <2>3 DEF Levels
  <2>5. Path(pm, v, l, p)
    BY <1>4, <2>2, <2>4, PathShared, Zenon
  <2>6. \A k \in (l + 1)..MaxLvl : pm'[p[k]][v[k]] = pm[p[k]][v[k]]
    <3> SUFFICES ASSUME NEW k \in (l + 1)..MaxLvl
                 PROVE  pm'[p[k]][v[k]] = pm[p[k]][v[k]]
      OBVIOUS
    <3>1. p[k] # m /\ p[k] \in Maps /\ v[k] \in Index
      BY <1>1, <1>4, <2>3, <2>5, AboveIsOther
    <3> QED
      BY <1>2, <3>1
  <2>7. Path(pm', v, l, p)
    BY <1>4, <2>5, <2>6, PathKept
  <2>8. pm'[p[l]][v[l]] = e /\ ~Descends(l, pm'[p[l]][v[l]])
    BY <1>1, <1>2, <2>2, <2>4
  <2>9. LeafIn(pm', v) = EntryLeaf(l, pm'[p[l]][v[l]])
    BY <1>3, <1>4, <2>7, <2>8, PathEnds
  <2>10. LeafIn(pm', v) = EntryLeaf(l, e)
    BY <2>8, <2>9
  <2> QED
    BY <1>5, <1>7, <2>10 DEF l, e, va
<1> QED
  BY <1>6, <1>7

\* What the address of a call is mapped to that has come to its entry.
LEMMA CursorLeaf ==
  ASSUME RInv, pc = "walk", ~Descends(pmo.lvl, Cur)
  PROVE  LeafIn(pm, req.va) = EntryLeaf(pmo.lvl, Cur)
<1>1. PICK p : Path(pm, req.va, pmo.lvl, p) /\ p[pmo.lvl] = pmo.pm
  BY DEF RInv, CursorPath
<1>2. pm \in [Maps -> [Index -> Entry]] /\ pmo.lvl \in Levels /\ req.va \in Va
  BY CurFacts DEF RInv, IInv, TypeOK
<1>3. Cur = pm[p[pmo.lvl]][req.va[pmo.lvl]]
  BY <1>1 DEF Cur
<1> QED
  BY <1>1, <1>2, <1>3, PathEnds

----------------------------------------------------------------------------
(* The refinement. *)

\* A call is a call to PageMap, too.
LEMMA CallOfFacts ==
  ASSUME NEW r \in Requests
  PROVE  /\ IsCall(CallOf(r))
         /\ CallOf(r) # NoCall /\ CallOf(r).va = r.va /\ CallOf(r).lvl = r.lvl
         /\ r.op = "set_prot" => /\ "prot" \in DOMAIN CallOf(r)
                                 /\ CallOf(r).prot = r.pme.prot
         /\ r.op # "set_prot" => /\ "leaf" \in DOMAIN CallOf(r)
                                 /\ CallOf(r).leaf = EntryLeaf(r.lvl, r.pme)
<1>1. r.va \in Va /\ r.lvl \in Levels
  BY DEF Requests
<1>2. CASE r.op = "set_prot"
  <2>1. CallOf(r) = [va |-> r.va, lvl |-> r.lvl, prot |-> r.pme.prot]
    BY <1>2 DEF CallOf
  <2>2. CallOf(r) # NoCall
    <3>1. "va" \in DOMAIN CallOf(r) /\ "va" \notin DOMAIN NoCall
      BY <2>1 DEF NoCall
    <3> QED
      BY <3>1
  <2> QED
    BY <1>1, <1>2, <2>1, <2>2 DEF IsCall
<1>3. CASE r.op # "set_prot"
  <2>1. CallOf(r) = [va |-> r.va, lvl |-> r.lvl, leaf |-> EntryLeaf(r.lvl, r.pme)]
    BY <1>3 DEF CallOf, EntryLeaf
  <2>2. CallOf(r) # NoCall
    <3>1. "va" \in DOMAIN CallOf(r) /\ "va" \notin DOMAIN NoCall
      BY <2>1 DEF NoCall
    <3> QED
      BY <3>1
  <2> QED
    BY <1>1, <1>3, <2>1, <2>2 DEF IsCall
<1> QED
  BY <1>2, <1>3

\* No page map, no mapping.
LEMMA InitLeaf ==
  ASSUME Init, NEW v \in Va
  PROVE  Leaf(v) = NoLeaf
<1>1. RInv
  BY InitRInv
<1>2. PICK k \in Levels : \E p :
        /\ Path(pm, v, k, p) /\ LeafIn(pm, v) = EntryLeaf(k, pm[p[k]][v[k]])
  BY <1>1, LeafAtEnd DEF RInv
<1>3. PICK p : Path(pm, v, k, p) /\ LeafIn(pm, v) = EntryLeaf(k, pm[p[k]][v[k]])
  BY <1>2
<1>4. p[k] \in Maps /\ v[k] \in Index
  BY <1>3, HptwAssumption DEF Path, Va, Levels
<1>5. pm[p[k]][v[k]] = Zero
  BY <1>4, ZeroFacts DEF Init
<1> QED
  BY <1>3, <1>5, LeafOfNothing, LeafIsLeafIn

\* The walker starts with the empty page map.
LEMMA InitRefines ==
  ASSUME Init
  PROVE  P!Init
BY InitLeaf DEF Init, P!Init

\* Steps that PageMap does not see.
LEMMA HiddenStep ==
  ASSUME \A v \in Va : LeafIn(pm', v) = LeafIn(pm, v),
         pc # "idle", pc' # "idle", UNCHANGED <<req, err>>
  PROVE  UNCHANGED P!vars
<1>1. [va \in Va |-> Leaf(va)]' = [va \in Va |-> Leaf(va)]
  BY LeafIsLeafIn
<1> QED
  BY <1>1 DEF P!vars

\* A call that fails is not seen but in what it returns.
LEMMA FailRefines ==
  ASSUME RInv, pc = "walk", Return(1), UNCHANGED pm
  PROVE  P!Fail
<1>1. req \in Requests
  BY DEF RInv, IInv, TypeOK
<1>2. CallOf(req) # NoCall
  BY <1>1, CallOfFacts
<1>3. [va \in Va |-> Leaf(va)]' = [va \in Va |-> Leaf(va)]
  BY LeafIsLeafIn
<1>4. pc # "idle" /\ pc' = "idle" /\ err' = 1
  BY DEF Return
<1> QED
  BY <1>2, <1>3, <1>4 DEF P!Fail

\* Every call that clients make is a request.
LEMMA CallsBegin ==
  ASSUME Calls
  PROVE  \E r \in Requests : Begin(r)
<1>1. PICK va \in Va :
        \/ \E op \in {"insert_alloc", "insert"}, l \in Levels :
             \E e \in ClientEntries(l) :
               Begin([op |-> op, va |-> va, lvl |-> l, pme |-> e])
        \/ \E prot \in Prots :
             Begin([op |-> "set_prot", va |-> va, lvl |-> 1,
                    pme |-> [Zero EXCEPT !.prot = prot]])
  BY Zenon DEF Calls
<1>2. ASSUME NEW op \in {"insert_alloc", "insert"}, NEW l \in Levels,
             NEW e \in ClientEntries(l)
      PROVE  [op |-> op, va |-> va, lvl |-> l, pme |-> e] \in Requests
  <2>1. e \in Entry
    BY ClientEntriesFacts
  <2> QED
    BY <2>1 DEF Requests, Ops
<1>3. ASSUME NEW prot \in Prots
      PROVE  [op |-> "set_prot", va |-> va, lvl |-> 1,
              pme |-> [Zero EXCEPT !.prot = prot]] \in Requests
  <2> DEFINE e == [Zero EXCEPT !.prot = prot]
  <2>1. e \in Entry
    BY ZeroFacts, HptwAssumption DEF Entry
  <2>2. 1 \in Levels
    BY HptwAssumption DEF Levels
  <2>3. [op |-> "set_prot", va |-> va, lvl |-> 1, pme |-> e] \in Requests
    <3> HIDE DEF e
    <3> QED
      BY <2>1, <2>2 DEF Requests, Ops
  <2> QED
    BY <2>3
<1> QED
  BY <1>1, <1>2, <1>3

\* Calling the walker is calling PageMap.
LEMMA BeginRefines ==
  ASSUME RInv, NEW r \in Requests, Begin(r)
  PROVE  P!Begin
<1>1. [va \in Va |-> Leaf(va)]' = [va \in Va |-> Leaf(va)]
  BY LeafIsLeafIn DEF Begin
<1>2. pc = "idle" /\ pc' # "idle" /\ req' = r /\ err' = err
  BY DEF Begin
<1>3. (IF pc = "idle" THEN NoCall ELSE CallOf(req))' = CallOf(r)
  BY <1>2 DEF CallOf, LeafOf, NoLeaf
<1>4. IsCall(CallOf(r))
  BY CallOfFacts
<1> QED
  BY <1>1, <1>2, <1>3, <1>4 DEF P!Begin

\* Storing the entry is the one step of PageMap that changes a mapping.
LEMMA SetPmeRefines ==
  ASSUME RInv, SetPme
  PROVE  P!Succeed
<1> DEFINE map == [va \in Va |-> Leaf(va)]
           call == IF pc = "idle" THEN NoCall ELSE CallOf(req)
<1>1. /\ req \in Requests /\ req.lvl \in Levels /\ req.va \in Va /\ Cur \in Entry
  BY CurFacts DEF RInv, IInv, TypeOK
<1>2. /\ pc = "walk" /\ pc' = "idle" /\ err' = 0 /\ pmo.lvl = req.lvl
  BY DEF SetPme, Return
<1>3. call = CallOf(req) /\ call # NoCall /\ call' = NoCall
  BY <1>1, <1>2, CallOfFacts
<1>4. map = [v \in Va |-> LeafIn(pm, v)] /\ map' = [v \in Va |-> LeafIn(pm', v)]
  BY LeafIsLeafIn
<1>5. \A v \in Va : LeafIn(pm', v) = IF P!InRange(req.lvl, req.va, v)
                                     THEN EntryLeaf(req.lvl, NewEntry) ELSE LeafIn(pm, v)
  BY SetPmeLeaf
<1>6. CASE req.op # "set_prot"
  <2>1. NewEntry = req.pme
    BY <1>6 DEF NewEntry
  <2>2. /\ "leaf" \in DOMAIN call /\ call.leaf = EntryLeaf(req.lvl, NewEntry)
        /\ call.lvl = req.lvl /\ call.va = req.va
    BY <1>1, <1>3, <1>6, <2>1, CallOfFacts
  <2> HIDE DEF map, call
  <2>3. map' = [v \in Va |-> IF P!InRange(call.lvl, call.va, v) THEN call.leaf
                             ELSE map[v]]
    BY <1>4, <1>5, <2>2
  <2>4. P!Map
    BY <1>3, <2>2, <2>3 DEF P!Map, map, call
  <2> QED
    BY <1>2, <1>3, <2>4 DEF P!Succeed, call
<1>7. CASE req.op = "set_prot"
  <2>1. req.lvl = 1
    BY <1>2, <1>7 DEF RInv, IInv, RequestIsLeaf
  <2>2. /\ "prot" \in DOMAIN call /\ call.prot = req.pme.prot
        /\ call.lvl = 1 /\ call.va = req.va
    BY <1>1, <1>3, <1>7, <2>1, CallOfFacts
  <2>3. NewEntry = [Cur EXCEPT !.prot = req.pme.prot]
    BY <1>7 DEF NewEntry
  <2>4. EntryLeaf(1, NewEntry) = [EntryLeaf(1, Cur) EXCEPT !.prot = req.pme.prot]
        /\ EntryLeaf(1, Cur).lvl = 1
    BY <1>1, <2>3 DEF EntryLeaf, LeafOf, Entry
  <2>5. LeafIn(pm, req.va) = EntryLeaf(1, Cur)
    <3>1. ~Descends(pmo.lvl, Cur) /\ pmo.lvl = 1
      BY <1>2, <2>1 DEF Descends, IsPage
    <3> QED
      BY <1>2, <3>1, CursorLeaf
  <2>6. \A v \in Va : P!InRange(1, req.va, v) <=> v = req.va
    <3> SUFFICES ASSUME NEW v \in Va, \A k \in Levels : k >= 1 => v[k] = req.va[k]
                 PROVE  v = req.va
      BY DEF P!InRange
    <3>1. \A k \in Levels : v[k] = req.va[k]
      BY DEF Levels
    <3> QED
      BY <1>1, <3>1 DEF Va
  <2>7. \A v \in Va : LeafIn(pm', v) = IF v = req.va
                        THEN [LeafIn(pm, v) EXCEPT !.prot = req.pme.prot]
                        ELSE LeafIn(pm, v)
    BY <1>5, <2>1, <2>4, <2>5, <2>6
  <2> HIDE DEF map, call
  <2>8. map' = [map EXCEPT ![call.va].prot = call.prot]
    BY <1>1, <1>4, <2>2, <2>7
  <2>9. map[call.va].lvl = call.lvl
    BY <1>1, <1>4, <2>2, <2>4, <2>5
  <2>10. P!Protect
    BY <1>3, <2>2, <2>8, <2>9 DEF P!Protect, map, call
  <2> QED
    BY <1>2, <1>3, <2>10 DEF P!Succeed, call
<1> QED
  BY <1>6, <1>7

\* Every step of the walker is a step of PageMap or not seen by it.
LEMMA NextRefines ==
  ASSUME RInv, [Next]_vars
  PROVE  [P!Next]_(P!vars)
<1>1. CASE Calls
  <2>1. \E r \in Requests : Begin(r)
    BY <1>1, CallsBegin
  <2> QED
    BY <2>1, BeginRefines DEF P!Next
<1>2. CASE NextLvl
  <2>1. UNCHANGED <<pm, pc, req, err>> /\ pc = "walk"
    BY <1>2 DEF NextLvl
  <2> QED
    BY <2>1, HiddenStep
<1>3. CASE AllocLvl
  <2>1. UNCHANGED <<pc, req, err>> /\ pc = "walk"
    BY <1>3 DEF AllocLvl
  <2> QED
    BY <1>3, <2>1, AllocLvlLeaf, HiddenStep
<1>4. CASE AllocFails
  <2>1. pc = "walk" /\ Return(1) /\ UNCHANGED pm
    BY <1>4 DEF AllocFails
  <2> QED
    BY <2>1, FailRefines DEF P!Next
<1>5. CASE WalkFails
  <2>1. pc = "walk" /\ UNCHANGED pm
    BY <1>5 DEF WalkFails
  <2>2. CASE Return(1)
    BY <2>1, <2>2, FailRefines DEF P!Next
  <2>3. CASE pc' = "halted" /\ UNCHANGED <<req, pmo, err>>
    BY <2>1, <2>3, HiddenStep
  <2> QED
    BY <1>5, <2>2, <2>3 DEF WalkFails
<1>6. CASE SetPme
  BY <1>6, SetPmeRefines DEF P!Next
<1>7. CASE UNCHANGED vars
  <2>1. [va \in Va |-> Leaf(va)]' = [va \in Va |-> Leaf(va)]
    BY <1>7, LeafIsLeafIn DEF vars
  <2> QED
    BY <1>7, <2>1 DEF P!vars, vars
<1> QED
  BY <1>1, <1>2, <1>3, <1>4, <1>5, <1>6, <1>7 DEF Next, Walk

\* hptw_insert_pmeo_alloc, hptw_insert_pmeo and hptw_set_prot are a map from
\* addresses to pages, for every number of levels, fanout and size of the pool:
\* a call maps, unmaps or protects exactly the addresses of its page when it
\* returns 0, and changes no mapping before that or when it fails.
THEOREM RefinesPageMap == Spec => ImplementsPageMap
<1>1. Init => P!Init
  BY InitRefines
<1>2. RInv /\ [Next]_vars => [P!Next]_(P!vars)
  BY NextRefines
<1> QED
  BY <1>1, <1>2, RInductive, PTL DEF Spec, ImplementsPageMap, P!Spec
============================================================================
