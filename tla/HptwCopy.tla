------------------------------ MODULE HptwCopy ------------------------------
(***************************************************************************)
(* The operations of the page table walker (hptw.c) that access memory      *)
(* through page maps: hptw_checked_access_va and the loops over it,         *)
(* hptw_checked_copy_from_va, _copy_to_va, _copy_va_to_va and _memset_va.   *)
(*                                                                         *)
(* Addresses are numbers here, of bytes. One step is one iteration of a     *)
(* loop. The memory that a call reads is apart from what it writes, as      *)
(* memcpy requires.                                                         *)
(***************************************************************************)
EXTENDS HptwTables

CONSTANTS
  PageSz,     \* bytes of a page of level 1
  Contexts,   \* pairs of page maps to read and to write through
  Bytes,      \* the bytes of the memory
  Vas,        \* addresses to start from
  Lens        \* lengths

\* What the constants must be.
CopyConstants ==
  /\ PageSz \in Nat \ {0}
  /\ Vas \subseteq Nat
  /\ Lens \subseteq Nat

VARIABLES
  src_pm, dst_pm,         \* the page maps of the two contexts
  mem,                    \* memory that is mapped
  buf,                    \* memory that the hypervisor reaches directly
  call,                   \* the call: operation, privileges, addresses, length
  copied,
  rv                      \* what the call returned, -1 before

vars == <<src_pm, dst_pm, mem, buf, call, copied, rv>>
inputs == <<src_pm, dst_pm, call>>

Ops == {"copy_from_va", "copy_to_va", "copy_va_to_va", "memset_va"}
MaxLen == CHOOSE n \in Lens : \A k \in Lens : k <= n
\* The bytes of buf and of memset, all different.
BufByte(k) == -1 - k
Fill == -1 - (MaxLen + 1)

\* Only copy_va_to_va has two virtual addresses and two privilege levels.
Calls ==
  {c \in [op : Ops, src_user : BOOLEAN, dst_user : BOOLEAN,
          src : Vas, dst : Vas, len : Lens] :
     c.op # "copy_va_to_va" => c.dst = c.src /\ c.dst_user = c.src_user}

Init ==
  /\ \E c \in Contexts : src_pm = c[1] /\ dst_pm = c[2]
  /\ mem = [p \in Bytes |-> p]
  /\ buf = [k \in 0..MaxLen |-> BufByte(k)]
  /\ call \in Calls
  /\ copied = 0
  /\ rv = -1

----------------------------------------------------------------------------

\* hpt_pmeo_page_size: the size of what an entry of level l translates.
PageSize(l) == PageSz * Fanout^(l - 1)

\* hpt_get_pm_idx for all levels.
VaOf(v) == [l \in Levels |-> (v \div PageSize(l)) % Fanout]

\* hpt_remaining_on_page and hpt_pmeo_va_to_pa
Remaining(l, pa) == PageSize(l) - (pa % PageSize(l))
VaToPa(w, v) == w.pme.to + (v % PageSize(w.lvl))

Min(a, b) == IF a <= b THEN a ELSE b

\* hptw_checked_get_pmeo: every entry on the way must allow the access, for
\* user mode also by its user bit, and the last one must be present.
hptw_checked_get_pmeo(w, access, user) ==
  /\ access \in w.prot
  /\ user => w.user
  /\ IsPresent(w.pme)

\* shv_ept_pa2ptr and the callers' test of the pointer: the pointer to
\* physical address 0 is NULL, which reads as a failure.
pa2ptr_fails(pa) == pa = 0

\* hptw_checked_access_va for the address v, which walks to w: where to
\* access, and how much.
AccessTo(w, access, user, v, requested_sz) ==
  LET pa == VaToPa(w, v)
  IN [ok |-> hptw_checked_get_pmeo(w, access, user) /\ ~pa2ptr_fails(pa),
      pa |-> pa,
      avail |-> Min(requested_sz, Remaining(w.lvl, pa))]
hptw_checked_access_va(pm, access, user, v, requested_sz) ==
  AccessTo(Walked(pm, VaOf(v)), access, user, v, requested_sz)

----------------------------------------------------------------------------

\* memcpy and memset of n bytes.
ToMem(pa, n, val(_)) ==
  [p \in Bytes |-> IF pa <= p /\ p < pa + n THEN val(p - pa) ELSE mem[p]]
ToBuf(k, n, val(_)) ==
  [j \in DOMAIN buf |-> IF k <= j /\ j < k + n THEN val(j - k) ELSE buf[j]]

Left == call.len - copied

\* The access of the destination, if it is mapped memory, and then of the
\* source, of at most as many bytes.
Direct(sz) == [ok |-> TRUE, pa |-> 0, avail |-> sz]
DstAccess ==
  IF call.op = "copy_from_va" THEN Direct(Left)
  ELSE hptw_checked_access_va(dst_pm, "W", call.dst_user, call.dst + copied, Left)
\* A variant that copies as much as the destination takes.
SrcAccessUnbounded(sz) ==
  IF call.op \in {"copy_to_va", "memset_va"} THEN Direct(sz)
  ELSE [hptw_checked_access_va(src_pm, "R", call.src_user, call.src + copied, sz)
          EXCEPT !.avail = sz]
SrcAccess(sz) ==
  IF call.op \in {"copy_to_va", "memset_va"} THEN Direct(sz)
  ELSE hptw_checked_access_va(src_pm, "R", call.src_user, call.src + copied, sz)

\* The byte that goes to offset j of a chunk from physical address pa.
ByteFrom(pa, j) ==
  CASE call.op = "memset_va" -> Fill
    [] call.op = "copy_to_va" -> buf[copied + j]
    [] OTHER -> mem[pa + j]

Transfer(d, s) ==
  LET val(j) == ByteFrom(s.pa, j) IN
  /\ IF call.op = "copy_from_va"
     THEN buf' = ToBuf(copied, s.avail, val) /\ UNCHANGED mem
     ELSE mem' = ToMem(d.pa, s.avail, val) /\ UNCHANGED buf
  /\ copied' = copied + s.avail

Chunk ==
  /\ rv = -1
  /\ copied < call.len
  /\ \E d \in {DstAccess} : \E s \in {SrcAccess(d.avail)} :
       d.ok /\ s.ok /\ Transfer(d, s)
  /\ UNCHANGED <<inputs, rv>>

Refuse ==
  /\ rv = -1
  /\ copied < call.len
  /\ ~DstAccess.ok \/ ~SrcAccess(DstAccess.avail).ok
  /\ rv' = 1
  /\ UNCHANGED <<inputs, mem, buf, copied>>

Finish ==
  /\ rv = -1
  /\ copied >= call.len
  /\ rv' = 0
  /\ UNCHANGED <<inputs, mem, buf, copied>>

Next == Chunk \/ Refuse \/ Finish

\* Nothing else runs on the processor until the call returns.
Spec == Init /\ [][Next]_vars /\ WF_vars(Next)

----------------------------------------------------------------------------

\* The types of the variables.
TypeOK ==
  /\ DOMAIN mem = Bytes
  /\ DOMAIN buf = 0..MaxLen
  /\ copied \in 0..call.len
  /\ rv \in {-1, 0, 1}

\* The same, byte by byte: where byte k of the call is read and written, and
\* whether it may be.
ReadsVa == call.op \in {"copy_from_va", "copy_va_to_va"}
WritesVa == call.op # "copy_from_va"
SrcWalk(k) == Walked(src_pm, VaOf(call.src + k))
DstWalk(k) == Walked(dst_pm, VaOf(call.dst + k))
Allowed(w, access, user, v) ==
  /\ access \in w.prot
  /\ user => w.user
  /\ IsPresent(w.pme)
  /\ VaToPa(w, v) # 0
ByteAllowed(k) ==
  /\ ReadsVa => Allowed(SrcWalk(k), "R", call.src_user, call.src + k)
  /\ WritesVa => Allowed(DstWalk(k), "W", call.dst_user, call.dst + k)
SrcByte(k) ==
  CASE call.op = "memset_va" -> Fill
    [] call.op = "copy_to_va" -> BufByte(k)
    [] OTHER -> VaToPa(SrcWalk(k), call.src + k)
DstByte(k) == IF WritesVa THEN VaToPa(DstWalk(k), call.dst + k) ELSE k

\* However the call is cut into pages of different sizes, what it has written
\* so far is the first bytes of the source at the first addresses of the
\* destination, each of them one that the caller may access, and nothing else.
CopiesPrefix ==
  LET now == IF WritesVa THEN mem ELSE buf
      before(p) == IF WritesVa THEN p ELSE BufByte(p)
  IN /\ \A k \in 0..(copied - 1) : ByteAllowed(k) /\ now[DstByte(k)] = SrcByte(k)
     /\ {p \in DOMAIN now : now[p] # before(p)} = {DstByte(k) : k \in 0..(copied - 1)}
     /\ IF WritesVa THEN buf = [k \in DOMAIN buf |-> BufByte(k)]
        ELSE mem = [p \in Bytes |-> p]

\* A call returns 0 if the caller may access all bytes, and otherwise 1, just
\* before the first byte that it may not access. Physical address 0 is one of
\* those.
ResultRight ==
  /\ rv = 0 => copied = call.len
  /\ rv = 1 => copied < call.len /\ ~ByteAllowed(copied)

\* Every call returns, since an access that succeeds is of at least one byte,
\* and then what it returns and what it has written are right.
CopyRight == <>(rv # -1 /\ TypeOK /\ CopiesPrefix /\ ResultRight)
=============================================================================
