-------------------------------- MODULE Pmap --------------------------------
(***************************************************************************)
(* Physical pages, two-level page tables, ASIDs and the TLB: kern/pmap.c,   *)
(* kern/tlbex.c, kern/tlb_asm.S, the address-space half of kern/env.c, and  *)
(* the memory system calls of kern/syscall_all.c.                           *)
(*                                                                         *)
(* An address space belongs to an environment slot.  Its page directory is  *)
(* mapped into itself at UVPT, so one function pt[s] holds both levels, in   *)
(* the way page_lookup sees them: pt[s][<<d, t>>] is entry t of page table d  *)
(* (a user page), pt[s][<<d, UVPT>>] is entry d of the page directory (page   *)
(* table d, read at UVPT) and pt[s][Self] is the directory's own entry.  The *)
(* contents of user pages are left out.  Every handler runs with interrupts *)
(* off and is one step; one that fails or panics without changing anything  *)
(* stutters.  The free list is a set: nothing depends on its order.         *)
(***************************************************************************)
EXTENDS Integers, FiniteSets

CONSTANTS Page,      \* physical pages that page_init puts on the free list
          Space,     \* environment slots
          Pdx, Ptx,  \* indices into a page directory below UTOP, into a page table
          NASID,     \* number of address space identifiers
          TlbSize,   \* number of TLB entries
          RefMod,    \* pp_ref counts modulo this (2^16: u_short)
          MayWrap,   \* whether a page may be mapped so often that pp_ref wraps
          NULL, UVPT

Asid == 0..(NASID - 1)
VA == Pdx \X Ptx                      \* user pages below UTOP
Window == Pdx \X {UVPT}               \* page tables, seen through UVPT
Self == <<UVPT, UVPT>>                \* the page directory, seen through UVPT
Addr == VA \cup Window \cup {Self}
Perm == {"PTE_D", "read-only"}
Entry == [page : Page, perm : Perm]
TlbEntry == [asid : Asid, va : Addr, page : Page, perm : Perm]

ASSUME FiniteAssumption == /\ IsFiniteSet(Page) /\ IsFiniteSet(Space)
                           /\ IsFiniteSet(Pdx) /\ IsFiniteSet(Ptx)
ASSUME NullAssumption == NULL \notin Entry \cup Asid
ASSUME WindowAssumption == UVPT \notin Pdx \cup Ptx
ASSUME SizesAssumption == /\ NASID \in Nat \ {0} /\ TlbSize \in Nat \ {0}
                          /\ RefMod \in Nat \ {0, 1} /\ MayWrap \in BOOLEAN

VARIABLES page_free_list,  \* the free pages
          pp_ref,          \* the reference count of each page
          pt,              \* page directory and page tables of each slot
          env_asid,        \* ASID of each live slot, NULL for a free one
          asid_bitmap,     \* ASIDs in use
          tlb,             \* the TLB's valid entries
          abandoned        \* history: page directories env_alloc left behind

vars == <<page_free_list, pp_ref, pt, env_asid, asid_bitmap, tlb, abandoned>>

TypeOK ==
    /\ page_free_list \subseteq Page
    /\ pp_ref \in [Page -> 0..(RefMod - 1)]
    /\ pt \in [Space -> [Addr -> Entry \cup {NULL}]]
    /\ env_asid \in [Space -> Asid \cup {NULL}]
    /\ asid_bitmap \subseteq Asid
    /\ tlb \subseteq TlbEntry
    /\ abandoned \subseteq Page

\* page_init, and slots whose address space has never been set up.
Init ==
    /\ page_free_list = Page
    /\ pp_ref = [p \in Page |-> 0]
    /\ pt = [s \in Space |-> [a \in Addr |-> NULL]]
    /\ env_asid = [s \in Space |-> NULL]
    /\ asid_bitmap = {}
    /\ tlb = {}
    /\ abandoned = {}

-----------------------------------------------------------------------------
(* Helpers of the handlers.                                                *)

Live(s) == env_asid[s] # NULL

\* page_lookup: the entry that maps a, or NULL.
page_lookup(s, a) == pt[s][a]

\* The address of the table that holds a's entry.
TableOf(a) == IF a \in VA THEN <<a[1], UVPT>> ELSE Self

\* Faulty variant: pp_ref++ is missing.
Inc_lost(n) == n

\* pp_ref++ on a u_short.
Inc(n) == (n + 1) % RefMod

\* Page p may gain one more reference.
MayMap(p) == MayWrap \/ pp_ref[p] + 1 < RefMod

page_decref_leaky(free, p) == free

\* page_decref: the free list once p has lost a reference.
page_decref(free, p) == IF pp_ref[p] = 1 THEN free \cup {p} ELSE free

\* Faulty variant: the invalidation is forgotten.
tlb_invalidate_none(entries, asid, a) == entries

\* tlb_invalidate: the TLB without the entry for a under this ASID.
tlb_invalidate(entries, asid, a) ==
    {x \in entries : ~(x.asid = asid /\ x.va = a)}

\* A tlbwr of entry x: it may replace any other entry.
tlbwr(entries, x) ==
    \E victim \in SUBSET entries :
        /\ Cardinality(victim) <= 1
        /\ Cardinality((entries \ victim) \cup {x}) <= TlbSize
        /\ tlb' = (entries \ victim) \cup {x}

\* page_insert of page p at address a of s, the free list being free by then:
\* the same page again, another page in place of the old one, a first mapping in
\* an existing table, and one whose table is allocated on the way.  No case is
\* enabled when that last allocation fails.  Each sets pt, pp_ref and
\* page_free_list; all begin by invalidating the TLB entry.
page_insert(s, p, a, perm, free) ==
    LET old == page_lookup(s, a)
        new == [page |-> p, perm |-> perm]
    IN  \/ /\ old # NULL /\ old.page = p
           /\ pt' = [pt EXCEPT ![s][a] = new]
           /\ page_free_list' = free
           /\ UNCHANGED pp_ref
        \/ /\ old # NULL /\ old.page # p
           /\ pp_ref[old.page] > 0
           /\ pt' = [pt EXCEPT ![s][a] = new]
           /\ pp_ref' = [pp_ref EXCEPT ![old.page] = @ - 1, ![p] = Inc(@)]
           /\ page_free_list' = page_decref(free, old.page)
        \/ /\ old = NULL /\ page_lookup(s, TableOf(a)) # NULL
           /\ pt' = [pt EXCEPT ![s][a] = new]
           /\ pp_ref' = [pp_ref EXCEPT ![p] = Inc(@)]
           /\ page_free_list' = free
        \/ /\ old = NULL /\ page_lookup(s, TableOf(a)) = NULL
           /\ \E table \in free :
                 /\ pt' = [pt EXCEPT ![s][a] = new,
                              ![s][TableOf(a)] = [page |-> table, perm |-> "PTE_D"]]
                 /\ pp_ref' = [pp_ref EXCEPT ![table] = Inc(@), ![p] = Inc(@)]
                 /\ page_free_list' = free \ {table}

\* page_insert fails with -E_NO_MEM: no table, and no page left for one.
InsertFails(s, a, free) ==
    page_lookup(s, a) = NULL /\ page_lookup(s, TableOf(a)) = NULL /\ free = {}

-----------------------------------------------------------------------------
(* System calls and the TLB refill handler.                                *)

sys_mem_alloc(s, a, perm) ==
    /\ Live(s)
    /\ \E p \in page_free_list :
          page_insert(s, p, a, perm, page_free_list \ {p})
    /\ tlb' = tlb_invalidate(tlb, env_asid[s], a)
    /\ UNCHANGED <<env_asid, asid_bitmap, abandoned>>

\* The page just taken from the free list is given back to nobody when
\* page_insert fails.
sys_mem_alloc_no_mem(s, a) ==
    /\ Live(s)
    /\ \E p \in page_free_list :
          /\ InsertFails(s, a, page_free_list \ {p})
          /\ page_free_list' = page_free_list \ {p}
    /\ tlb' = tlb_invalidate(tlb, env_asid[s], a)
    /\ UNCHANGED <<pp_ref, pt, env_asid, asid_bitmap, abandoned>>

\* Also the page transfer of sys_ipc_try_send.
sys_mem_map(src, srcva, dst, dstva, perm) ==
    /\ Live(src) /\ Live(dst)
    /\ page_lookup(src, srcva) # NULL
    /\ MayMap(page_lookup(src, srcva).page)
    /\ page_insert(dst, page_lookup(src, srcva).page, dstva, perm, page_free_list)
    /\ tlb' = tlb_invalidate(tlb, env_asid[dst], dstva)
    /\ UNCHANGED <<env_asid, asid_bitmap, abandoned>>

\* sys_mem_unmap of a mapped page: page_remove and page_decref.
sys_mem_unmap(s, a) ==
    LET old == page_lookup(s, a) IN
    /\ Live(s) /\ old # NULL
    /\ pp_ref[old.page] > 0
    /\ pp_ref' = [pp_ref EXCEPT ![old.page] = @ - 1]
    /\ page_free_list' = page_decref(page_free_list, old.page)
    /\ pt' = [pt EXCEPT ![s][a] = NULL]
    /\ tlb' = tlb_invalidate(tlb, env_asid[s], a)
    /\ UNCHANGED <<env_asid, asid_bitmap, abandoned>>

\* A TLB miss of the running environment s at a, when a is mapped.
do_tlb_refill(s, a) ==
    /\ Live(s)
    /\ \A x \in tlb : ~(x.asid = env_asid[s] /\ x.va = a)
    /\ page_lookup(s, a) # NULL
    /\ tlbwr(tlb, [asid |-> env_asid[s], va |-> a,
                   page |-> page_lookup(s, a).page,
                   perm |-> page_lookup(s, a).perm])
    /\ UNCHANGED <<page_free_list, pp_ref, pt, env_asid, asid_bitmap, abandoned>>

\* The same when it is not: passive_alloc maps a fresh page there first.  A read
\* of a page table that does not exist, through UVPT, creates it in this way.
do_tlb_refill_passive(s, a) ==
    /\ Live(s)
    /\ page_lookup(s, a) = NULL
    /\ \E p \in page_free_list :
          /\ page_insert(s, p, a, "PTE_D", page_free_list \ {p})
          /\ tlbwr(tlb_invalidate(tlb, env_asid[s], a),
                   [asid |-> env_asid[s], va |-> a, page |-> p, perm |-> "PTE_D"])
    /\ UNCHANGED <<env_asid, asid_bitmap, abandoned>>

-----------------------------------------------------------------------------
(* Address spaces of environments come and go.                             *)

\* asid_alloc: the lowest ASID not in use.
asid_alloc(a) ==
    /\ a \notin asid_bitmap
    /\ \A b \in Asid \ asid_bitmap : a <= b
    /\ asid_bitmap' = asid_bitmap \cup {a}

asid_free(a) == asid_bitmap' = asid_bitmap \ {a}

\* env_alloc, with env_setup_vm and asid_alloc.
env_alloc(s) ==
    /\ ~Live(s)
    /\ \E p \in page_free_list, a \in Asid :
          /\ asid_alloc(a)
          /\ page_free_list' = page_free_list \ {p}
          /\ pp_ref' = [pp_ref EXCEPT ![p] = Inc(@)]
          /\ pt' = [pt EXCEPT ![s][Self] = [page |-> p, perm |-> "read-only"]]
          /\ env_asid' = [env_asid EXCEPT ![s] = a]
    /\ UNCHANGED <<tlb, abandoned>>

\* env_alloc when asid_alloc fails after env_setup_vm has succeeded.
env_alloc_no_asid(s) ==
    /\ ~Live(s) /\ asid_bitmap = Asid
    /\ \E p \in page_free_list :
          /\ page_free_list' = page_free_list \ {p}
          /\ pp_ref' = [pp_ref EXCEPT ![p] = Inc(@)]
          /\ abandoned' = abandoned \cup {p}
    /\ UNCHANGED <<pt, env_asid, asid_bitmap, tlb>>

\* The addresses of s that refer to page p.
RefsIn(s, p) == {a \in Addr : pt[s][a] # NULL /\ pt[s][a].page = p}

\* env_free: every entry is dropped, page by page and table by table, then the
\* page directory; the TLB is told of each, and the ASID is given back.
env_free(s) ==
    /\ Live(s)
    /\ \A p \in Page : pp_ref[p] >= Cardinality(RefsIn(s, p))
    /\ pp_ref' = [p \in Page |-> pp_ref[p] - Cardinality(RefsIn(s, p))]
    /\ page_free_list' = page_free_list \cup
                           {p \in Page : RefsIn(s, p) # {} /\ pp_ref'[p] = 0}
    /\ tlb' = {x \in tlb : ~(x.asid = env_asid[s] /\ pt[s][x.va] # NULL)}
    /\ pt' = [pt EXCEPT ![s] = [a \in Addr |-> NULL]]
    /\ asid_free(env_asid[s])
    /\ env_asid' = [env_asid EXCEPT ![s] = NULL]
    /\ UNCHANGED abandoned

Next ==
    \/ \E s \in Space : env_alloc(s) \/ env_alloc_no_asid(s) \/ env_free(s)
    \/ \E s \in Space, a \in VA, perm \in Perm : sys_mem_alloc(s, a, perm)
    \/ \E s \in Space, a \in VA : sys_mem_alloc_no_mem(s, a) \/ sys_mem_unmap(s, a)
    \/ \E s, t \in Space, a, b \in VA, perm \in Perm : sys_mem_map(s, a, t, b, perm)
    \/ \E s \in Space, a \in Addr : do_tlb_refill(s, a) \/ do_tlb_refill_passive(s, a)

Spec == Init /\ [][Next]_vars

-----------------------------------------------------------------------------
(* Properties.                                                             *)

\* The entries, in all address spaces, that refer to page p.
Refs(p) == {x \in Space \X Addr : /\ pt[x[1]][x[2]] # NULL
                                  /\ pt[x[1]][x[2]].page = p}

\* pmap.h:17: pp_ref is the count of the pointers to a page, through every order
\* of mapping, remapping, sharing and teardown (a page directory that a failed
\* env_alloc left behind keeps its count of 1).
RefCountExact ==
    \A p \in Page : pp_ref[p] = Cardinality(Refs(p))
                                + IF p \in abandoned THEN 1 ELSE 0

\* No page that is mapped, or that serves as page table or page directory, is on
\* the free list, so page_alloc never hands out (and zeroes) memory in use.
MappedNotFree ==
    \A s \in Space, a \in Addr : pt[s][a] # NULL => pt[s][a].page \notin page_free_list

\* A page that serves as page table or directory has no other use: user code
\* cannot come to hold a mapping of it below UTOP.
TablesPrivate ==
    \A s, t \in Space, a \in Window \cup {Self}, b \in Addr :
        /\ pt[s][a] # NULL /\ pt[t][b] # NULL
        /\ pt[s][a].page = pt[t][b].page
        => s = t /\ a = b

\* Every TLB entry says what the page tables of the one live environment with
\* that ASID say now: none survives a remapping, an unmapping, a freed page
\* table, or the reuse of an ASID by a new environment.
TlbCoherent ==
    \A x \in tlb : \E s \in Space :
        env_asid[s] = x.asid /\ pt[s][x.va] = [page |-> x.page, perm |-> x.perm]

\* Two live environments never share an ASID, and the bitmap has exactly theirs.
AsidsExact ==
    /\ asid_bitmap = {env_asid[s] : s \in {t \in Space : Live(t)}}
    /\ \A s, t \in Space : Live(s) /\ env_asid[s] = env_asid[t] => s = t

\* A page drops out of use without returning to the free list only in a step
\* that finds memory exhausted (sys_mem_alloc, when page_insert fails).
LeakOnlyWhenFull ==
    [][\A p \in Page :
          /\ p \notin page_free_list' /\ pp_ref'[p] = 0
          /\ ~(p \notin page_free_list /\ pp_ref[p] = 0)
          => page_free_list' = {}]_vars

\* pmap.c:296, the assertion of page_decref: a page that is still mapped has a
\* positive count, so it can be unmapped.
MappedHasRef ==
    \A s \in Space, a \in Addr : pt[s][a] # NULL => pp_ref[pt[s][a].page] > 0

\* Every page is accounted for: pp_ref counts its mappings, the free list has none
\* that is mapped, and a page table is nobody's page (page_insert, page_decref,
\* env_free).
FramesExact == TypeOK /\ RefCountExact /\ MappedNotFree /\ TablesPrivate

\* What the TLB translates is what the tables say, for the environment that has the
\* ASID now (tlb_invalidate, asid_free).
TranslationsExact == TlbCoherent /\ AsidsExact

=============================================================================
