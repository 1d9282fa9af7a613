----------------------------- MODULE PmapProofs ------------------------------
(***************************************************************************)
(* Theorems about Pmap, for any number of pages, slots, addresses, ASIDs    *)
(* and TLB entries, while no page is mapped so often that its pp_ref wraps. *)
(***************************************************************************)
EXTENDS Pmap, FiniteSetTheorems, TLAPS

\* A page on the free list is counted by nothing.
FreeUnused == \A p \in page_free_list : pp_ref[p] = 0

\* A free slot has no mapping left; a live one has its page directory.
DeadEmpty == \A s \in Space : ~Live(s) => \A a \in Addr : pt[s][a] = NULL
LiveHasDirectory == \A s \in Space : Live(s) => pt[s][Self] # NULL

FramesInv == /\ TypeOK /\ RefCountExact /\ FreeUnused /\ TablesPrivate
             /\ DeadEmpty /\ LiveHasDirectory

IInv == FramesInv /\ TlbCoherent /\ AsidsExact

-----------------------------------------------------------------------------
(* Counting the entries that refer to a page.                              *)

\* Entry v refers to page p.
Points(v, p) == v # NULL /\ v.page = p
One(b) == IF b THEN 1 ELSE 0

Tables == [Space -> [Addr -> Entry \cup {NULL}]]
RefsOf(tab, p) == {x \in Space \X Addr : Points(tab[x[1]][x[2]], p)}

LEMMA AddrFinite == IsFiniteSet(Addr) /\ IsFiniteSet(Space \X Addr)
<1> USE FiniteAssumption
<1>1. IsFiniteSet(VA)
  BY FS_Product DEF VA
<1>2. IsFiniteSet(Window)
  BY FS_Product, FS_Singleton DEF Window
<1>3. IsFiniteSet(VA \cup Window)
  BY <1>1, <1>2, FS_Union
<1>4. IsFiniteSet(Addr)
  BY <1>3, FS_Union, FS_Singleton DEF Addr
<1> QED BY <1>4, FS_Product

LEMMA RefsFinite ==
    ASSUME NEW tab, NEW p
    PROVE  IsFiniteSet(RefsOf(tab, p)) /\ Cardinality(RefsOf(tab, p)) \in Nat
<1>1. RefsOf(tab, p) \in SUBSET (Space \X Addr)
  BY DEF RefsOf
<1>2. IsFiniteSet(RefsOf(tab, p))
  BY <1>1, AddrFinite, FS_Subset
<1> QED BY <1>2, FS_CardinalityType

\* Setting one entry changes the counts of the old page and the new one.
LEMMA SetEntry ==
    ASSUME NEW tab \in Tables, NEW s \in Space, NEW a \in Addr,
           NEW v \in Entry \cup {NULL}, NEW p
    PROVE  /\ [tab EXCEPT ![s][a] = v] \in Tables
           /\ Cardinality(RefsOf([tab EXCEPT ![s][a] = v], p))
                = Cardinality(RefsOf(tab, p)) - One(Points(tab[s][a], p)) + One(Points(v, p))
<1> DEFINE new == [tab EXCEPT ![s][a] = v]
           R == RefsOf(tab, p)
           N == RefsOf(new, p)
           x == <<s, a>>
<1>1. new \in Tables
  BY DEF Tables
<1>2. x \in R <=> Points(tab[s][a], p)
  BY DEF RefsOf
<1>3. x \in N <=> Points(v, p)
  BY DEF RefsOf, Tables
<1>4. N \ {x} = R \ {x}
  BY DEF RefsOf, Tables
<1>5. IsFiniteSet(R) /\ Cardinality(R) \in Nat
  BY RefsFinite
<1>6. IsFiniteSet(N) /\ Cardinality(N) \in Nat
  BY RefsFinite
<1> HIDE DEF R, N, x, new
<1>7. Cardinality(R \ {x}) = Cardinality(R) - One(Points(tab[s][a], p))
  <2>1. Cardinality(R \ {x}) = IF x \in R THEN Cardinality(R) - 1 ELSE Cardinality(R)
    BY <1>5, FS_RemoveElement
  <2>2. CASE Points(tab[s][a], p)
    BY <1>2, <2>1, <2>2 DEF One
  <2>3. CASE ~Points(tab[s][a], p)
    BY <1>2, <1>5, <2>1, <2>3 DEF One
  <2> QED BY <2>2, <2>3
<1>8. Cardinality(N \ {x}) = Cardinality(N) - One(Points(v, p))
  <2>1. Cardinality(N \ {x}) = IF x \in N THEN Cardinality(N) - 1 ELSE Cardinality(N)
    BY <1>6, FS_RemoveElement
  <2>2. CASE Points(v, p)
    BY <1>3, <2>1, <2>2 DEF One
  <2>3. CASE ~Points(v, p)
    BY <1>3, <1>6, <2>1, <2>3 DEF One
  <2> QED BY <2>2, <2>3
<1>9. Cardinality(N) = Cardinality(R) - One(Points(tab[s][a], p)) + One(Points(v, p))
  BY <1>4, <1>5, <1>6, <1>7, <1>8, SMTT(30) DEF One
<1> QED BY <1>1, <1>9 DEF R, N, new

LEMMA RefsAre == \A p : Refs(p) = RefsOf(pt, p)
  BY DEF Refs, RefsOf, Points

\* The invariant says that pages on the free list are nobody's.
LEMMA FreeFacts ==
    ASSUME FramesInv, NEW p \in page_free_list
    PROVE  /\ p \in Page /\ pp_ref[p] = 0 /\ p \notin abandoned
           /\ \A s \in Space, a \in Addr : ~Points(pt[s][a], p)
<1>1. p \in Page /\ pp_ref[p] = 0
  BY DEF FramesInv, TypeOK, FreeUnused
<1>2. IsFiniteSet(Refs(p)) /\ Cardinality(Refs(p)) \in Nat
  BY RefsFinite, RefsAre
<1>3. Cardinality(Refs(p)) = 0 /\ p \notin abandoned
  BY <1>1, <1>2 DEF FramesInv, RefCountExact
<1>4. Refs(p) = {}
  BY <1>2, <1>3, FS_EmptySet
<1>5. ASSUME NEW s \in Space, NEW a \in Addr, Points(pt[s][a], p) PROVE FALSE
  BY <1>4, <1>5, RefsAre, <<s, a>> \in RefsOf(pt, p) DEF RefsOf
<1> QED BY <1>1, <1>3, <1>5

\* A page that is mapped is counted.
LEMMA MappedFacts ==
    ASSUME FramesInv, NEW s \in Space, NEW a \in Addr, NEW p \in Page, Points(pt[s][a], p)
    PROVE  /\ p \notin page_free_list
           /\ pp_ref[p] >= 1
           /\ pp_ref[p] = 1 => p \notin abandoned
<1>1. IsFiniteSet(Refs(p)) /\ Cardinality(Refs(p)) \in Nat
  BY RefsFinite, RefsAre
<1>2. Refs(p) # {}
  BY RefsAre, <<s, a>> \in RefsOf(pt, p) DEF RefsOf
<1>3. Cardinality(Refs(p)) >= 1
  BY <1>1, <1>2, FS_EmptySet
<1> QED BY <1>1, <1>3, FreeFacts DEF FramesInv, RefCountExact

-----------------------------------------------------------------------------
(* Setting one entry keeps page tables private.                            *)

TableAddr == Window \cup {Self}

LEMMA AddrFacts ==
    /\ VA \subseteq Addr /\ TableAddr \subseteq Addr /\ Self \in Addr
    /\ VA \cap TableAddr = {} /\ Addr = VA \cup TableAddr
    /\ \A a \in Addr : TableOf(a) \in TableAddr
    /\ \A a \in VA : TableOf(a) # a
  BY WindowAssumption DEF Addr, VA, Window, Self, TableAddr, TableOf

PrivateOf(tab) ==
    \A s, t \in Space, a \in TableAddr, b \in Addr, p \in Page :
        Points(tab[s][a], p) /\ Points(tab[t][b], p) => s = t /\ a = b

LEMMA PrivateIs ==
    ASSUME pt \in Tables
    PROVE  TablesPrivate <=> PrivateOf(pt)
  BY AddrFacts DEF TablesPrivate, PrivateOf, Points, Tables, Entry, TableAddr

\* The page that is entered is either referred to by nothing else, or entered at a
\* user address and not a page table.
LEMMA SetPrivate ==
    ASSUME NEW tab \in Tables, PrivateOf(tab), NEW s \in Space, NEW a \in Addr,
           NEW v \in Entry,
           \/ \A t \in Space, b \in Addr : ~Points(tab[t][b], v.page)
           \/ a \in VA /\ \A t \in Space, b \in TableAddr : ~Points(tab[t][b], v.page)
    PROVE  PrivateOf([tab EXCEPT ![s][a] = v])
<1> DEFINE new == [tab EXCEPT ![s][a] = v]
<1>1. \A t \in Space, b \in Addr : (t # s \/ b # a) => new[t][b] = tab[t][b]
  BY DEF Tables
<1>2. new[s][a] = v
  BY DEF Tables
<1> HIDE DEF new
<1>3. \A p : Points(v, p) => p = v.page
  BY DEF Points
<1> SUFFICES ASSUME NEW t1 \in Space, NEW t2 \in Space, NEW a1 \in TableAddr,
                    NEW b1 \in Addr, NEW p \in Page,
                    Points(new[t1][a1], p), Points(new[t2][b1], p)
             PROVE  t1 = t2 /\ a1 = b1
  BY DEF PrivateOf, new
<1>4. a1 \in Addr
  BY AddrFacts
<1>5. CASE t1 = s /\ a1 = a
  BY <1>1, <1>2, <1>3, <1>4, <1>5, AddrFacts
<1>6. CASE t2 = s /\ b1 = a
  BY <1>1, <1>2, <1>3, <1>4, <1>6, AddrFacts
<1>7. CASE ~(t1 = s /\ a1 = a) /\ ~(t2 = s /\ b1 = a)
  BY <1>1, <1>4, <1>7 DEF PrivateOf
<1> QED BY <1>5, <1>6, <1>7

-----------------------------------------------------------------------------
(* page_insert                                                             *)

\* What page_insert is given: a live environment, a page that is fresh or is some
\* user page, and a user address, or the address of a table that does not exist.
InsertArgs(s, p, a, perm) ==
    /\ s \in Space /\ Live(s) /\ p \in Page /\ a \in Addr /\ perm \in Perm
    /\ pp_ref[p] + 1 < RefMod
    /\ p \in page_free_list \/ \E t \in Space, b \in VA : Points(pt[t][b], p)
    /\ a \in VA \/ (pt[s][a] = NULL /\ p \in page_free_list)

\* Its effect on the tables.
LEMMA InsertTables ==
    ASSUME FramesInv, NEW s, NEW p, NEW a, NEW perm, InsertArgs(s, p, a, perm),
           page_insert(s, p, a, perm, page_free_list \ {p})
    PROVE  /\ pt' \in Tables
           /\ pt'[s][a] = [page |-> p, perm |-> perm]
           /\ \A t \in Space, b \in Addr :
                 (t # s \/ b # a) /\ (t # s \/ pt[t][b] # NULL) => pt'[t][b] = pt[t][b]
           /\ PrivateOf(pt')
<1> DEFINE new == [page |-> p, perm |-> perm]
           U == [pt EXCEPT ![s][a] = new]
<1>0. /\ s \in Space /\ a \in Addr /\ p \in Page /\ perm \in Perm
      /\ pt \in Tables /\ new \in Entry /\ new.page = p
  BY DEF InsertArgs, FramesInv, TypeOK, Tables, Entry
<1>1. PrivateOf(pt)
  BY <1>0, PrivateIs DEF FramesInv
<1>2. /\ U \in Tables /\ U[s][a] = new
      /\ \A t \in Space, b \in Addr : (t # s \/ b # a) => U[t][b] = pt[t][b]
  BY <1>0 DEF Tables
<1>3. PrivateOf(U)
  <2>1. CASE p \in page_free_list
    BY <1>0, <1>1, <2>1, FreeFacts, SetPrivate
  <2>2. CASE p \notin page_free_list
    <3>1. PICK t \in Space, b \in VA : Points(pt[t][b], p)
      BY <2>2 DEF InsertArgs
    <3>2. a \in VA
      BY <2>2 DEF InsertArgs
    <3>3. \A u \in Space, c \in TableAddr : ~Points(pt[u][c], p)
      BY <1>0, <1>1, <3>1, AddrFacts DEF PrivateOf
    <3> QED BY <1>0, <1>1, <3>2, <3>3, SetPrivate
  <2> QED BY <2>1, <2>2
<1> HIDE DEF new, U
<1>4. CASE pt' = U
  BY <1>2, <1>3, <1>4 DEF new
<1>5. ASSUME NEW table \in page_free_list \ {p}, pt[s][a] = NULL, pt[s][TableOf(a)] = NULL,
             pt' = [U EXCEPT ![s][TableOf(a)] = [page |-> table, perm |-> "PTE_D"]]
      PROVE  /\ pt' \in Tables /\ pt'[s][a] = new
             /\ \A t \in Space, b \in Addr :
                   (t # s \/ b # a) /\ (t # s \/ pt[t][b] # NULL) => pt'[t][b] = pt[t][b]
             /\ PrivateOf(pt')
  <2> DEFINE T == TableOf(a)
             entry == [page |-> table, perm |-> "PTE_D"]
  <2>1. T \in TableAddr /\ T \in Addr /\ T # a
    <3>1. a \in VA
      BY <1>5 DEF InsertArgs, FramesInv, LiveHasDirectory, TableOf
    <3> QED BY <1>0, <3>1, AddrFacts
  <2>2. entry \in Entry /\ entry.page = table /\ table # p
    BY FreeFacts DEF Entry, Perm
  <2> HIDE DEF T, entry
  <2>3. pt' = [U EXCEPT ![s][T] = entry]
    BY <1>5 DEF T, entry
  <2>4. \A t \in Space, b \in Addr : ~Points(U[t][b], table)
    BY <1>0, <1>2, <2>2, FreeFacts DEF Points, new
  <2>5. PrivateOf(pt')
    BY <1>0, <1>2, <1>3, <2>1, <2>2, <2>3, <2>4, SetPrivate
  <2>6. pt' \in Tables /\ pt'[s][a] = new
    BY <1>0, <1>2, <2>1, <2>2, <2>3 DEF Tables
  <2>7. \A t \in Space, b \in Addr : (t # s \/ b # T) => pt'[t][b] = U[t][b]
    BY <1>0, <1>2, <2>1, <2>3 DEF Tables
  <2> QED BY <1>2, <1>5, <2>1, <2>5, <2>6, <2>7 DEF T
<1> QED BY <1>4, <1>5 DEF page_insert, page_lookup, new, U

\* The counts follow the tables.
CountsAs(refs, tab, ab) ==
    \A q \in Page : refs[q] = Cardinality(RefsOf(tab, q)) + One(q \in ab)

LEMMA CountsAre == RefCountExact <=> CountsAs(pp_ref, pt, abandoned)
  BY RefsAre DEF RefCountExact, CountsAs, One

LEMMA CountsAreNext == RefCountExact' <=> CountsAs(pp_ref', pt', abandoned')
  BY DEF RefCountExact, CountsAs, One, Refs, RefsOf, Points

\* Its effect on counts and free list: both stay exact, and no page is lost.
LEMMA InsertCounts ==
    ASSUME FramesInv, NEW s, NEW p, NEW a, NEW perm, InsertArgs(s, p, a, perm),
           page_insert(s, p, a, perm, page_free_list \ {p})
    PROVE  /\ pp_ref' \in [Page -> 0..(RefMod - 1)] /\ page_free_list' \subseteq Page
           /\ CountsAs(pp_ref', pt', abandoned)
           /\ \A q \in page_free_list' : pp_ref'[q] = 0
           /\ \A q \in Page : q \notin page_free_list' /\ pp_ref'[q] = 0
                                => q \notin page_free_list /\ pp_ref[q] = 0
<1> DEFINE new == [page |-> p, perm |-> perm]
           old == pt[s][a]
           free == page_free_list \ {p}
           U == [pt EXCEPT ![s][a] = new]
           Count(tab, q) == Cardinality(RefsOf(tab, q))
<1> USE SizesAssumption
<1>0. /\ s \in Space /\ a \in Addr /\ p \in Page /\ perm \in Perm /\ pt \in Tables
      /\ new \in Entry /\ old \in Entry \cup {NULL}
      /\ pp_ref \in [Page -> 0..(RefMod - 1)] /\ page_free_list \subseteq Page
      /\ pp_ref[p] + 1 < RefMod
      /\ \A q \in page_free_list : pp_ref[q] = 0
  BY DEF InsertArgs, FramesInv, TypeOK, Tables, Entry, FreeUnused
<1>1. \A q \in Page : Points(new, q) <=> q = p
  BY <1>0, NullAssumption DEF Points
<1>2. Inc(pp_ref[p]) = pp_ref[p] + 1 /\ Inc(0) = 1
  BY <1>0 DEF Inc
<1>3. \A q \in Page : pp_ref[q] = Count(pt, q) + One(q \in abandoned)
  BY CountsAre DEF FramesInv, CountsAs
<1>4. \A q \in Page : Count(U, q) = Count(pt, q) - One(Points(old, q)) + One(Points(new, q))
  BY <1>0, SetEntry
<1>5. U \in Tables
  BY <1>0, SetEntry
<1>6. \A q \in Page : Count(pt, q) \in Nat
  BY RefsFinite
<1>7. p \in page_free_list => pp_ref[p] = 0
  BY <1>0
<1> HIDE DEF new, old, U, Count
<1>8. CASE old # NULL /\ old.page = p /\ pt' = U /\ page_free_list' = free /\ UNCHANGED pp_ref
  <2>1. p \notin page_free_list
    BY <1>0, <1>8, MappedFacts DEF Points, old
  <2>2. \A q \in Page : Count(pt', q) = Count(pt, q)
    BY <1>1, <1>4, <1>6, <1>8 DEF Points, One
  <2>3. CountsAs(pp_ref', pt', abandoned)
    BY <1>3, <1>8, <2>2 DEF CountsAs, Count
  <2> QED BY <1>0, <1>8, <2>1, <2>3
<1>9. CASE /\ old # NULL /\ old.page # p /\ pt' = U
           /\ pp_ref' = [pp_ref EXCEPT ![old.page] = @ - 1, ![p] = Inc(@)]
           /\ page_free_list' = page_decref(free, old.page)
  <2>1. old.page \in Page /\ Points(old, old.page)
    BY <1>0, <1>9 DEF Entry, Points
  <2>2. /\ pp_ref[old.page] >= 1 /\ old.page \notin page_free_list
    BY <1>0, <2>1, MappedFacts DEF old
  <2>3. /\ pp_ref'[old.page] = pp_ref[old.page] - 1 /\ pp_ref'[p] = pp_ref[p] + 1
        /\ \A q \in Page \ {old.page, p} : pp_ref'[q] = pp_ref[q]
        /\ DOMAIN pp_ref' = Page
    BY <1>0, <1>2, <1>9, <2>1
  <2>4. pp_ref' \in [Page -> 0..(RefMod - 1)]
    <3>1. \A q \in Page : pp_ref'[q] \in 0..(RefMod - 1)
      BY <1>0, <2>1, <2>2, <2>3
    <3>2. pp_ref' = [q \in Page |-> pp_ref'[q]]
      BY <1>0, <1>9
    <3> QED BY <3>1, <3>2
  <2>5. /\ Count(U, old.page) = Count(pt, old.page) - 1 /\ Count(U, p) = Count(pt, p) + 1
        /\ \A q \in Page \ {old.page, p} : Count(U, q) = Count(pt, q)
    BY <1>0, <1>1, <1>4, <1>6, <1>9, <2>1 DEF Points, One
  <2>6. CountsAs(pp_ref', pt', abandoned)
    BY <1>0, <1>3, <1>6, <1>9, <2>1, <2>3, <2>5 DEF CountsAs, Count, One
  <2>7. page_free_list' = IF pp_ref[old.page] = 1 THEN free \cup {old.page} ELSE free
    BY <1>9 DEF page_decref
  <2>8. \A q \in page_free_list' : q \in Page /\ pp_ref'[q] = 0
    BY <1>0, <2>1, <2>2, <2>3, <2>7
  <2>9. \A q \in Page : q \notin page_free_list' /\ pp_ref'[q] = 0
                          => q \notin page_free_list /\ pp_ref[q] = 0
    BY <1>0, <2>1, <2>2, <2>3, <2>7
  <2> QED BY <2>4, <2>6, <2>8, <2>9
<1>10. CASE /\ old = NULL /\ pt' = U
            /\ pp_ref' = [pp_ref EXCEPT ![p] = Inc(@)]
            /\ page_free_list' = free
  <2>1. /\ pp_ref'[p] = pp_ref[p] + 1 /\ \A q \in Page \ {p} : pp_ref'[q] = pp_ref[q]
        /\ pp_ref' \in [Page -> 0..(RefMod - 1)]
    BY <1>0, <1>2, <1>10
  <2>2. Count(U, p) = Count(pt, p) + 1 /\ \A q \in Page \ {p} : Count(U, q) = Count(pt, q)
    BY <1>0, <1>1, <1>4, <1>6, <1>10 DEF Points, One
  <2>3. CountsAs(pp_ref', pt', abandoned)
    BY <1>0, <1>3, <1>6, <1>10, <2>1, <2>2 DEF CountsAs, Count, One
  <2> QED BY <1>0, <1>10, <2>1, <2>3
<1>11. ASSUME NEW table \in free, old = NULL, pt[s][TableOf(a)] = NULL,
              pt' = [U EXCEPT ![s][TableOf(a)] = [page |-> table, perm |-> "PTE_D"]],
              pp_ref' = [pp_ref EXCEPT ![table] = Inc(@), ![p] = Inc(@)],
              page_free_list' = free \ {table}
       PROVE  /\ pp_ref' \in [Page -> 0..(RefMod - 1)] /\ page_free_list' \subseteq Page
              /\ CountsAs(pp_ref', pt', abandoned)
              /\ \A q \in page_free_list' : pp_ref'[q] = 0
              /\ \A q \in Page : q \notin page_free_list' /\ pp_ref'[q] = 0
                                   => q \notin page_free_list /\ pp_ref[q] = 0
  <2> DEFINE T == TableOf(a)
             entry == [page |-> table, perm |-> "PTE_D"]
  <2>1. table \in Page /\ pp_ref[table] = 0 /\ table # p
    BY <1>0
  <2>2. T \in Addr /\ T # a
    <3>1. a \in VA
      BY <1>11 DEF InsertArgs, FramesInv, LiveHasDirectory, TableOf
    <3> QED BY <1>0, <3>1, AddrFacts
  <2>3. entry \in Entry /\ \A q \in Page : Points(entry, q) <=> q = table
    BY <2>1, NullAssumption DEF Entry, Perm, Points
  <2>4. U[s][T] = NULL
    BY <1>0, <1>11, <2>2 DEF U, Tables
  <2> HIDE DEF T, entry
  <2>5. \A q \in Page : Count(pt', q) = Count(U, q) - One(Points(U[s][T], q))
                                                  + One(Points(entry, q))
    <3>1. pt' = [U EXCEPT ![s][T] = entry]
      BY <1>11 DEF T, entry
    <3>2. \A q : Cardinality(RefsOf([U EXCEPT ![s][T] = entry], q))
            = Cardinality(RefsOf(U, q)) - One(Points(U[s][T], q)) + One(Points(entry, q))
      BY <1>0, <1>5, <2>2, <2>3, SetEntry
    <3> QED BY <3>1, <3>2 DEF Count
  <2>6. /\ Count(U, p) = Count(pt, p) + 1 /\ \A q \in Page \ {p} : Count(U, q) = Count(pt, q)
    BY <1>0, <1>1, <1>4, <1>6, <1>11 DEF Points, One
  <2>7. /\ Count(pt', p) = Count(pt, p) + 1 /\ Count(pt', table) = Count(pt, table) + 1
        /\ \A q \in Page \ {p, table} : Count(pt', q) = Count(pt, q)
    BY <1>0, <1>6, <2>1, <2>3, <2>4, <2>5, <2>6 DEF Points, One
  <2>8. /\ pp_ref'[p] = pp_ref[p] + 1 /\ pp_ref'[table] = pp_ref[table] + 1
        /\ \A q \in Page \ {p, table} : pp_ref'[q] = pp_ref[q]
        /\ pp_ref' \in [Page -> 0..(RefMod - 1)]
    BY <1>0, <1>2, <1>11, <2>1
  <2>9. CountsAs(pp_ref', pt', abandoned)
    BY <1>0, <1>3, <1>6, <2>1, <2>7, <2>8 DEF CountsAs, Count, One
  <2> QED BY <1>0, <1>11, <2>1, <2>8, <2>9
<1> QED BY <1>8, <1>9, <1>10, <1>11 DEF page_insert, page_lookup, new, old, U

\* page_insert keeps the invariant of pages and tables.
LEMMA InsertFrames ==
    ASSUME FramesInv, NEW s, NEW p, NEW a, NEW perm, InsertArgs(s, p, a, perm),
           page_insert(s, p, a, perm, page_free_list \ {p}),
           UNCHANGED <<env_asid, asid_bitmap, abandoned>>, tlb' \subseteq TlbEntry
    PROVE  FramesInv'
<1>1. /\ pt' \in Tables /\ PrivateOf(pt') /\ pt'[s][a] = [page |-> p, perm |-> perm]
      /\ \A t \in Space, b \in Addr :
            (t # s \/ b # a) /\ (t # s \/ pt[t][b] # NULL) => pt'[t][b] = pt[t][b]
  BY InsertTables
<1>2. /\ pp_ref' \in [Page -> 0..(RefMod - 1)] /\ page_free_list' \subseteq Page
      /\ CountsAs(pp_ref', pt', abandoned)
      /\ \A q \in page_free_list' : pp_ref'[q] = 0
  BY InsertCounts
<1>3. TypeOK'
  BY <1>1, <1>2 DEF FramesInv, TypeOK, Tables
<1>4. RefCountExact' /\ FreeUnused'
  BY <1>2, CountsAreNext DEF FreeUnused
<1>5. TablesPrivate'
  BY <1>1, AddrFacts DEF TablesPrivate, PrivateOf, Points, Tables, Entry, TableAddr
<1>6. s \in Space /\ Live(s) /\ [page |-> p, perm |-> perm] # NULL
  BY NullAssumption DEF InsertArgs, Entry
<1>7. DeadEmpty' /\ LiveHasDirectory'
  BY <1>1, <1>6, AddrFacts DEF FramesInv, DeadEmpty, LiveHasDirectory, Live
<1> QED BY <1>3, <1>4, <1>5, <1>7 DEF FramesInv

\* It keeps the TLB's translations true, if its own is dropped.
LEMMA InsertTlb ==
    ASSUME IInv, NEW s, NEW p, NEW a, NEW perm, InsertArgs(s, p, a, perm),
           page_insert(s, p, a, perm, page_free_list \ {p}), UNCHANGED env_asid,
           NEW x \in tlb, ~(x.asid = env_asid[s] /\ x.va = a)
    PROVE  \E t \in Space : /\ env_asid'[t] = x.asid
                            /\ pt'[t][x.va] = [page |-> x.page, perm |-> x.perm]
<1>0. FramesInv
  BY DEF IInv
<1>1. /\ pt' \in Tables
      /\ pt'[s][a] = [page |-> p, perm |-> perm]
      /\ \A t \in Space, b \in Addr :
            (t # s \/ b # a) /\ (t # s \/ pt[t][b] # NULL) => pt'[t][b] = pt[t][b]
      /\ PrivateOf(pt')
  BY <1>0, InsertTables
<1>2. PICK t \in Space : env_asid[t] = x.asid /\ pt[t][x.va] = [page |-> x.page, perm |-> x.perm]
  BY DEF IInv, TlbCoherent
<1>3. x.va \in Addr /\ [page |-> x.page, perm |-> x.perm] # NULL
  BY NullAssumption DEF IInv, FramesInv, TypeOK, TlbEntry, Entry
<1> QED BY <1>1, <1>2, <1>3

\* A page leaves use without returning to the free list only if that is empty.
NoLeak == \A p \in Page :
    /\ p \notin page_free_list' /\ pp_ref'[p] = 0
    /\ ~(p \notin page_free_list /\ pp_ref[p] = 0)
    => page_free_list' = {}

\* The handlers that call page_insert and do no more than drop the TLB entry, or
\* put in the new one.
LEMMA InsertStep ==
    ASSUME IInv, NEW s, NEW p, NEW a, NEW perm, InsertArgs(s, p, a, perm),
           page_insert(s, p, a, perm, page_free_list \ {p}),
           tlb' \subseteq tlb_invalidate(tlb, env_asid[s], a)
                  \cup {[asid |-> env_asid[s], va |-> a, page |-> p, perm |-> perm]},
           UNCHANGED <<env_asid, asid_bitmap, abandoned>>
    PROVE  IInv' /\ NoLeak
<1> DEFINE x0 == [asid |-> env_asid[s], va |-> a, page |-> p, perm |-> perm]
<1>0. FramesInv /\ tlb \subseteq TlbEntry /\ s \in Space
  BY DEF IInv, FramesInv, TypeOK, InsertArgs
<1>1. x0 \in TlbEntry
  BY DEF InsertArgs, IInv, FramesInv, TypeOK, TlbEntry, Live
<1>2. tlb' \subseteq TlbEntry
  BY <1>0, <1>1 DEF tlb_invalidate
<1>3. FramesInv'
  BY <1>0, <1>2, InsertFrames
<1>4. TlbCoherent'
  <2> SUFFICES ASSUME NEW x \in tlb'
               PROVE  \E t \in Space : /\ env_asid'[t] = x.asid
                                       /\ pt'[t][x.va] = [page |-> x.page, perm |-> x.perm]
    BY DEF TlbCoherent
  <2>1. CASE x = x0
    <3>1. /\ pt' \in Tables
          /\ pt'[s][a] = [page |-> p, perm |-> perm]
          /\ \A t \in Space, b \in Addr :
                (t # s \/ b # a) /\ (t # s \/ pt[t][b] # NULL) => pt'[t][b] = pt[t][b]
          /\ PrivateOf(pt')
      BY <1>0, InsertTables
    <3> QED BY <1>0, <2>1, <3>1
  <2>2. CASE x # x0
    <3>1. x \in tlb /\ ~(x.asid = env_asid[s] /\ x.va = a)
      BY <2>2 DEF tlb_invalidate
    <3> QED BY <3>1, InsertTlb
  <2> QED BY <2>1, <2>2
<1>5. AsidsExact'
  BY DEF IInv, AsidsExact, Live
<1>6. NoLeak
  BY <1>0, InsertCounts DEF NoLeak
<1> QED BY <1>3, <1>4, <1>5, <1>6 DEF IInv

\* A page from the free list may be inserted.
LEMMA FreshArgs ==
    ASSUME FramesInv, NEW s \in Space, Live(s), NEW p \in page_free_list, NEW a \in Addr,
           a \in VA \/ pt[s][a] = NULL, NEW perm \in Perm
    PROVE  InsertArgs(s, p, a, perm)
  BY FreeFacts, SizesAssumption DEF InsertArgs

LEMMA AllocStep ==
    ASSUME IInv, NEW s \in Space, NEW a \in VA, NEW perm \in Perm, sys_mem_alloc(s, a, perm)
    PROVE  IInv' /\ NoLeak
<1>1. FramesInv /\ Live(s) /\ a \in Addr
  BY AddrFacts DEF IInv, sys_mem_alloc
<1>2. PICK p \in page_free_list : page_insert(s, p, a, perm, page_free_list \ {p})
  BY DEF sys_mem_alloc
<1>3. InsertArgs(s, p, a, perm)
  BY <1>1, FreshArgs
<1> QED BY <1>2, <1>3, InsertStep DEF sys_mem_alloc

LEMMA MapStep ==
    ASSUME ~MayWrap, IInv, NEW s \in Space, NEW t \in Space, NEW a \in VA, NEW b \in VA,
           NEW perm \in Perm, sys_mem_map(s, a, t, b, perm)
    PROVE  IInv' /\ NoLeak
<1>1. FramesInv /\ a \in Addr /\ b \in Addr /\ Live(t)
  BY AddrFacts DEF IInv, sys_mem_map
<1>2. PICK p \in Page : p = pt[s][a].page /\ Points(pt[s][a], p)
  BY <1>1 DEF sys_mem_map, page_lookup, Points, FramesInv, TypeOK, Entry
<1>3. pp_ref[p] + 1 < RefMod
  BY <1>2 DEF sys_mem_map, page_lookup, MayMap
<1>4. InsertArgs(t, p, b, perm)
  BY <1>1, <1>2, <1>3 DEF InsertArgs
<1>5. page_free_list \ {p} = page_free_list
  BY <1>1, <1>2, MappedFacts
<1>6. page_insert(t, p, b, perm, page_free_list \ {p})
  BY <1>2, <1>5 DEF sys_mem_map, page_lookup
<1>7. /\ tlb' = tlb_invalidate(tlb, env_asid[t], b)
      /\ UNCHANGED <<env_asid, asid_bitmap, abandoned>>
  BY DEF sys_mem_map
<1> QED BY <1>4, <1>6, <1>7, InsertStep

LEMMA PassiveStep ==
    ASSUME IInv, NEW s \in Space, NEW a \in Addr, do_tlb_refill_passive(s, a)
    PROVE  IInv' /\ NoLeak
<1>1. FramesInv /\ Live(s) /\ pt[s][a] = NULL /\ "PTE_D" \in Perm
  BY DEF IInv, do_tlb_refill_passive, page_lookup, Perm
<1>2. PICK p \in page_free_list :
         /\ page_insert(s, p, a, "PTE_D", page_free_list \ {p})
         /\ tlbwr(tlb_invalidate(tlb, env_asid[s], a),
                  [asid |-> env_asid[s], va |-> a, page |-> p, perm |-> "PTE_D"])
  BY DEF do_tlb_refill_passive
<1>3. InsertArgs(s, p, a, "PTE_D")
  BY <1>1, FreshArgs
<1>4. tlb' \subseteq tlb_invalidate(tlb, env_asid[s], a)
        \cup {[asid |-> env_asid[s], va |-> a, page |-> p, perm |-> "PTE_D"]}
  BY <1>2 DEF tlbwr
<1>5. UNCHANGED <<env_asid, asid_bitmap, abandoned>>
  BY DEF do_tlb_refill_passive
<1> QED BY <1>2, <1>3, <1>4, <1>5, InsertStep

-----------------------------------------------------------------------------
(* The other handlers.                                                     *)

\* TablesPrivate in the next state.
LEMMA PrivateNext ==
    ASSUME pt' \in Tables, PrivateOf(pt')
    PROVE  TablesPrivate'
  BY AddrFacts DEF TablesPrivate, PrivateOf, Points, Tables, Entry, TableAddr

LEMMA NoMemStep ==
    ASSUME IInv, NEW s \in Space, NEW a \in VA, sys_mem_alloc_no_mem(s, a)
    PROVE  IInv' /\ NoLeak
<1>1. PICK p \in page_free_list : InsertFails(s, a, page_free_list \ {p})
                                  /\ page_free_list' = page_free_list \ {p}
  BY DEF sys_mem_alloc_no_mem
<1>2. page_free_list' = {}
  BY <1>1 DEF InsertFails
<1>3. /\ tlb' \subseteq tlb
      /\ UNCHANGED <<pp_ref, pt, env_asid, asid_bitmap, abandoned>>
  BY DEF sys_mem_alloc_no_mem, tlb_invalidate
<1>4. FramesInv'
  BY <1>2, <1>3 DEF IInv, FramesInv, TypeOK, RefCountExact, Refs, FreeUnused, TablesPrivate,
                    DeadEmpty, LiveHasDirectory, Live
<1>5. TlbCoherent' /\ AsidsExact'
  BY <1>3 DEF IInv, TlbCoherent, AsidsExact, Live
<1> QED BY <1>2, <1>4, <1>5 DEF IInv, NoLeak

LEMMA UnmapStep ==
    ASSUME IInv, NEW s \in Space, NEW a \in VA, sys_mem_unmap(s, a)
    PROVE  IInv' /\ NoLeak
<1> DEFINE Count(tab, q) == Cardinality(RefsOf(tab, q))
<1>0. /\ FramesInv /\ a \in Addr /\ pt \in Tables /\ pp_ref \in [Page -> 0..(RefMod - 1)]
      /\ page_free_list \subseteq Page /\ Live(s)
      /\ UNCHANGED <<env_asid, asid_bitmap, abandoned>>
  BY AddrFacts DEF IInv, FramesInv, TypeOK, Tables, sys_mem_unmap
<1>1. PICK p \in Page : p = pt[s][a].page /\ pt[s][a] # NULL
  BY <1>0 DEF sys_mem_unmap, page_lookup, FramesInv, TypeOK, Entry
<1>2. \A q \in Page : Points(pt[s][a], q) <=> q = p
  BY <1>1 DEF Points
<1>3. pp_ref[p] >= 1 /\ p \notin page_free_list
  BY <1>0, <1>1, <1>2, MappedFacts
<1>4. /\ pt' = [pt EXCEPT ![s][a] = NULL]
      /\ pp_ref' = [pp_ref EXCEPT ![p] = @ - 1]
      /\ page_free_list' = IF pp_ref[p] = 1 THEN page_free_list \cup {p} ELSE page_free_list
      /\ tlb' = tlb_invalidate(tlb, env_asid[s], a)
  BY <1>1 DEF sys_mem_unmap, page_lookup, page_decref
<1>5. /\ pp_ref'[p] = pp_ref[p] - 1 /\ \A q \in Page \ {p} : pp_ref'[q] = pp_ref[q]
      /\ pp_ref' \in [Page -> 0..(RefMod - 1)]
  BY <1>0, <1>3, <1>4, SizesAssumption
<1>6. /\ pt' \in Tables /\ pt'[s][a] = NULL
      /\ \A t \in Space, b \in Addr : (t # s \/ b # a) => pt'[t][b] = pt[t][b]
  BY <1>0, <1>4 DEF Tables
<1>7. \A q \in Page : Count(pt', q) = Count(pt, q) - One(Points(pt[s][a], q))
                                                   + One(Points(NULL, q))
  <2>1. \A q : Cardinality(RefsOf([pt EXCEPT ![s][a] = NULL], q))
          = Cardinality(RefsOf(pt, q)) - One(Points(pt[s][a], q)) + One(Points(NULL, q))
    BY <1>0, SetEntry, NULL \in Entry \cup {NULL}
  <2> QED BY <1>4, <2>1
<1>8. \A q \in Page : Count(pt, q) \in Nat /\ pp_ref[q] = Count(pt, q) + One(q \in abandoned)
  BY <1>0, RefsFinite, CountsAre DEF FramesInv, CountsAs
<1> HIDE DEF Count
<1>9. Count(pt', p) = Count(pt, p) - 1 /\ \A q \in Page \ {p} : Count(pt', q) = Count(pt, q)
  BY <1>2, <1>7, <1>8 DEF Points, One
<1>10. RefCountExact'
  <2>1. CountsAs(pp_ref', pt', abandoned')
    BY <1>0, <1>5, <1>8, <1>9 DEF CountsAs, Count, One
  <2> QED BY <2>1, CountsAreNext
<1>11. FreeUnused'
  BY <1>0, <1>3, <1>4, <1>5 DEF FramesInv, FreeUnused
<1>12. TypeOK'
  BY <1>0, <1>4, <1>5, <1>6 DEF FramesInv, TypeOK, Tables, tlb_invalidate
<1>13. TablesPrivate'
  <2>1. PrivateOf(pt)
    BY <1>0, PrivateIs DEF FramesInv
  <2>2. \A t \in Space, b \in Addr, q \in Page : Points(pt'[t][b], q) => Points(pt[t][b], q)
    BY <1>6 DEF Points
  <2>3. PrivateOf(pt')
    BY <2>1, <2>2, AddrFacts DEF PrivateOf
  <2> QED BY <1>6, <2>3, PrivateNext
<1>14. DeadEmpty' /\ LiveHasDirectory'
  BY <1>0, <1>6, AddrFacts DEF FramesInv, DeadEmpty, LiveHasDirectory, Live, TableAddr
<1>15. TlbCoherent'
  <2> SUFFICES ASSUME NEW x \in tlb'
               PROVE  \E t \in Space : /\ env_asid'[t] = x.asid
                                       /\ pt'[t][x.va] = [page |-> x.page, perm |-> x.perm]
    BY DEF TlbCoherent
  <2>1. x \in tlb /\ ~(x.asid = env_asid[s] /\ x.va = a)
    BY <1>4 DEF tlb_invalidate
  <2>2. PICK t \in Space : /\ env_asid[t] = x.asid
                           /\ pt[t][x.va] = [page |-> x.page, perm |-> x.perm]
    BY <2>1 DEF IInv, TlbCoherent
  <2>3. x.va \in Addr
    BY <1>0, <2>1 DEF FramesInv, TypeOK, TlbEntry
  <2> QED BY <1>0, <1>6, <2>1, <2>2, <2>3
<1>16. AsidsExact'
  BY <1>0 DEF IInv, AsidsExact, Live
<1>17. NoLeak
  BY <1>0, <1>3, <1>4, <1>5 DEF NoLeak
<1> QED BY <1>10, <1>11, <1>12, <1>13, <1>14, <1>15, <1>16, <1>17 DEF IInv, FramesInv

LEMMA RefillStep ==
    ASSUME IInv, NEW s \in Space, NEW a \in Addr, do_tlb_refill(s, a)
    PROVE  IInv' /\ NoLeak
<1> DEFINE e == pt[s][a]
           x0 == [asid |-> env_asid[s], va |-> a, page |-> e.page, perm |-> e.perm]
<1>1. /\ tlb' \subseteq tlb \cup {x0} /\ Live(s) /\ e # NULL
      /\ UNCHANGED <<page_free_list, pp_ref, pt, env_asid, asid_bitmap, abandoned>>
  BY DEF do_tlb_refill, tlbwr, page_lookup
<1>2. e \in Entry /\ e = [page |-> e.page, perm |-> e.perm]
  BY <1>1 DEF IInv, FramesInv, TypeOK, Entry
<1>3. x0 \in TlbEntry
  BY <1>1, <1>2 DEF IInv, FramesInv, TypeOK, TlbEntry, Live, Entry
<1>4. FramesInv'
  BY <1>1, <1>3 DEF IInv, FramesInv, TypeOK, RefCountExact, Refs, FreeUnused, TablesPrivate,
                    DeadEmpty, LiveHasDirectory, Live
<1>5. TlbCoherent'
  <2> SUFFICES ASSUME NEW x \in tlb'
               PROVE  \E t \in Space : /\ env_asid[t] = x.asid
                                       /\ pt[t][x.va] = [page |-> x.page, perm |-> x.perm]
    BY <1>1 DEF TlbCoherent
  <2>1. CASE x = x0
    BY <1>2, <2>1
  <2>2. CASE x # x0
    BY <1>1, <2>2 DEF IInv, TlbCoherent
  <2> QED BY <2>1, <2>2
<1>6. AsidsExact'
  BY <1>1 DEF IInv, AsidsExact, Live
<1> QED BY <1>1, <1>4, <1>5, <1>6 DEF IInv, NoLeak

-----------------------------------------------------------------------------
(* Address spaces come and go.                                             *)

LEMMA EnvAllocStep ==
    ASSUME IInv, NEW s \in Space, env_alloc(s)
    PROVE  IInv' /\ NoLeak
<1> DEFINE Count(tab, q) == Cardinality(RefsOf(tab, q))
<1>0. /\ FramesInv /\ pt \in Tables /\ pp_ref \in [Page -> 0..(RefMod - 1)]
      /\ page_free_list \subseteq Page /\ ~Live(s) /\ Self \in Addr
      /\ env_asid \in [Space -> Asid \cup {NULL}]
      /\ UNCHANGED <<tlb, abandoned>>
  BY AddrFacts DEF IInv, FramesInv, TypeOK, Tables, env_alloc
<1>1. PICK p \in page_free_list, id \in Asid :
         /\ asid_alloc(id)
         /\ page_free_list' = page_free_list \ {p}
         /\ pp_ref' = [pp_ref EXCEPT ![p] = Inc(@)]
         /\ pt' = [pt EXCEPT ![s][Self] = [page |-> p, perm |-> "read-only"]]
         /\ env_asid' = [env_asid EXCEPT ![s] = id]
  BY DEF env_alloc
<1> DEFINE new == [page |-> p, perm |-> "read-only"]
<1>2. p \in Page /\ pp_ref[p] = 0 /\ \A t \in Space, b \in Addr : ~Points(pt[t][b], p)
  BY <1>0, FreeFacts
<1>3. new \in Entry /\ new.page = p /\ \A q \in Page : Points(new, q) <=> q = p
  BY <1>2, NullAssumption DEF Entry, Perm, Points
<1>4. pt[s][Self] = NULL
  BY <1>0 DEF FramesInv, DeadEmpty
<1>5. /\ pp_ref'[p] = 1 /\ \A q \in Page \ {p} : pp_ref'[q] = pp_ref[q]
      /\ pp_ref' \in [Page -> 0..(RefMod - 1)]
  BY <1>0, <1>1, <1>2, SizesAssumption DEF Inc
<1> HIDE DEF new
<1>6. /\ pt' \in Tables /\ pt'[s][Self] = new
      /\ \A t \in Space, b \in Addr : (t # s \/ b # Self) => pt'[t][b] = pt[t][b]
  BY <1>0, <1>1, <1>3 DEF Tables, new
<1>7. \A q \in Page : Count(pt', q) = Count(pt, q) - One(Points(NULL, q)) + One(Points(new, q))
  <2>1. \A q : Cardinality(RefsOf([pt EXCEPT ![s][Self] = new], q))
          = Cardinality(RefsOf(pt, q)) - One(Points(pt[s][Self], q)) + One(Points(new, q))
    BY <1>0, <1>3, SetEntry, ZenonT(40), new \in Entry \cup {NULL}
  <2> QED BY <1>1, <1>4, <2>1 DEF new
<1>8. \A q \in Page : Count(pt, q) \in Nat /\ pp_ref[q] = Count(pt, q) + One(q \in abandoned)
  BY <1>0, RefsFinite, CountsAre DEF FramesInv, CountsAs
<1> HIDE DEF Count
<1>9. Count(pt', p) = Count(pt, p) + 1 /\ \A q \in Page \ {p} : Count(pt', q) = Count(pt, q)
  BY <1>2, <1>3, <1>7, <1>8 DEF Points, One
<1>10. RefCountExact'
  <2>1. CountsAs(pp_ref', pt', abandoned')
    BY <1>0, <1>2, <1>5, <1>8, <1>9 DEF CountsAs, Count, One
  <2> QED BY <2>1, CountsAreNext
<1>11. FreeUnused'
  BY <1>0, <1>1, <1>5 DEF FramesInv, FreeUnused
<1>12. env_asid'[s] = id /\ \A t \in Space \ {s} : env_asid'[t] = env_asid[t]
  BY <1>0, <1>1
<1>13. Live(s)' /\ \A t \in Space \ {s} : Live(t)' <=> Live(t)
  BY <1>12, NullAssumption DEF Live
<1>14. TypeOK'
  BY <1>0, <1>1, <1>5, <1>6 DEF FramesInv, TypeOK, Tables, asid_alloc
<1>15. TablesPrivate'
  <2>1. PrivateOf(pt)
    BY <1>0, PrivateIs DEF FramesInv
  <2>2. PrivateOf([pt EXCEPT ![s][Self] = new])
    BY <1>0, <1>2, <1>3, <2>1, SetPrivate
  <2> QED BY <1>1, <1>6, <2>2, PrivateNext DEF new
<1>16. DeadEmpty' /\ LiveHasDirectory'
  BY <1>0, <1>3, <1>6, <1>13, NullAssumption DEF FramesInv, DeadEmpty, LiveHasDirectory
<1>17. AsidsExact'
  <2>1. id \notin asid_bitmap /\ asid_bitmap' = asid_bitmap \cup {id}
    BY <1>1 DEF asid_alloc
  <2>2. \A t \in Space : Live(t) => env_asid[t] \in asid_bitmap
    BY DEF IInv, AsidsExact
  <2>3. \A i \in asid_bitmap : \E t \in Space : Live(t) /\ env_asid[t] = i
    BY DEF IInv, AsidsExact
  <2>4. \A i : i \in asid_bitmap' <=> \E t \in Space : Live(t)' /\ env_asid'[t] = i
    BY <1>0, <1>12, <1>13, <2>1, <2>2, <2>3
  <2>5. \A t, u \in Space : Live(t)' /\ env_asid'[t] = env_asid'[u] => t = u
    <3> SUFFICES ASSUME NEW t \in Space, NEW u \in Space, Live(t)', env_asid'[t] = env_asid'[u]
                 PROVE  t = u
      OBVIOUS
    <3>1. CASE t # s /\ u # s
      BY <1>12, <1>13, <3>1 DEF IInv, AsidsExact
    <3>2. CASE t = s /\ u # s
      BY <1>12, <2>1, <2>2, <3>2, NullAssumption DEF Live
    <3>3. CASE t # s /\ u = s
      BY <1>12, <1>13, <2>1, <2>2, <3>3
    <3> QED BY <3>1, <3>2, <3>3
  <2> QED BY <2>4, <2>5 DEF AsidsExact
<1>18. TlbCoherent'
  <2> SUFFICES ASSUME NEW x \in tlb
               PROVE  \E t \in Space : /\ env_asid'[t] = x.asid
                                       /\ pt'[t][x.va] = [page |-> x.page, perm |-> x.perm]
    BY <1>0 DEF TlbCoherent
  <2>1. PICK t \in Space : /\ env_asid[t] = x.asid
                           /\ pt[t][x.va] = [page |-> x.page, perm |-> x.perm]
    BY DEF IInv, TlbCoherent
  <2>2. x.va \in Addr /\ x.asid \in Asid
    BY <1>0 DEF FramesInv, TypeOK, TlbEntry
  <2>3. t # s
    BY <1>0, <2>1, <2>2, NullAssumption DEF Live
  <2> QED BY <1>6, <1>12, <2>1, <2>2, <2>3
<1>19. NoLeak
  BY <1>0, <1>1, <1>5 DEF NoLeak
<1> QED BY <1>10, <1>11, <1>14, <1>15, <1>16, <1>17, <1>18, <1>19 DEF IInv, FramesInv

LEMMA NoAsidStep ==
    ASSUME IInv, NEW s \in Space, env_alloc_no_asid(s)
    PROVE  IInv' /\ NoLeak
<1>0. /\ FramesInv /\ pp_ref \in [Page -> 0..(RefMod - 1)] /\ page_free_list \subseteq Page
      /\ UNCHANGED <<pt, env_asid, asid_bitmap, tlb>>
  BY DEF IInv, FramesInv, TypeOK, env_alloc_no_asid
<1>1. PICK p \in page_free_list : /\ page_free_list' = page_free_list \ {p}
                                  /\ pp_ref' = [pp_ref EXCEPT ![p] = Inc(@)]
                                  /\ abandoned' = abandoned \cup {p}
  BY DEF env_alloc_no_asid
<1>2. p \in Page /\ pp_ref[p] = 0 /\ p \notin abandoned
  BY <1>0, FreeFacts
<1>3. /\ pp_ref'[p] = 1 /\ \A q \in Page \ {p} : pp_ref'[q] = pp_ref[q]
      /\ pp_ref' \in [Page -> 0..(RefMod - 1)]
  BY <1>0, <1>1, <1>2, SizesAssumption DEF Inc
<1>4. \A q \in Page : /\ Cardinality(RefsOf(pt, q)) \in Nat
                      /\ pp_ref[q] = Cardinality(RefsOf(pt, q)) + One(q \in abandoned)
  BY <1>0, RefsFinite, CountsAre DEF FramesInv, CountsAs
<1>5. RefCountExact'
  <2>1. CountsAs(pp_ref', pt', abandoned')
    BY <1>0, <1>1, <1>2, <1>3, <1>4 DEF CountsAs, One
  <2> QED BY <2>1, CountsAreNext
<1>6. TypeOK' /\ FreeUnused'
  BY <1>0, <1>1, <1>2, <1>3 DEF FramesInv, TypeOK, FreeUnused
<1>7. TablesPrivate' /\ DeadEmpty' /\ LiveHasDirectory' /\ TlbCoherent' /\ AsidsExact'
  BY <1>0 DEF IInv, FramesInv, TablesPrivate, DeadEmpty, LiveHasDirectory, TlbCoherent,
              AsidsExact, Live
<1>8. NoLeak
  BY <1>0, <1>1, <1>3 DEF NoLeak
<1> QED BY <1>5, <1>6, <1>7, <1>8 DEF IInv, FramesInv

\* Dropping all entries of a slot.
LEMMA ClearSlot ==
    ASSUME pt \in Tables, NEW s \in Space, NEW q,
           pt' = [pt EXCEPT ![s] = [a \in Addr |-> NULL]]
    PROVE  /\ Cardinality(RefsIn(s, q)) \in Nat
           /\ Cardinality(RefsIn(s, q)) = 0 <=> RefsIn(s, q) = {}
           /\ Cardinality(RefsOf(pt, q))
                = Cardinality(RefsOf(pt', q)) + Cardinality(RefsIn(s, q))
<1> DEFINE In == RefsIn(s, q)
           A == RefsOf(pt', q)
           B == {s} \X In
<1>1. IsFiniteSet(In) /\ Cardinality(In) \in Nat
  <2>1. In \in SUBSET Addr
    BY DEF RefsIn
  <2>2. IsFiniteSet(In)
    BY <2>1, AddrFinite, FS_Subset
  <2> QED BY <2>2, FS_CardinalityType
<1>2. IsFiniteSet(A) /\ Cardinality(A) \in Nat
  BY RefsFinite
<1>3. IsFiniteSet(B) /\ Cardinality(B) = Cardinality(In)
  <2>1. IsFiniteSet({s}) /\ Cardinality({s}) = 1
    BY FS_Singleton
  <2>2. IsFiniteSet(B) /\ Cardinality(B) = Cardinality({s}) * Cardinality(In)
    BY <1>1, <2>1, FS_Product
  <2> QED BY <1>1, <2>1, <2>2
<1>4. RefsOf(pt, q) = A \cup B /\ A \cap B = {}
  <2>1. /\ \A a \in Addr : pt'[s][a] = NULL
        /\ \A t \in Space \ {s}, a \in Addr : pt'[t][a] = pt[t][a]
    BY DEF Tables
  <2> QED BY <2>1 DEF RefsOf, RefsIn, Points
<1> HIDE DEF In, A, B
<1>5. Cardinality(A \cup B) = Cardinality(A) + Cardinality(B) - Cardinality(A \cap B)
  BY <1>2, <1>3, FS_Union
<1>6. Cardinality(A \cap B) = 0
  BY <1>4, FS_EmptySet
<1>7. Cardinality(In) = 0 <=> In = {}
  BY <1>1, FS_EmptySet
<1> QED BY <1>1, <1>2, <1>3, <1>4, <1>5, <1>6, <1>7 DEF In, A

LEMMA EnvFreeStep ==
    ASSUME IInv, NEW s \in Space, env_free(s)
    PROVE  IInv' /\ NoLeak
<1> DEFINE Count(tab, q) == Cardinality(RefsOf(tab, q))
           Own(q) == Cardinality(RefsIn(s, q))
<1>0. /\ FramesInv /\ pt \in Tables /\ pp_ref \in [Page -> 0..(RefMod - 1)]
      /\ page_free_list \subseteq Page /\ Live(s)
      /\ env_asid \in [Space -> Asid \cup {NULL}]
  BY DEF IInv, FramesInv, TypeOK, Tables, env_free
<1>1. /\ \A p \in Page : pp_ref[p] >= Own(p)
      /\ pp_ref' = [p \in Page |-> pp_ref[p] - Own(p)]
      /\ page_free_list' = page_free_list \cup
                             {p \in Page : RefsIn(s, p) # {} /\ pp_ref'[p] = 0}
      /\ tlb' = {x \in tlb : ~(x.asid = env_asid[s] /\ pt[s][x.va] # NULL)}
      /\ pt' = [pt EXCEPT ![s] = [a \in Addr |-> NULL]]
      /\ asid_bitmap' = asid_bitmap \ {env_asid[s]}
      /\ env_asid' = [env_asid EXCEPT ![s] = NULL]
      /\ UNCHANGED abandoned
  BY DEF env_free, asid_free
<1>2. \A q \in Page : /\ Own(q) \in Nat /\ (Own(q) = 0 <=> RefsIn(s, q) = {})
                      /\ Count(pt, q) = Count(pt', q) + Own(q)
  BY <1>0, <1>1, ClearSlot
<1>3. \A q \in Page : /\ Count(pt, q) \in Nat /\ Count(pt', q) \in Nat
                      /\ pp_ref[q] = Count(pt, q) + One(q \in abandoned)
  BY <1>0, RefsFinite, CountsAre DEF FramesInv, CountsAs
<1> HIDE DEF Count, Own
<1>4. \A q \in Page : pp_ref'[q] = pp_ref[q] - Own(q) /\ pp_ref'[q] \in 0..(RefMod - 1)
  BY <1>0, <1>1, <1>2, SizesAssumption
<1>5. RefCountExact'
  <2>1. \A q \in Page : pp_ref'[q] = Count(pt', q) + One(q \in abandoned)
    <3> TAKE q \in Page
    <3>1. One(q \in abandoned) \in Nat
      BY DEF One
    <3> QED BY <1>2, <1>3, <1>4, <3>1
  <2>2. CountsAs(pp_ref', pt', abandoned')
    BY <1>1, <2>1 DEF CountsAs, Count
  <2> QED BY <2>2, CountsAreNext
<1>6. /\ \A a \in Addr : pt'[s][a] = NULL
      /\ \A t \in Space \ {s} : pt'[t] = pt[t]
      /\ pt' \in Tables
  BY <1>0, <1>1 DEF Tables
<1>7. env_asid'[s] = NULL /\ \A t \in Space \ {s} : env_asid'[t] = env_asid[t]
  BY <1>0, <1>1
<1>8. ~Live(s)' /\ \A t \in Space \ {s} : Live(t)' <=> Live(t)
  BY <1>7 DEF Live
<1>9. FreeUnused'
  <2>1. \A q \in page_free_list : pp_ref[q] = 0 /\ q \in Page
    BY <1>0 DEF FramesInv, FreeUnused
  <2>2. \A q \in page_free_list : pp_ref'[q] = 0
    BY <1>0, <1>1, <1>2, <1>4, <2>1
  <2> QED BY <1>1, <2>2 DEF FreeUnused
<1>10. TypeOK'
  <2>1. pp_ref' \in [Page -> 0..(RefMod - 1)]
    BY <1>1, <1>4
  <2> QED BY <1>0, <1>1, <1>6, <2>1 DEF FramesInv, TypeOK, Tables
<1>11. TablesPrivate'
  <2>1. PrivateOf(pt)
    BY <1>0, PrivateIs DEF FramesInv
  <2>2. \A t \in Space, b \in Addr, q \in Page : Points(pt'[t][b], q) => Points(pt[t][b], q)
    BY <1>6 DEF Points
  <2>3. PrivateOf(pt')
    BY <2>1, <2>2, AddrFacts DEF PrivateOf
  <2> QED BY <1>6, <2>3, PrivateNext
<1>12. DeadEmpty' /\ LiveHasDirectory'
  BY <1>0, <1>6, <1>8 DEF FramesInv, DeadEmpty, LiveHasDirectory
<1>13. AsidsExact'
  <2>1. \A i : i \in asid_bitmap <=> \E t \in Space : Live(t) /\ env_asid[t] = i
    BY DEF IInv, AsidsExact
  <2>2. \A t, u \in Space : Live(t) /\ env_asid[t] = env_asid[u] => t = u
    BY DEF IInv, AsidsExact
  <2>3. \A i : i \in asid_bitmap' <=> \E t \in Space : Live(t)' /\ env_asid'[t] = i
    BY <1>0, <1>1, <1>7, <1>8, <2>1, <2>2
  <2>4. \A t, u \in Space : Live(t)' /\ env_asid'[t] = env_asid'[u] => t = u
    BY <1>7, <1>8, <2>2 DEF Live
  <2> QED BY <2>3, <2>4 DEF AsidsExact
<1>14. TlbCoherent'
  <2> SUFFICES ASSUME NEW x \in tlb'
               PROVE  \E t \in Space : /\ env_asid'[t] = x.asid
                                       /\ pt'[t][x.va] = [page |-> x.page, perm |-> x.perm]
    BY DEF TlbCoherent
  <2>1. x \in tlb /\ ~(x.asid = env_asid[s] /\ pt[s][x.va] # NULL)
    BY <1>1
  <2>2. PICK t \in Space : /\ env_asid[t] = x.asid
                           /\ pt[t][x.va] = [page |-> x.page, perm |-> x.perm]
    BY <2>1 DEF IInv, TlbCoherent
  <2>3. [page |-> x.page, perm |-> x.perm] # NULL
    BY <1>0, <2>1, NullAssumption DEF FramesInv, TypeOK, TlbEntry, Entry
  <2> QED BY <1>6, <1>7, <2>1, <2>2, <2>3
<1>15. NoLeak
  BY <1>0, <1>1, <1>2, <1>4 DEF NoLeak, FramesInv, FreeUnused
<1> QED BY <1>5, <1>9, <1>10, <1>11, <1>12, <1>13, <1>14, <1>15 DEF IInv, FramesInv

-----------------------------------------------------------------------------

LEMMA InitInv == Init => IInv
<1> SUFFICES ASSUME Init PROVE IInv
  OBVIOUS
<1> USE DEF Init
<1>1. TypeOK
  BY SizesAssumption DEF TypeOK
<1>2. \A p : Refs(p) = {}
  BY DEF Refs
<1>3. RefCountExact
  BY <1>2, FS_EmptySet DEF RefCountExact
<1> QED BY <1>1, <1>3, AddrFacts DEF IInv, FramesInv, FreeUnused, TablesPrivate, DeadEmpty,
          LiveHasDirectory, TlbCoherent, AsidsExact, Live, TableAddr

\* One step keeps the invariant, and loses no page but when memory is full.
LEMMA NextInv ==
    ASSUME ~MayWrap, IInv, [Next]_vars
    PROVE  IInv' /\ (NoLeak \/ UNCHANGED vars)
<1>1. CASE Next
  BY <1>1, EnvAllocStep, NoAsidStep, EnvFreeStep, AllocStep, NoMemStep, UnmapStep, MapStep,
     RefillStep, PassiveStep DEF Next
<1>2. CASE UNCHANGED vars
  BY <1>2 DEF vars, IInv, FramesInv, TypeOK, RefCountExact, Refs, FreeUnused, TablesPrivate,
              DeadEmpty, LiveHasDirectory, TlbCoherent, AsidsExact, Live
<1> QED BY <1>1, <1>2

LEMMA InvExact == IInv => FramesExact /\ TranslationsExact
<1> SUFFICES ASSUME IInv PROVE MappedNotFree
  BY DEF IInv, FramesInv, FramesExact, TranslationsExact
<1>1. FramesInv
  BY DEF IInv
<1>2. ASSUME NEW s \in Space, NEW a \in Addr, pt[s][a] # NULL
      PROVE  pt[s][a].page \notin page_free_list
  BY <1>1, <1>2, FreeFacts DEF Points
<1> QED BY <1>2 DEF MappedNotFree

\* pp_ref counts exactly the mappings of a page, no page on the free list is mapped,
\* and page tables and directories are nobody's pages (page_insert, page_decref,
\* env_free), for any sizes, as long as pp_ref does not wrap.
THEOREM FramesAreExact ==
    ASSUME ~MayWrap
    PROVE  Spec => []FramesExact
<1>1. IInv /\ [Next]_vars => IInv'
  BY NextInv
<1> QED BY <1>1, InitInv, InvExact, PTL DEF Spec

\* Every TLB entry is what the tables of the live owner of its ASID say, and the ASIDs
\* in use are exactly those of the live environments, each with its own
\* (tlb_invalidate, asid_alloc, asid_free), for any sizes.
THEOREM TranslationsAreExact ==
    ASSUME ~MayWrap
    PROVE  Spec => []TranslationsExact
<1>1. IInv /\ [Next]_vars => IInv'
  BY NextInv
<1> QED BY <1>1, InitInv, InvExact, PTL DEF Spec

\* Only a step that finds memory exhausted loses a page: sys_mem_alloc, when it has
\* taken the last page and page_insert fails.
THEOREM LeaksOnlyWhenFull ==
    ASSUME ~MayWrap
    PROVE  Spec => LeakOnlyWhenFull
<1>1. IInv /\ [Next]_vars => IInv'
  BY NextInv
<1>2. IInv /\ [Next]_vars =>
        [\A p \in Page :
            /\ p \notin page_free_list' /\ pp_ref'[p] = 0
            /\ ~(p \notin page_free_list /\ pp_ref[p] = 0)
            => page_free_list' = {}]_vars
  BY NextInv DEF NoLeak
<1> QED BY <1>1, <1>2, InitInv, PTL DEF Spec, LeakOnlyWhenFull

=============================================================================
