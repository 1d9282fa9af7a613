------------------------------ MODULE ElfLoad -------------------------------
(***************************************************************************)
(* elf_load_seg (lib/elfloader.c): the loadable segments of a program are   *)
(* brought into an address space page by page, by load_icode in the kernel  *)
(* and by spawn in user code.  One step is one call of map_page.            *)
(*                                                                         *)
(* A byte of a segment's file image is the pair of the segment's number and *)
(* the offset, so that a byte at the wrong place shows; ZeroByte is a byte  *)
(* of a fresh page.                                                         *)
(***************************************************************************)
EXTENDS Naturals, Sequences

CONSTANTS BY2PG,      \* bytes of a page
          MaxVa,      \* bound: addresses
          MaxSize,    \* bound: p_memsz
          NPhdr,      \* segments of the program
          LinkRules,  \* what the linker script guarantees
          NULL,       \* no page, no file contents
          ZeroByte

\* Segments share no page; a segment that does not start on a page either fills
\* its first page from the file or has no part that is not in the file.
AllLinkRules == {"own pages", "full first page"}

Segment == [va : 0..MaxVa, filesz : 0..MaxSize, memsz : 0..MaxSize]
VPage == 0..((MaxVa + MaxSize) \div BY2PG)
Offset == 0..(BY2PG - 1)
Byte == ((1..NPhdr) \X (0..(MaxSize - 1))) \cup {ZeroByte}

ElfConstantsOK ==
    /\ BY2PG \in Nat \ {0} /\ MaxVa \in Nat /\ MaxSize \in Nat /\ NPhdr \in Nat \ {0}
    /\ LinkRules \subseteq AllLinkRules
    /\ NULL \notin Nat /\ NULL \notin [Offset -> Byte] /\ ZeroByte \notin (1..NPhdr) \X Nat

ASSUME ElfConstantsAssumption == ElfConstantsOK

VARIABLES segs,   \* the program headers: an input, never changed
          seg,    \* the segment being loaded
          phase,  \* where elf_load_seg is
          elf_i,  \* bytes dealt with
          mem     \* the address space: pages of bytes, or NULL

elfVars == <<segs, seg, phase, elf_i, mem>>

MinOf(a, b) == IF a < b THEN a ELSE b
PageOf(va) == va \div BY2PG
StartOffset(s) == s.va % BY2PG

\* The pages from the first address of segment s to its last.
PagesOf(s) == {p \in VPage : PageOf(s.va) <= p
                              /\ (p = PageOf(s.va) \/ p * BY2PG < s.va + s.memsz)}

FullFirstPage(s) == \/ StartOffset(s) = 0
                    \/ s.filesz >= BY2PG - StartOffset(s)
                    \/ s.memsz = s.filesz

ElfTypeOK ==
    /\ segs \in [1..NPhdr -> Segment]
    /\ seg \in 1..(NPhdr + 1)
    /\ phase \in {"first", "file", "zero", "failed"}
    /\ elf_i \in 0..(MaxSize + BY2PG - 1)
    /\ mem \in [VPage -> [Offset -> Byte] \cup {NULL}]

ElfInit ==
    /\ segs \in [1..NPhdr -> Segment]
    /\ \A n \in 1..NPhdr : segs[n].filesz <= segs[n].memsz
    /\ "own pages" \in LinkRules =>
           \A m, n \in 1..NPhdr :
               m < n => \A p \in PagesOf(segs[m]), q \in PagesOf(segs[n]) : p < q
    /\ "full first page" \in LinkRules => \A n \in 1..NPhdr : FullFirstPage(segs[n])
    /\ seg = 1 /\ phase = "first" /\ elf_i = 0
    /\ mem = [p \in VPage |-> NULL]

-----------------------------------------------------------------------------

\* load_icode_mapper and spawn_mapper: a fresh page takes the place of what is
\* mapped at va; len bytes of the file, from src on, are copied to offset.
map_page(va, offset, src, len) ==
    mem' = [mem EXCEPT ![PageOf(va)] = [o \in Offset |->
               IF src # NULL /\ offset <= o /\ o < offset + len
               THEN <<seg, src + o - offset>> ELSE ZeroByte]]

\* MIN(bin_size, BY2PG - offset)
FirstLen(s) == MinOf(s.filesz, BY2PG - StartOffset(s))

\* if (offset != 0)
first(s) ==
    /\ phase = "first"
    /\ phase' = "file"
    /\ IF StartOffset(s) # 0
       THEN /\ map_page(s.va, StartOffset(s), 0, FirstLen(s))
            /\ elf_i' = FirstLen(s)
       ELSE UNCHANGED mem /\ elf_i' = 0
    /\ UNCHANGED <<segs, seg>>

\* Step 1: load all content of bin into memory.
load_file(s) ==
    /\ phase = "file"
    /\ IF elf_i < s.filesz
       THEN /\ map_page(s.va + elf_i, 0, elf_i, MinOf(s.filesz - elf_i, BY2PG))
            /\ elf_i' = elf_i + BY2PG
            /\ UNCHANGED phase
       ELSE phase' = "zero" /\ UNCHANGED <<elf_i, mem>>
    /\ UNCHANGED <<segs, seg>>

\* Faulty variant: pages are added up to the size in the file.
load_zero_short(s) ==
    /\ phase = "zero"
    /\ IF elf_i < s.filesz
       THEN /\ map_page(s.va + elf_i, 0, NULL, 0)
            /\ elf_i' = elf_i + BY2PG
            /\ UNCHANGED <<phase, seg>>
       ELSE phase' = "first" /\ elf_i' = 0 /\ seg' = seg + 1 /\ UNCHANGED mem
    /\ UNCHANGED segs

\* Step 2: alloc pages to reach sgsize; then the next program header.
load_zero(s) ==
    /\ phase = "zero"
    /\ IF elf_i < s.memsz
       THEN /\ map_page(s.va + elf_i, 0, NULL, 0)
            /\ elf_i' = elf_i + BY2PG
            /\ UNCHANGED <<phase, seg>>
       ELSE phase' = "first" /\ elf_i' = 0 /\ seg' = seg + 1 /\ UNCHANGED mem
    /\ UNCHANGED segs

\* map_page finds no memory: elf_load_seg returns the error, and the kernel panics
\* or spawn destroys the child.
no_memory ==
    /\ phase # "failed"
    /\ phase' = "failed"
    /\ UNCHANGED <<segs, seg, elf_i, mem>>

ElfNext ==
    /\ seg <= NPhdr
    /\ LET s == segs[seg]
       IN  first(s) \/ load_file(s) \/ load_zero(s) \/ no_memory

ElfSpec == ElfInit /\ [][ElfNext]_elfVars

-----------------------------------------------------------------------------
(* Properties                                                              *)

\* Segment n is in memory: every byte of it, at its address, and zeros behind
\* what the file has.
SegmentLoaded(n) ==
    \A k \in 0..(MaxSize - 1) :
        LET va == segs[n].va + k
        IN  k < segs[n].memsz =>
              /\ mem[PageOf(va)] # NULL
              /\ mem[PageOf(va)][va % BY2PG] = IF k < segs[n].filesz THEN <<n, k>>
                                                                     ELSE ZeroByte

\* What elf_load_seg has loaded is there, whatever the sizes and the alignment,
\* and loading the next segment does not take it away.
SegmentsLoaded == \A n \in 1..NPhdr : n < seg => SegmentLoaded(n)

\* No byte of the program is found outside its segment: the pages around it are
\* filled with zeros, or belong to another segment.
NothingElse ==
    \A p \in VPage, o \in Offset :
        mem[p] # NULL /\ mem[p][o] # ZeroByte =>
            LET n == mem[p][o][1]
            IN p * BY2PG + o = segs[n].va + mem[p][o][2]

\* Once a program is loaded, every byte of a segment is where its program header says,
\* the file's first and zeros behind them (elfloader.c:15 "Map all section at correct
\* virtual address"), and nothing is mapped or written elsewhere.
LoadedExactly == ElfTypeOK /\ SegmentsLoaded /\ NothingElse

=============================================================================
