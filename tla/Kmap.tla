-------------------------------- MODULE Kmap --------------------------------
(***************************************************************************)
(* The kernel's own mappings (the kernel half of mem/paging.c): the        *)
(* identity map xpt_init_identity builds at boot, in huge pages, and the   *)
(* window in which xpt_map_uncached maps device registers page by page.    *)
(* Addresses count a small unit, Frame of which make a page and Huge a     *)
(* huge page.  The identity map is a function from huge pages to their     *)
(* caching, the window one from its pages to physical pages.               *)
(***************************************************************************)
EXTENDS Integers, SequencesExt

CONSTANTS
    Frame,              \* XERET_FRAME_SIZE
    Huge,               \* XERET_HUGE_SIZE
    XPT_MMIO_BASE, FOUR_GIB, PML4_SPAN,
    WindowPages,        \* pages of the window, one PML4 entry
    XPT_MMIO_MAX_PAGES,
    PtPages,            \* pages under a page table
    PdPages             \* pages under a page directory

ASSUME KmapAssumption ==
    /\ Frame \in Nat \ {0} /\ Huge \in Nat \ {0} /\ Huge % Frame = 0
    /\ XPT_MMIO_BASE \in Nat /\ FOUR_GIB \in Nat /\ PML4_SPAN \in Nat
    /\ XPT_MMIO_BASE % Huge = 0 /\ FOUR_GIB % Huge = 0 /\ PML4_SPAN % Huge = 0
    /\ XPT_MMIO_BASE < FOUR_GIB /\ FOUR_GIB <= PML4_SPAN
    /\ PdPages % PtPages = 0

VARIABLES
    ident,      \* huge page -> "wb" or "uc", once CR3 is loaded
    window,     \* window page -> physical page, where present
    tables,     \* the window's page directories and page tables
    g_mmio_next,    \* the next free page of the window
    frames,     \* frames the allocator has left
    map         \* the call of xpt_map_uncached under way

kmapVars == <<ident, window, tables, g_mmio_next, frames, map>>
NoMap == [pc |-> "none", phys |-> 0, pages |-> 0, i |-> 0]
NoIdentity == [at |-> <<>>, cr3 |-> FALSE]

KmapInit ==
    /\ ident = NoIdentity
    /\ window = <<>> /\ tables = {} /\ g_mmio_next = 0
    /\ frames = 0
    /\ map = NoMap

align_up(v, a) == ((v + a - 1) \div a) * a

\* First mapping wins.
Keep(old, new) ==
    [x \in DOMAIN old \cup DOMAIN new |-> IF x \in DOMAIN old THEN old[x] ELSE new[x]]

map_huge(old, start, end, caching) ==
    Keep(old, [h \in (start \div Huge) .. ((align_up(end, Huge) \div Huge) - 1) |-> caching])

\* RAM ends at end; the framebuffer is [base, size], of size 0 when there is none.
IdentityMap(end, fb) ==
    LET device == map_huge(<<>>, XPT_MMIO_BASE, FOUR_GIB, "uc")
        screen == IF fb.size = 0 THEN device ELSE map_huge(device, fb.base, fb.base + fb.size, "uc")
        low == map_huge(screen, 0, IF end < XPT_MMIO_BASE THEN end ELSE XPT_MMIO_BASE, "wb") IN
    IF end > FOUR_GIB THEN map_huge(low, FOUR_GIB, end, "wb") ELSE low

\* The checks before anything is built.
Mappable(end, fb) ==
    /\ end # 0 /\ align_up(end, Huge) <= PML4_SPAN
    /\ fb.size # 0 => fb.base + fb.size <= PML4_SPAN

\* When it fails (a bad layout, a CPU without NX, no frame for a table) main.c
\* halts the machine, and there is no next step.
xpt_init_identity(end, fb) ==
    /\ ~ident.cr3
    /\ Mappable(end, fb)
    /\ ident' = [at |-> IdentityMap(end, fb), cr3 |-> TRUE]
    /\ UNCHANGED <<window, tables, g_mmio_next, frames, map>>

-----------------------------------------------------------------------------
(* xpt_map_uncached, one turn of its loop at a time.                       *)

\* Mutant: a part of a page at the end is forgotten.
WholePages(phys, size) == size \div Frame

PagesOf(phys, size) == (align_up(phys + size, Frame) \div Frame) - (phys \div Frame)

\* The checks; under g_pt_lock no other call can move g_mmio_next.
xpt_map_uncached(phys, size) ==
    LET n == PagesOf(phys, size) IN
    map' = IF size = 0 \/ n > XPT_MMIO_MAX_PAGES \/ g_mmio_next + n > WindowPages
           THEN [NoMap EXCEPT !.pc = "fail"]
           ELSE [pc |-> "loop", phys |-> phys, pages |-> n, i |-> 0]

\* The tables a page of the window hangs from, and those that are missing.
TablesOf(page) == <<<<"pd", page \div PdPages>>, <<"pt", page \div PtPages>>>>
Missing(page) == SelectSeq(TablesOf(page), LAMBDA t : t \notin tables)

\* next_level twice, then the entry: a table that cannot be allocated or an
\* entry that is present ends the call, and the turns before stay.
MapTurn ==
    LET page == g_mmio_next + map.i
        missing == Missing(page)
        got == IF Len(missing) < frames THEN Len(missing) ELSE frames IN
    /\ map.pc = "loop" /\ map.i < map.pages
    /\ tables' = tables \cup Range(SubSeq(missing, 1, got))
    /\ frames' = frames - got
    /\ IF got < Len(missing) \/ page \in DOMAIN window
       THEN map' = [NoMap EXCEPT !.pc = "fail"] /\ UNCHANGED window
       ELSE /\ window' = Keep(window, [p \in {page} |-> (map.phys \div Frame) + map.i])
            /\ map' = [map EXCEPT !.i = @ + 1]
    /\ UNCHANGED <<ident, g_mmio_next>>

\* The address in the window, at the offset phys has in its page.
MapDone(va) ==
    /\ map.pc = "loop" /\ map.i = map.pages
    /\ va = g_mmio_next * Frame + (map.phys % Frame)
    /\ g_mmio_next' = g_mmio_next + map.pages
    /\ map' = NoMap
    /\ UNCHANGED <<ident, window, tables, frames>>

\* An address of the window reaches a physical one.
Reaches(va, phys) ==
    /\ va \div Frame \in DOMAIN window
    /\ window[va \div Frame] * Frame + (va % Frame) = phys
=============================================================================
