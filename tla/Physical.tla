------------------------------ MODULE Physical ------------------------------
(***************************************************************************)
(* The physical frame allocator of xeret (mem/physical.c): a bitmap of    *)
(* 4 KiB frames, one bit per frame, with two counters beside it.  The      *)
(* bitmap is the set bits of the frames whose bit is 1 (free).             *)
(*                                                                         *)
(* Every function takes the allocator's spinlock for its whole body, so    *)
(* each operator below is one atomic step.  They are action formulas over  *)
(* the allocator's three variables; the modules that use the allocator     *)
(* conjoin them with their own updates, as the C callers call them.        *)
(***************************************************************************)
EXTENDS Integers, FiniteSets

CONSTANTS
    TotalFrames,    \* total_frames, from phys_end, at most XERET_BITMAP_MAX_FRAMES
    HugeFrames,     \* XERET_FRAMES_PER_HUGE
    LowFrames,      \* frames of the first 1 MiB, always reserved
    MemMap,         \* the UEFI descriptors: a set of [type, start, pages]
    Fb              \* the framebuffer: [start, pages], pages = 0 when there is none

FreeTypes == {"Conventional", "BootServicesCode", "BootServicesData",
              "LoaderCode", "LoaderData"}

ASSUME PhysicalAssumption ==
    /\ TotalFrames \in Nat \ {0}
    /\ HugeFrames \in Nat \ {0}
    /\ LowFrames \in Nat \ {0}
    /\ \A d \in MemMap : d.start \in Nat /\ d.pages \in Nat
    /\ Fb.start \in Nat /\ Fb.pages \in Nat

VARIABLES
    bits,           \* the frames whose bit is set: free
    free_frames,
    used_frames

physVars == <<bits, free_frames, used_frames>>

Frames == 0 .. (TotalFrames - 1)

\* The frames of a range of n frames from start.
Span(start, n) == start .. (start + n - 1)

\* What mark_range_free and mark_range_used reach: the range, cut at the
\* end of the bitmap.
Clipped(start, n) == Span(start, n) \cap Frames

\* The loop over the memory map: usable types become free, everything else
\* keeps its initial 0 bit.
MapFree == UNION {Clipped(d.start, d.pages) :
                    d \in {e \in MemMap : e.type \in FreeTypes}}

\* The frames free once phys_init_from_handoff has also reserved the first
\* MiB and the framebuffer.
BootFree == MapFree \ (Clipped(0, LowFrames) \cup Clipped(Fb.start, Fb.pages))

phys_init_from_handoff ==
    /\ bits = BootFree
    /\ free_frames = Cardinality(BootFree)
    /\ used_frames = TotalFrames - Cardinality(BootFree)

\* Every place where n free frames lie in a row.
Runs(n) == {s \in Frames : Span(s, n) \subseteq bits}

\* The places of n free frames that phys_alloc_huge looks at.
HugeRuns == {s \in Runs(HugeFrames) : s % HugeFrames = 0}

\* The scan runs upwards from frame 0 and stops at the first place.
Lowest(S) == {s \in S : \A r \in S : s <= r}

\* Mutant: the last frame of the range keeps its bit.
TakeSpanShort(s, n) ==
    /\ bits' = bits \ Span(s, n - 1)
    /\ free_frames' = free_frames - n
    /\ used_frames' = used_frames + n

\* bit_clear over the range and the two counters.
TakeSpan(s, n) ==
    /\ bits' = bits \ Span(s, n)
    /\ free_frames' = free_frames - n
    /\ used_frames' = used_frames + n

\* A successful search, which stops at frame s.  The address it returns is
\* s * 4096, and 0 is also what a failed search returns.
phys_alloc_frames(n, s) ==
    /\ 0 < n /\ n <= free_frames
    /\ s \in Lowest(Runs(n))
    /\ TakeSpan(s, n)

phys_alloc_huge(s) ==
    /\ s \in Lowest(HugeRuns)
    /\ TakeSpan(s, HugeFrames)

\* Mutant: the bits come back, the counters do not.
FreeWithoutCounting(s, n) ==
    /\ bits' = IF n = 0 \/ s + n > TotalFrames THEN bits ELSE bits \cup Span(s, n)
    /\ UNCHANGED <<free_frames, used_frames>>

\* A range that leaves the bitmap is ignored; a frame already free is
\* skipped, so that the counters move by the frames that change.
phys_free_frames(s, n) ==
    IF n = 0 \/ s + n > TotalFrames
    THEN UNCHANGED physVars
    ELSE LET turned == Span(s, n) \ bits IN
         /\ bits' = bits \cup turned
         /\ free_frames' = free_frames + Cardinality(turned)
         /\ used_frames' = used_frames - Cardinality(turned)

PhysTypeOK ==
    /\ bits \subseteq Frames
    /\ free_frames \in Nat
    /\ used_frames \in Nat
=============================================================================
