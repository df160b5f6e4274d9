----------------------------- MODULE MCStorage -----------------------------
(* Three sectors, two to a transfer, queues of two or three entries; nine-bit *)
(* BAR registers, pages of 32 units, two pages to a page table and to a huge  *)
(* page; machines that differ in what is on their buses.                      *)
EXTENDS Storage

MCData == {"zero", "a", "b"}
\* One request of two transfers, a single sector, a flush; the read past the
\* end is refused by blk.c.
MCRequests == {<<"write", 0, 3, "a">>, <<"write", 1, 1, "b">>, <<"read", 0, 3, "zero">>,
               <<"read", 2, 1, "zero">>, <<"read", 2, 2, "zero">>, <<"flush", 0, 0, "zero">>}
MCAllWaits == BringUp \cup {"serial", "read", "write", "flush"}
MCWrites == {"write"}

NoBar == <<[kind |-> "none", base |-> 0, size |-> 0]>>
Io == <<[kind |-> "io", base |-> 16, size |-> 16]>>
M32(base, size) == <<[kind |-> "m32", base |-> base, size |-> size]>>
M64(base, size) == <<[kind |-> "m64", base |-> base, size |-> size],
                     [kind |-> "high", base |-> base, size |-> size]>>
Lone64(base, size) == <<M64(base, size)[1]>>

Fn(class, ht, multi, secondary, cmd, bars) ==
    [class |-> class, ht |-> ht, multi |-> multi, secondary |-> secondary,
     cmd |-> cmd, status |-> {"abort"}, bars |-> bars]
Host == Fn("host", 0, FALSE, 0, {"mem", "master"}, Io \o NoBar \o NoBar)
Bridge(to, multi) == Fn("bridge", 1, multi, to, {"mem"}, NoBar \o M32(480, 16))
NvmeAt(bars) == Fn("nvme", 0, FALSE, 0, {"mem"}, bars)

\* The controller sits behind a bridge, next to a bridge that leads back to
\* bus 0; another bridge is not configured.  Its BAR is part of a page.
\* The controller never answers.
Bridged ==
    [fns |-> (<<0, 0, 0>> :> Host) @@ (<<0, 1, 0>> :> Bridge(1, TRUE)) @@ (<<0, 1, 1>> :> Bridge(0, FALSE))
               @@ (<<1, 0, 0>> :> Bridge(0, FALSE)) @@ (<<1, 1, 0>> :> NvmeAt(M32(464, 16) \o NoBar \o NoBar)),
     irq |-> TRUE, dead |-> TRUE, phys_end |-> 300, fb |-> [base |-> 200, size |-> 100]]
\* Two controllers on bus 2, the first with wide BARs high up, between them a
\* function that does not exist for the scan, with a BAR in the hole that RAM
\* leaves below the range for devices; a header of an unknown type.
Wide ==
    [fns |-> (<<0, 1, 0>> :> Bridge(2, FALSE)) @@ (<<0, 2, 0>> :> [Host EXCEPT !.ht = 2])
               @@ (<<2, 0, 0>> :> NvmeAt(M64(1408, 128) \o NoBar))
               @@ (<<2, 0, 1>> :> NvmeAt(M32(320, 64) \o NoBar \o NoBar))
               @@ (<<2, 1, 0>> :> NvmeAt(Io \o M64(1536, 512))),
     irq |-> FALSE, dead |-> FALSE, phys_end |-> 1000, fb |-> [base |-> 0, size |-> 0]]
\* More functions than the table holds, the controller among the last.
Crowded ==
    [fns |-> [f \in {<<0, d, n>> : d \in 0 .. 2, n \in 0 .. 1} |->
                IF f = <<0, 2, 1>> THEN NvmeAt(M32(448, 64) \o NoBar \o NoBar)
                ELSE [Host EXCEPT !.multi = TRUE, !.bars = NoBar \o NoBar \o Lone64(448, 16)]],
     irq |-> TRUE, dead |-> FALSE, phys_end |-> 384, fb |-> [base |-> 500, size |-> 10]]
\* A controller whose BAR was never given an address.
Unset64 ==
    [fns |-> (<<0, 0, 0>> :> [NvmeAt(M64(0, 64) \o NoBar) EXCEPT !.cmd = {}]), irq |-> FALSE, dead |-> FALSE, phys_end |-> 64,
     fb |-> [base |-> 0, size |-> 0]]
\* RAM beyond the identity map: the kernel does not start.
TooLarge == [Unset64 EXCEPT !.phys_end = 2049]
MCMachines == {Bridged, Wide, Crowded, Unset64, TooLarge}
MCWide == {Wide}
\* RAM ends above 4 GiB and leaves a hole below the range for devices, where
\* firmware has put the controller.
Hole ==
    [fns |-> (<<0, 0, 0>> :> NvmeAt(M32(320, 64) \o NoBar \o NoBar)), irq |-> TRUE, dead |-> FALSE,
     phys_end |-> 1000, fb |-> [base |-> 200, size |-> 100]]
MCHole == {Hole}
=============================================================================
