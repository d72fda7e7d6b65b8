------------------------------ MODULE MCMemoryMap -----------------------------
(***************************************************************************)
(* Both ends of every range of the memory map for TLC, with the first and  *)
(* the last byte a transfer reads from ROM, from work RAM and from the     *)
(* registers, where the transfer finds its own number.  Data moves as it   *)
(* is, so a few stores show everything: at most MaxStored cells differ     *)
(* from the start, OAM being one of them.                                  *)
(***************************************************************************)
EXTENDS PicturedMemory, FiniteSets

CONSTANT MaxStored

MCAddress ==
    {0, \h46, \h9F, \hFF, \h100, \h7FFF, \h8000, \h9FFF, \hA000, \hBFFF,
     \hC000, \hC046, \hC09F, \hDDFF, \hDFFF, \hE000, \hFDFF,
     \hFE00, \hFE46, \hFE9F, \hFEA0, \hFEFF,
     JOYP, DIV, DMA_TRANSFER, BOOT_ROM_CONTROL, \hFF7F, \hFF80, \hFF9F,
     INTERRUPTS_ENABLED}
MCBOOT      == [a \in BOOT_ROM |-> 2]
MCCARTRIDGE == [a \in CARTRIDGE_ROM |-> 3]

Stored ==
    {a \in Address : \/ memory_[a] # 0
                     \/ a \in DOMAIN register /\ register[a] # PowerOn[a]
                     \/ a \in VRAM /\ vram[a - VRAM_START] # 0}
    \cup {OAM_START : n \in {i \in OamIndex : oam[i] # 0}}

\* Stores that change neither memory nor the picture are left out.
MCNext == PicturedNext /\ pictured' # pictured /\ Cardinality(Stored') <= MaxStored

MCSpec == PicturedInit /\ [][MCNext]_pictured
===============================================================================
