------------------------------ MODULE Platform ------------------------------
(***************************************************************************)
(* The machine facts every loader of lantern-boot shares: page sizes, the  *)
(* fixed virtual and physical addresses of src/launch.rs and src/pmm.rs,   *)
(* and the clamp each loader applies to the end of RAM.  Addresses are     *)
(* numbers of 4 KiB pages: 0x8600_0000 is page \h86000.                    *)
(***************************************************************************)
EXTENDS Integers

Mega  == 512    \* pages in a FrameMega (RISCV64_MEGAPAGE_SIZE, 2 MiB)
Small == 1      \* pages in a FrameSmall (4 KiB)

RoundDown(addr, align) == addr - (addr % align)
RoundUp(addr, align) == RoundDown(addr + align - 1, align)

(* Fixed virtual addresses.  The heap starts one megapage above the stack, *)
(* the arena window sixteen megapages above the heap.                      *)
STACK_VADDR   == 548864                     \* 0x8600_0000
HEAP_VADDR    == STACK_VADDR + Mega
(* Mutant: the window thirty-two megapages up, for a larger heap.          *)
ARENA_VADDR_FOR_LARGER_HEAP == HEAP_VADDR + 32 * Mega
ARENA_VADDR   == HEAP_VADDR + 16 * Mega
PACKAGE_VADDR == 573440                     \* 0x8c00_0000

(* What map_kernel_shared puts in every VSpace, supervisor-only: the two   *)
(* megapages the kernel image may fill, and the UART's.                    *)
KERNEL_MEGAPAGE_BASE   == 524800            \* 0x8020_0000
KERNEL_MEGAPAGE_2_BASE == 525312            \* 0x8040_0000
UART_MEGAPAGE_BASE     == 65536             \* 0x1000_0000
KernelShared == {KERNEL_MEGAPAGE_BASE, KERNEL_MEGAPAGE_2_BASE, UART_MEGAPAGE_BASE}

(* Physical memory the launcher hands out (src/pmm.rs).                    *)
GENERAL_MEMORY_BASE == 525824               \* 0x8060_0000
GENERAL_MEMORY_END  == 557056               \* 0x8800_0000, the fallback

(* The end of the root Untyped, from the end of RAM boot_main passes: at   *)
(* least one megapage above the base, rounded down to a megapage.          *)
MemEnd(ramEnd) ==
  LET floor == GENERAL_MEMORY_BASE + Mega
  IN  RoundDown(IF ramEnd > floor THEN ramEnd ELSE floor, Mega)

(* Two ranges of pages, each a base and a length, share no page.           *)
Apart(a, m, b, n) == a + m <= b \/ b + n <= a

=============================================================================
