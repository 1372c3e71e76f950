---------------------------- MODULE MCLaunchDemos ----------------------------
(* The eight shipped images, at the kernel's limits, on 64 MiB and more.   *)
EXTENDS LaunchImages

(* Ends of RAM: 64 MiB, the fallback 128 MiB, 512 MiB, one odd page count, *)
(* as 4 KiB page numbers.                                                  *)
MCRamEnds == {540672, GENERAL_MEMORY_END, 655360, 541003}
=============================================================================
