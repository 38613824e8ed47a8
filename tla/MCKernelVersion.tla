------------------------- MODULE MCKernelVersion -------------------------
(* Instance of KernelVersion for TLC. *)
EXTENDS KernelVersion

(* Every release string of at most five bytes over digits that make      *)
(* 4.8, 4.10, 8.0 and 10.4, the dot, and a suffix byte '-'.              *)
MCReleases == BoundedSeq({"0", "1", "4", "8", ".", "-"}, 5)
=============================================================================
