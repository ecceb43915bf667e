----------------------------- MODULE MCBootAlloc -----------------------------
(* BootAlloc for TLC: fifteen pages of two bytes, their FrameInfos in      *)
(* three more.  Ranges are cut where spans are split, joined, covered and  *)
(* left with half a page, and adjoin where a page of FrameInfos ends; an   *)
(* empty range enters nothing, as when a part is absent.                   *)
EXTENDS BootAlloc

MCMmapRanges == {<<0, 30>>, <<0, 10>>, <<10, 20>>, <<20, 30>>, <<14, 16>>}
MCMarkRanges == {<<3, 5>>, <<13, 15>>, <<19, 20>>, <<20, 29>>, <<30, 30>>}
=============================================================================
