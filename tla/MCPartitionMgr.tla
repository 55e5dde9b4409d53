---------------------------- MODULE MCPartitionMgr ---------------------------
(***************************************************************************)
(* Instances of PartitionMgr for TLC: which requests the clients make.     *)
(***************************************************************************)
EXTENDS PartitionMgr, TLC

CONSTANTS a, x, y

Req(cmd, img, off, len, val) ==
  [cmd |-> cmd, img |-> img, off |-> off, len |-> len, val |-> val]

\* Two contents, the second of the full size; one that is too long; loads with
\* a buffer that has room for the first content only, and for both.
DataRequests ==
  { Req("WRITE_USERDATA", a, 0, 1, x), Req("WRITE_USERDATA", a, 0, Cap, y),
    Req("WRITE_USERDATA", a, 0, Cap + 1, x),
    Req("LOAD_USERDATA", a, 0, 1, "none"), Req("LOAD_USERDATA", a, 0, Cap, "none"),
    Req("ERASE_USERDATA", a, 0, 0, "none"),
    Req("LOAD_USERDATA", NoImage, 0, 1, "none") }

\* And loads of the image: the whole, a part, its second half.
MixedRequests ==
  DataRequests \cup { Req("LOAD_IMG", a, 0, ImgSize, "none"), Req("LOAD_IMG", a, 1, 1, "none") }

\* One that needs two slots of the flash manager, one that is refused at once.
FewRequests ==
  { Req("WRITE_USERDATA", a, 0, 1, x), Req("ERASE_USERDATA", NoImage, 0, 0, "none") }

ClientSymmetry == Permutations(Clients)
==============================================================================
