------------------------------ MODULE MCPaging ------------------------------
(***************************************************************************)
(* Instance of Paging for TLC: the pages at both sides of every boundary,  *)
(* and where they would be found again if an index were reduced wrongly.   *)
(***************************************************************************)
EXTENDS Paging

Edges(start, len) == {start - 1, start, start + len \div 2, start + len - 1, start + len}
Boundaries ==
  Edges(TaskVaddrStart, TaskMemLen) \union Edges(FrameBufAddr, FrameBufLen)
    \union Edges(LapicBufAddr, 1) \union Edges(KernelMemAddr, KernelMemLen)
    \union Edges(AdditionalPage, 1) \union Edges(TaskPhys(0), 3 * TaskMemLen)
AllProbes ==
  {0} \union Boundaries \union {p + PdLen : p \in Boundaries} \union {p + PdpLen : p \in Boundaries}
=============================================================================
