---------------------------- MODULE MCAdjFile ----------------------------
(***************************************************************************)
(* Edge files for AdjFile: every one of one or two edges, one order of     *)
(* every set of three or four edges, and pairs of edges listed twice.      *)
(***************************************************************************)
EXTENDS AdjFile, SequencesExt

MCPairs == {e \in Vertex \X Vertex : e[1] # e[2]}

MCEdges ==
    UNION {[1 .. n -> MCPairs] : n \in 1 .. 2}
      \cup {SetToSeq(E) : E \in {F \in SUBSET MCPairs : Cardinality(F) \in 3 .. 4}}
      \cup {LET s == SetToSeq(E) IN s \o s : E \in kSubset(2, MCPairs)}
===========================================================================
