--------------------------- MODULE MCProgramming ---------------------------
(***************************************************************************)
(* Instances of Programming for TLC.                                       *)
(***************************************************************************)
EXTENDS Programming, TLC

CONSTANTS r1, r2, n1, n2, p1, p2

\* Each route has a FIB entry of its own.  (Routes of one prefix learnt from two
\* protocols, which are two objects, would share one, and overwrite it in turn.)
PrefixOwn == (r1 :> p1) @@ (r2 :> p2)
NoPrefix == [r \in {} |-> p1]

\* Group contents: empty, single path and two paths.
Members == {<<>>, <<n1>>, <<n1, n2>>}
NoMembers == {}
=============================================================================
