---------------------------- MODULE MCEventLoop -----------------------------
(***************************************************************************)
(* Instances of EventLoop: the .cfg files give peers, descriptors, cells,  *)
(* texts and bounds.  A name is the number of the descriptor it is the     *)
(* default name of; descriptors from 1000 on share the name cut to eight   *)
(* bytes.  Connections and cells are interchangeable.                      *)
(***************************************************************************)
EXTENDS EventLoopProps, TLC

CONSTANTS c1, c2, c3, a, b, d, null, none, wild

MCDefaultName == [f \in Fds |-> f]
MCSharedName == [f \in Fds |-> f \div 10]
MCSymmetry == Permutations(Conns) \cup Permutations(Cells)
=============================================================================
