---------------------------- MODULE MCTcpServer ----------------------------
(***************************************************************************)
(* TcpServer with the symmetry TLC may use for its safety runs: nothing    *)
(* tells two connections, two user threads or two messages apart.          *)
(***************************************************************************)
EXTENDS TcpServer, TLC

Symmetry ==
    Permutations(Conns) \cup Permutations(Users) \cup Permutations(Msgs)
=============================================================================
