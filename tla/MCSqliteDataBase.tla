-------------------------- MODULE MCSqliteDataBase --------------------------
(* Two starts of the server and a POP3 process over one file.              *)
EXTENDS SqliteDataBase, TLC

MCTestUsers == << "test1", "test2" >>

Symmetry == Permutations(Adders)

=============================================================================
