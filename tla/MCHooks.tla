------------------------------ MODULE MCHooks ------------------------------
(***************************************************************************)
(* Small instances of the hooks for TLC.  CPUs are interchangeable, and so *)
(* are tasks, inode numbers and elements.                                  *)
(***************************************************************************)
EXTENDS Hooks, TLC

Symmetry == Permutations(CPUs) \union Permutations(Tasks)
              \union Permutations(Inodes) \union Permutations(Elements)
=============================================================================
