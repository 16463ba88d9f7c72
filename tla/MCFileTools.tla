---------------------------- MODULE MCFileTools ----------------------------
(* An instance of FileTools for TLC.                                       *)
EXTENDS FileTools

CONSTANTS a1, a2

(* The paths of the first and the last file differ only in a character     *)
(* that the names of locks leave out.                                      *)
Names == <<1, 2, 1>>

On(tool, f) == [tool |-> tool, files |-> <<f>>]
Patch(f, g) == [tool |-> "patch", files |-> <<f, g>>]

(* Every tool, patches that name two files in either order, one of two     *)
(* files with the same lock, and one that takes the locks of the first two *)
(* files in the other order.                                               *)
Each == {On("read", 1), On("edit", 1), On("write", 2),
         Patch(1, 2), Patch(2, 1), Patch(1, 3), Patch(2, 3)}
=============================================================================
