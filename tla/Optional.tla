------------------------------ MODULE Optional ------------------------------
(***************************************************************************)
(* Python's None, which every module that has it means.                    *)
(***************************************************************************)
CONSTANT None
=============================================================================
