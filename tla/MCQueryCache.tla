---------------------------- MODULE MCQueryCache ----------------------------
(***************************************************************************)
(* Two readers and two writers of one key.                                  *)
(***************************************************************************)
EXTENDS QueryCache

=============================================================================
