----------------------------- MODULE MCHunkCache ----------------------------
(* A hunk of a few units and three users of the cache. *)
EXTENDS HunkCache
=============================================================================
