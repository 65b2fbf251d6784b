---------------------------- MODULE MCAlbumStore ----------------------------
(* TLC instances of AlbumStore. *)
EXTENDS AlbumStore, TLC

\* Requests, and servers, are told apart by nothing but their identity.
Symmetry ==
    Permutations(Uploads) \union Permutations(Deletes)
        \union Permutations(Servers)
=============================================================================
