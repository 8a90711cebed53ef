------------------------ MODULE MCDocumentVersions ------------------------
(* DocumentVersions on a small instance. *)
EXTENDS DocumentVersions
=============================================================================
