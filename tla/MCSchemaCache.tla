--------------------------- MODULE MCSchemaCache ---------------------------
(* SchemaCache on a small instance. *)
EXTENDS SchemaCache
=============================================================================
