---------------------------- MODULE MCPgSqlPool -----------------------------
(* PgSqlPool with options for no keep alive, closing at once, a keep alive *)
(* below the minimum and one above it.                                     *)
EXTENDS PgSqlPool

MCExpires == {-1, 0, 2, 5}
=============================================================================
