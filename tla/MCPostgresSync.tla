--------------------------- MODULE MCPostgresSync ---------------------------
(* PostgresSync for TLC. *)
EXTENDS PostgresSync

Spec == PgSpec
=============================================================================
