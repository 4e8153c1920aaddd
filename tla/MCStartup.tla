----------------------------- MODULE MCStartup -----------------------------
(* Two instances in any two of these environments. *)
EXTENDS Startup, TLC

Plain == [backend |-> "", url |-> None, parts |-> None, dsn |-> None, path |-> None, key |-> TRUE]

MCEnvs ==
  { Plain,                                                       \* DynamoDB
    [Plain EXCEPT !.backend = "sqlite", !.path = "file", !.key = FALSE],
    [Plain EXCEPT !.backend = " Postgres", !.parts = "server"],
    [Plain EXCEPT !.backend = " Postgres", !.url = "file", !.parts = "server"],
    [Plain EXCEPT !.backend = "sqlite", !.path = "file", !.url = "server"],
    [Plain EXCEPT !.backend = "SQLite3", !.dsn = ":memory:", !.path = "file"],
    [Plain EXCEPT !.backend = "mysql", !.url = "server"] }
=============================================================================
