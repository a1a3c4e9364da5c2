----------------------------- MODULE MCMigrations -----------------------------
(* Values for TLC.  The files stand for the initial schema, the warehouse  *)
(* columns, the integrity guardrails, the paid e-mail's column and         *)
(* the dropped storage plan.                                               *)
EXTENDS Migrations

CONSTANTS r1, r2, users, requests
Kinds == <<"tables", "column", "rebuilt", "kept", "dropped">>
Altered == <<users, requests, requests, requests, users>>
===============================================================================
