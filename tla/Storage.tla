------------------------------- MODULE Storage -------------------------------
(***************************************************************************)
(* The storage backend a deployment selects at startup                     *)
(* (server/app/repositories/factory.py).  The components that behave      *)
(* differently on PostgreSQL and DynamoDB extend this module.              *)
(***************************************************************************)
CONSTANT Backends  \* the backends a deployment may select

ASSUME BackendAssumption == Backends \subseteq {"dynamodb", "postgres"}

VARIABLE backend   \* the selected backend

OnPostgres == backend = "postgres"
OnDynamo == backend = "dynamodb"
=============================================================================
