--------------------------- MODULE AccessControl ---------------------------
(***************************************************************************)
(* The gate every statement passes before SparkDB acts on it:              *)
(*   - the role table of internal/rbac/rbac.go,                            *)
(*   - the classification of a statement by its leading keyword and the    *)
(*     table of dangerous phrases of internal/query/validator.go,          *)
(*   - IsWriteQuery of internal/replication/replication.go, by which the   *)
(*     handlers decide what goes to the replication log.                   *)
(*                                                                         *)
(* A statement is a record with at least                                   *)
(*   keyword  its first word in upper case ("" for a blank statement),     *)
(*   phrases  the dangerous phrases that occur anywhere in it.             *)
(* The code looks at prefixes and substrings of the upper-cased, trimmed   *)
(* text and at nothing else.                                               *)
(***************************************************************************)

Roles == {"admin", "developer", "readonly", "auditor"}

Permissions == {"query", "write", "create", "alter", "drop", "delete",
                "create_user", "backup", "restore", "audit_log"}

rolePermissions ==
  [ admin     |-> Permissions,
    developer |-> {"query", "write", "create", "alter", "delete"},
    readonly  |-> {"query"},
    auditor   |-> {"audit_log"} ]

HasPermission(role, perm) == role \in Roles /\ perm \in rolePermissions[role]

-----------------------------------------------------------------------------
ReadTypes == {"SELECT", "PRAGMA", "EXPLAIN"}

QueryTypes == ReadTypes \cup {"INSERT", "UPDATE", "DELETE", "CREATE", "DROP", "ALTER"}

IdentifyType(q) == IF q.keyword \in QueryTypes THEN q.keyword ELSE "OTHER"

\* The permission a query type asks for. "OTHER" asks for none: the code
\* returns ok = false and the handlers then skip the role check.
RequiredPermission(qt) ==
  CASE qt \in ReadTypes            -> {"query"}
    [] qt \in {"INSERT", "UPDATE"} -> {"write"}
    [] qt = "CREATE"               -> {"create"}
    [] qt = "ALTER"                -> {"alter"}
    [] qt = "DROP"                 -> {"drop"}
    [] qt = "DELETE"               -> {"delete"}
    [] OTHER                       -> {}

BlockedPhrases == {"DROP DATABASE", "DROP TABLE", "DELETE FROM SQLITE_MASTER",
                   "ATTACH DATABASE", "DETACH DATABASE"}
WarnedPhrases  == {"DROP INDEX", "DROP VIEW", "DROP TRIGGER", "VACUUM"}

\* Only the phrases of level DangerBlock stop a statement.
CheckDangerous(q) == q.phrases \cap BlockedPhrases # {}

IsWriteQuery(q) == q.keyword \notin ReadTypes

IsBlank(q) == q.keyword = ""

\* What HandleQuery and HandleTransaction ask of one statement.
StatementAllowed(role, q) ==
  /\ ~CheckDangerous(q)
  /\ \A perm \in RequiredPermission(IdentifyType(q)) : HasPermission(role, perm)
=============================================================================
