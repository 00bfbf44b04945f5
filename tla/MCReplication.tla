--------------------------- MODULE MCReplication ---------------------------
(* Replication on one or two handlers and one or two databases.            *)
EXTENDS Replication, MCStatements, TLC

CONSTANTS main, other, h1, h2

\* The statements of the run's requests, and the rows they leave.
MCTexts == UNION {{r.stmts[i] : i \in DOMAIN r.stmts} : r \in Requests}
MCRows  == {q.name : q \in MCTexts} \ {"select", "drop", "blank"}

\* Two statements on one database, of which a UNIQUE column may refuse one.
TxRequest == Request("tx", main, <<Unique, Insert>>, MCNoParams, "developer")
Query(db, q, p) == Request("query", db, <<q>>, p, "developer")

\* One database, requests that do not commute.
OneDatabase == {TxRequest, Query(main, Unique, MCNoParams), Query(main, Select, MCNoParams)}

\* Two databases, also blank statements.
TwoDatabases == {TxRequest, Query(main, Unique, MCNoParams), Query(other, Insert, MCNoParams),
                 Query(other, Blank, MCNoParams), Query(main, Select, MCNoParams)}

\* A write whose ? the client fills.
WithArguments == {Query(main, Bound, "args"), Query(main, Insert, MCNoParams),
                  Query(main, Select, MCNoParams)}

\* Two writes whose order shows.
TwoWrites == {Query(main, Insert, MCNoParams), Query(main, Update, MCNoParams)}
=============================================================================
