----------------------------- MODULE MCPrimary -----------------------------
(* Primary on two handlers and one or two databases.                       *)
EXTENDS Primary, MCStatements, TLC

CONSTANTS main, h1, h2

\* The statements of the run's requests, and the rows they leave.
MCTexts == UNION {{r.stmts[i] : i \in DOMAIN r.stmts} : r \in Requests}
MCRows  == {q.name : q \in MCTexts} \ {"select", "drop", "blank"}

\* A transaction whose second insert a UNIQUE column may refuse, a transaction
\* that reads first, single writes, a refused one.
MCRequests ==
  { Request("tx", main, <<Unique, Select, Insert>>, MCNoParams, "developer"),
    Request("tx", main, <<Select, Insert, Insert>>, MCNoParams, "admin"),
    Request("query", main, <<Unique>>, MCNoParams, "admin"),
    Request("query", main, <<Bound>>, "args", "developer"),
    Request("query", main, <<Select>>, MCNoParams, "readonly"),
    Request("query", main, <<Insert>>, MCNoParams, "readonly"),
    Request("tx", main, <<Insert, Drop>>, MCNoParams, "admin") }
=============================================================================
