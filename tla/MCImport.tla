----------------------------- MODULE MCImport -----------------------------
(* ImportJob on two handlers and one database.                             *)
EXTENDS ImportJob, MCStatements, TLC

CONSTANTS main, h1, h2

MCFiles ==
  { [format |-> "rows", size |-> 3],
    [format |-> "sql", lines |-> <<"open", "comment", "closed", "open">>],
    [format |-> "shell", lines |-> <<"comment", "closed", "open", "closed">>] }

\* A statement is named for the units it carries; CREATE TABLE and a comment have
\* no effect that is counted.
MCTextOf(format, units) ==
  IF units # {} THEN Statement("INSERT", {}, ToString(units))
  ELSE IF format = "rows" THEN Statement("CREATE", {}, "create") ELSE Statement("", {}, "comment")

Carrying == [u \in 1..4 |-> {ToString(c) : c \in {d \in SUBSET (1..4) : u \in d}}]
MCCopies(u, s) == Cardinality({i \in DOMAIN s : s[i] \in Carrying[u]})

\* A transaction that reads and writes (no row the file has), and a refused one.
MCClientRequests ==
  { Request("tx", main, <<Select, Update>>, MCNoParams, "admin"),
    Request("tx", main, <<Update, Drop>>, MCNoParams, "admin") }

MCRequests == MCClientRequests \cup
  UNION {{[kind |-> "query", db |-> main, stmts |-> <<MCTextOf(f.format, Plan(f)[i])>>,
           params |-> MCNoParams, role |-> r] : i \in DOMAIN Plan(f), r \in {"developer", "readonly"}}
         : f \in MCFiles}

MCTexts == UNION {{r.stmts[i] : i \in DOMAIN r.stmts} : r \in MCRequests}
MCRows  == {q.name : q \in MCTexts} \ {"select", "update", "drop", "create", "comment"}
=============================================================================
