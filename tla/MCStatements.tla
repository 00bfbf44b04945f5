---------------------------- MODULE MCStatements ----------------------------
(***************************************************************************)
(* A small SQL for TLC.  A database is the sequence of the writes that had *)
(* an effect on it, so that a lost, a repeated and a reordered write each  *)
(* leave a different database behind.                                      *)
(***************************************************************************)
EXTENDS Naturals, Sequences

CONSTANTS
  Rows,      \* the rows the writes of a run leave, named like the statements
  MaxRows    \* bound: rows in a database

Statement(keyword, phrases, name) ==
  [keyword |-> keyword, phrases |-> phrases, name |-> name]

Select == Statement("SELECT", {}, "select")       \* reads
Insert == Statement("INSERT", {}, "insert")       \* a row without a constraint
Update == Statement("UPDATE", {}, "update")       \* another write
Unique == Statement("INSERT", {}, "unique")       \* a row with a UNIQUE column
Bound  == Statement("UPDATE", {}, "bound")        \* has a ? that an argument fills
Drop   == Statement("DROP", {"DROP TABLE"}, "drop")
Blank  == Statement("", {}, "blank")

MCNoParams == "none"
MCParams   == {MCNoParams, "args"}

\* Databases of at most MaxRows rows.
MCDBState == UNION {[1..n -> Rows] : n \in 0..MaxRows}
MCEmptyDB == <<>>

\* A second row with the same value, a ? nobody filled, a full disk (MaxRows is
\* larger than what a run can write).
MCSqlError(q, p, s) ==
  \/ q.name = "unique" /\ \E i \in DOMAIN s : s[i] = "unique"
  \/ q.name = "bound" /\ p = MCNoParams
  \/ q.name \in Rows /\ Len(s) = MaxRows

MCExec(q, p, s) ==
  IF q.name \in Rows /\ ~MCSqlError(q, p, s) THEN Append(s, q.name) ELSE s

Request(kind, db, stmts, params, role) ==
  [kind |-> kind, db |-> db, stmts |-> stmts, params |-> params, role |-> role]
=============================================================================
