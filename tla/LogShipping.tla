---------------------------- MODULE LogShipping ----------------------------
(***************************************************************************)
(* What replication promises, without the network and the processes: a log *)
(* that only grows, a reader that takes its entries one by one in order    *)
(* from a cursor, and a durable checkpoint the reader may fall back to.    *)
(* Delivery is at least once: a fall back delivers the entries behind the  *)
(* checkpoint again, and never leaves one out.                             *)
(***************************************************************************)
EXTENDS Naturals, Sequences

CONSTANT Entries

VARIABLES
  log,         \* the entries, in the order they were written
  delivered,   \* numbers of the entries the reader has taken, in the order it took them
  cursor,      \* number of the last entry it took, as far as it remembers
  checkpoint   \* the number it will remember after a fall back

lsVars == <<log, delivered, cursor, checkpoint>>

LSInit == log = <<>> /\ delivered = <<>> /\ cursor = 0 /\ checkpoint = 0

\* One more entry at the end; those that are there stay as they are.
Write ==
  /\ log' \in Seq(Entries)
  /\ Len(log') = Len(log) + 1
  /\ SubSeq(log', 1, Len(log)) = log
  /\ UNCHANGED <<delivered, cursor, checkpoint>>

Deliver ==
  /\ cursor < Len(log)
  /\ cursor' = cursor + 1
  /\ delivered' = Append(delivered, cursor + 1)
  /\ UNCHANGED <<log, checkpoint>>

Checkpoint ==
  /\ checkpoint' = cursor
  /\ UNCHANGED <<log, delivered, cursor>>

FallBack ==
  /\ cursor' = checkpoint
  /\ UNCHANGED <<log, delivered, checkpoint>>

LSNext == Write \/ Deliver \/ Checkpoint \/ FallBack

LSSpec == LSInit /\ [][LSNext]_lsVars

-----------------------------------------------------------------------------
LSTypeOK ==
  /\ log \in Seq(Entries)
  /\ delivered \in Seq(Nat)
  /\ cursor \in Nat
  /\ checkpoint \in Nat

\* The reader never remembers less than its checkpoint, nor more than there is.
Ordered == checkpoint <= cursor /\ cursor <= Len(log)

\* Every entry up to the cursor has been taken.
Complete == \A n \in 1..cursor : \E k \in DOMAIN delivered : delivered[k] = n

\* Before entry n is taken (again) entry n - 1 has been taken.
NoGap ==
  \A k \in DOMAIN delivered :
    delivered[k] > 1 => \E j \in 1..(k - 1) : delivered[j] = delivered[k] - 1
=============================================================================
