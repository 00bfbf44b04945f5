------------------------ MODULE LogShipping_proofs -------------------------
(***************************************************************************)
(* What LogShipping promises, for every set of entries: the reader takes   *)
(* the log in turn and leaves nothing out, however often it falls back.    *)
(***************************************************************************)
EXTENDS LogShipping, SequenceTheorems, TLAPS

\* Complete and NoGap need each other and the order of the two marks: a fall
\* back keeps Complete because the checkpoint is not past the cursor, and an
\* entry is taken in turn because everything up to the cursor has been taken.
LSInv == LSTypeOK /\ Ordered /\ Complete /\ NoGap

\* Taking the entry after the cursor keeps the history complete and in turn.
LEMMA TakeInTurn ==
  ASSUME LSTypeOK, Complete, NoGap, NEW h, h = Append(delivered, cursor + 1)
  PROVE  /\ \A n \in 1..(cursor + 1) : \E k \in DOMAIN h : h[k] = n
         /\ \A k \in DOMAIN h : h[k] > 1 => \E j \in 1..(k - 1) : h[j] = h[k] - 1
<1> DEFINE len == Len(delivered)
<1>1. /\ delivered \in Seq(Nat) /\ cursor \in Nat /\ len \in Nat
      /\ DOMAIN delivered = 1..len
  BY DEF LSTypeOK
<1>2. /\ DOMAIN h = 1..(len + 1)
      /\ h[len + 1] = cursor + 1
      /\ \A k \in 1..len : h[k] = delivered[k]
  BY <1>1
<1>3. \A n \in 1..(cursor + 1) : \E k \in DOMAIN h : h[k] = n
  <2> SUFFICES ASSUME NEW n \in 1..(cursor + 1) PROVE \E k \in DOMAIN h : h[k] = n
    OBVIOUS
  <2>1. CASE n = cursor + 1
    BY <2>1, <1>1, <1>2
  <2>2. CASE n # cursor + 1
    <3>1. n \in 1..cursor
      BY <2>2, <1>1
    <3>2. PICK k \in 1..len : delivered[k] = n
      BY <3>1, <1>1 DEF Complete
    <3>. QED
      BY <3>2, <1>1, <1>2
  <2>. QED
    BY <2>1, <2>2
<1>4. ASSUME NEW k \in DOMAIN h, h[k] > 1
      PROVE  \E j \in 1..(k - 1) : h[j] = h[k] - 1
  <2>1. CASE k = len + 1
    <3>1. cursor \in 1..cursor
      BY <2>1, <1>1, <1>2, <1>4
    <3>2. PICK j \in 1..len : delivered[j] = cursor
      BY <3>1, <1>1 DEF Complete
    <3>. QED
      BY <3>2, <2>1, <1>1, <1>2
  <2>2. CASE k # len + 1
    <3>1. k \in 1..len /\ h[k] = delivered[k]
      BY <2>2, <1>1, <1>2
    <3>2. PICK j \in 1..(k - 1) : delivered[j] = delivered[k] - 1
      BY <3>1, <1>1, <1>4 DEF NoGap
    <3>3. j \in 1..len
      BY <3>1, <1>1
    <3>. QED
      BY <3>1, <3>2, <3>3, <1>2
  <2>. QED
    BY <2>1, <2>2
<1>. QED
  BY <1>3, <1>4

\* The reader takes entries in turn and completely: for every log, every order
\* of writes, deliveries, checkpoints and fall backs.
THEOREM LSCorrect == LSSpec => []LSInv
<1>1. LSInit => LSInv
  BY DEF LSInit, LSInv, LSTypeOK, Ordered, Complete, NoGap
<1>2. LSInv /\ [LSNext]_lsVars => LSInv'
  <2> SUFFICES ASSUME LSInv, [LSNext]_lsVars PROVE LSInv'
    OBVIOUS
  <2> USE DEF LSInv
  <2>1. CASE Write
    <3>1. Len(log) \in Nat
      BY DEF LSTypeOK
    <3>. QED
      BY <2>1, <3>1 DEF Write, LSTypeOK, Ordered, Complete, NoGap
  <2>2. CASE Deliver
    <3>1. LSTypeOK' /\ Ordered'
      <4>1. Len(log) \in Nat
        BY DEF LSTypeOK
      <4>. QED
        BY <2>2, <4>1 DEF Deliver, LSTypeOK, Ordered
    <3>2. Complete' /\ NoGap'
      BY <2>2, TakeInTurn DEF Deliver, Complete, NoGap
    <3>. QED
      BY <3>1, <3>2
  <2>3. CASE Checkpoint
    BY <2>3 DEF Checkpoint, LSTypeOK, Ordered, Complete, NoGap
  <2>4. CASE FallBack
    <3>1. LSTypeOK' /\ Ordered'
      <4>1. Len(log) \in Nat
        BY DEF LSTypeOK
      <4>. QED
        BY <2>4, <4>1 DEF FallBack, LSTypeOK, Ordered
    <3>2. Complete' /\ NoGap'
      BY <2>4 DEF FallBack, LSTypeOK, Ordered, Complete, NoGap
    <3>. QED
      BY <3>1, <3>2
  <2>5. CASE UNCHANGED lsVars
    BY <2>5 DEF lsVars, LSTypeOK, Ordered, Complete, NoGap
  <2>. QED
    BY <2>1, <2>2, <2>3, <2>4, <2>5 DEF LSNext
<1>. QED
  BY <1>1, <1>2, PTL DEF LSSpec
=============================================================================
