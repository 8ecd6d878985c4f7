---------------------------- MODULE QueueLemmas ----------------------------
(***************************************************************************)
(* What a bounded queue holds: the elements of a sequence that is appended *)
(* to at its end and drained at its head, as Go channels are.              *)
(***************************************************************************)
EXTENDS Integers, Sequences, Functions, TLAPS

\* An empty queue holds nothing.
LEMMA QueueEmpty ==
    ASSUME NEW S
    PROVE  <<>> \in Seq(S) /\ Len(<<>>) = 0 /\ Range(<<>>) = {}
  BY DEF Range

\* A send adds its element to the end.
LEMMA QueueAppend ==
    ASSUME NEW S, NEW q \in Seq(S), NEW e \in S
    PROVE  /\ Append(q, e) \in Seq(S)
           /\ Len(Append(q, e)) = Len(q) + 1
           /\ Range(Append(q, e)) = Range(q) \cup {e}
  <1>1. /\ Append(q, e) \in Seq(S)
        /\ Len(Append(q, e)) = Len(q) + 1
    OBVIOUS
  <1>2. /\ DOMAIN Append(q, e) = 1 .. (Len(q) + 1)
        /\ \A i \in 1 .. Len(q) : Append(q, e)[i] = q[i]
        /\ Append(q, e)[Len(q) + 1] = e
        /\ DOMAIN q = 1 .. Len(q)
        /\ Len(q) \in Nat
    OBVIOUS
  <1>3. Range(q) \cup {e} \subseteq Range(Append(q, e))
    BY <1>2 DEF Range
  <1>4. Range(Append(q, e)) \subseteq Range(q) \cup {e}
    BY <1>2 DEF Range
  <1>. QED
    BY <1>1, <1>3, <1>4

\* A receive takes the head and leaves the tail.
LEMMA QueueTail ==
    ASSUME NEW S, NEW q \in Seq(S), q # <<>>
    PROVE  /\ Head(q) \in S
           /\ Tail(q) \in Seq(S)
           /\ Len(Tail(q)) = Len(q) - 1
           /\ Range(q) = {Head(q)} \cup Range(Tail(q))
  <1>1. /\ Head(q) \in S
        /\ Tail(q) \in Seq(S)
        /\ Len(Tail(q)) = Len(q) - 1
        /\ Len(q) \in Nat \ {0}
    OBVIOUS
  <1>2. /\ DOMAIN q = 1 .. Len(q)
        /\ Head(q) = q[1]
        /\ DOMAIN Tail(q) = 1 .. (Len(q) - 1)
        /\ \A i \in 1 .. (Len(q) - 1) : Tail(q)[i] = q[i + 1]
    BY <1>1
  <1>3. Range(q) \subseteq {Head(q)} \cup Range(Tail(q))
    <2>. SUFFICES ASSUME NEW i \in 1 .. Len(q)
                  PROVE  q[i] \in {Head(q)} \cup Range(Tail(q))
      BY <1>2 DEF Range
    <2>1. CASE i = 1
      BY <1>2, <2>1
    <2>2. CASE i # 1
      <3>1. i - 1 \in DOMAIN Tail(q) /\ Tail(q)[i - 1] = q[i]
        BY <1>1, <1>2, <2>2
      <3>. QED
        BY <3>1 DEF Range
    <2>. QED
      BY <2>1, <2>2
  <1>4. {Head(q)} \cup Range(Tail(q)) \subseteq Range(q)
    <2>1. Head(q) \in Range(q)
      BY <1>1, <1>2 DEF Range
    <2>2. ASSUME NEW i \in DOMAIN Tail(q) PROVE Tail(q)[i] \in Range(q)
      <3>1. i + 1 \in DOMAIN q /\ Tail(q)[i] = q[i + 1]
        BY <1>1, <1>2
      <3>. QED
        BY <3>1 DEF Range
    <2>. QED
      BY <2>1, <2>2 DEF Range
  <1>. QED
    BY <1>1, <1>3, <1>4

\* What a queue holds is of the queue's type.
LEMMA QueueType ==
    ASSUME NEW S, NEW q \in Seq(S)
    PROVE  Range(q) \subseteq S /\ Len(q) \in Nat
  BY DEF Range

=============================================================================
