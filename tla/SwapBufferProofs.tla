-------------------------- MODULE SwapBufferProofs --------------------------
(* Proofs about the rotating buffers, for buffers and queues of any size.  *)
EXTENDS SwapBuffer, SequenceTheorems, TLAPS

\* The rotation of the three buffers in tryRead, case by case.
LEMMA Rotate ==
  ASSUME NEW b \in Buffers
  PROVE  (b + 1) % 3 = IF b = 2 THEN 0 ELSE b + 1
<1>1. b \in {0, 1, 2}
  BY DEF Buffers
<1>2. CASE b = 0
  BY <1>2
<1>3. CASE b = 1
  BY <1>3
<1>4. CASE b = 2
  BY <1>4
<1>5. QED
  BY <1>1, <1>2, <1>3, <1>4

\* The state of SwapBuffer keeps its types in every step of tryRead, deliver
\* and WaitIO; in particular the loop never reads past the end of the front
\* buffer and chResults never holds more than its capacity.
THEOREM TypeCorrect == Spec => []TypeOK
<1>1. Init => TypeOK
  <2> SUFFICES ASSUME Init PROVE TypeOK
    OBVIOUS
  <2>1. [buf |-> 0, lo |-> 0, hi |-> 0] \in Region
    BY SwapSizeAssumption DEF Region, Buffers
  <2>2. <<>> \in Seq(Region) /\ Len(<<>>) = 0
    OBVIOUS
  <2>3. shouldSwap \in BOOLEAN
    BY Zenon DEF Init
  <2>4. QED
    BY <2>1, <2>2, <2>3, SwapSizeAssumption, CapAssumption DEF Init, TypeOK, Buffers
<1>2. TypeOK /\ [Next]_vars => TypeOK'
  <2> SUFFICES ASSUME TypeOK, [Next]_vars PROVE TypeOK'
    OBVIOUS
  <2> USE SwapSizeAssumption, CapAssumption DEF TypeOK, Buffers
  <2>1. CASE SelectBuffer
    <3>1. shouldSwap' \in BOOLEAN
      BY <2>1, Zenon DEF SelectBuffer
    <3>2. front' \in Buffers /\ offset' \in 0 .. SwapSize
      BY <2>1, Rotate DEF SelectBuffer
    <3>3. QED
      BY <2>1, <3>1, <3>2 DEF SelectBuffer
  <2>2. CASE ReadBlocks
    BY <2>2 DEF ReadBlocks
  <2>3. ASSUME NEW n \in 0 .. SwapSize, ReadSwap(n) PROVE TypeOK'
    BY <2>3 DEF ReadSwap, Region
  <2>4. CASE ReadBack
    BY <2>4 DEF ReadBack, NoBytes, Region
  <2>5. CASE CompleteOther
    BY <2>5 DEF CompleteOther, NoBytes, Region
  <2>6. CASE Deliver
    BY <2>6, AppendProperties DEF Deliver
  <2>7. CASE WaitCall
    BY <2>7 DEF WaitCall
  <2>8. CASE WaitReceive
    <3>1. /\ Head(chResults) \in Region
          /\ Tail(chResults) \in Seq(Region)
          /\ Len(Tail(chResults)) = Len(chResults) - 1
      BY <2>8, HeadTailProperties DEF WaitReceive
    <3>2. Len(chResults) \in Nat
      BY LenProperties
    <3>3. QED
      BY <2>8, <3>1, <3>2 DEF WaitReceive
  <2>9. CASE WaitDrained
    BY <2>9 DEF WaitDrained
  <2>10. CASE WaitReturn
    BY <2>10 DEF WaitReturn
  <2>11. CASE UNCHANGED vars
    BY <2>11 DEF vars
  <2>12. QED
    BY <2>1, <2>2, <2>3, <2>4, <2>5, <2>6, <2>7, <2>8, <2>9, <2>10, <2>11
       DEF Next, LoopStep, WaitStep
<1>3. QED
  BY <1>1, <1>2, PTL DEF Spec
-----------------------------------------------------------------------------
(* What a send and a receive do to the set of queued results.              *)

\* A send to chResults adds the result and nothing else.
LEMMA ElemsAppend ==
  ASSUME NEW s \in Seq(Region), NEW x \in Region
  PROVE  Elems(Append(s, x)) = Elems(s) \cup {x}
BY AppendProperties, LenProperties DEF Elems

\* A receive takes a result that was there and adds none.
LEMMA ElemsHeadTail ==
  ASSUME NEW s \in Seq(Region), s # <<>>
  PROVE  Head(s) \in Elems(s) /\ Elems(Tail(s)) \subseteq Elems(s)
<1>1. /\ Len(s) \in Nat /\ Len(s) > 0
      /\ Head(s) = s[1]
      /\ Len(Tail(s)) = Len(s) - 1
      /\ \A i \in 1 .. Len(Tail(s)) : Tail(s)[i] = s[i + 1]
  BY HeadTailProperties, LenProperties, EmptySeq
<1>2. QED
  BY <1>1 DEF Elems

\* The elements of a sequence of regions are regions.
LEMMA ElemsRegion ==
  ASSUME NEW s \in Seq(Region)
  PROVE  Elems(s) \subseteq Region
BY ElementOfSeq DEF Elems

-----------------------------------------------------------------------------
\* Rotation is inductive: each step of the loop and of WaitIO keeps what is on
\* its way to the user away from the bytes the loop will write next.
THEOREM RotationInductive == Spec => []Rotation
<1>1. Init => Rotation
  BY DEF Init, Rotation, NotYetReturned, Elems
<1>2. TypeOK /\ Rotation /\ [Next]_vars => Rotation'
  <2> SUFFICES ASSUME TypeOK, Rotation, [Next]_vars PROVE Rotation'
    OBVIOUS
  <2> USE SwapSizeAssumption DEF TypeOK, Rotation, Used, NextBuffer, NotYetReturned
  <2>1. CASE SelectBuffer
    <3>1. CASE shouldSwap
      <4>1. /\ front' = NextBuffer /\ offset' = 0
            /\ loop' = "read" /\ shouldSwap' = FALSE /\ waiter' = waiter
            /\ Elems(chResults)' = Elems(chResults)
            /\ NotYetReturned' = NotYetReturned
        BY <2>1, <3>1 DEF SelectBuffer, Elems
      <4>2. \A r \in NotYetReturned : r.buf # NextBuffer
        BY <3>1
      <4>3. waiter = "notify" => \A r \in Elems(chResults) : r.buf # NextBuffer'
        <5>1. NextBuffer' # front
          BY <4>1, Rotate DEF Buffers
        <5>2. QED
          BY <3>1, <5>1
      <4>4. QED
        BY <4>1, <4>2, <4>3
    <3>2. CASE ~ shouldSwap
      BY <2>1, <3>2, Rotate, ElemsRegion DEF SelectBuffer
    <3>3. QED
      BY <3>1, <3>2
  <2>2. CASE ReadBlocks
    BY <2>2 DEF ReadBlocks
  <2>3. ASSUME NEW n \in 0 .. SwapSize, ReadSwap(n) PROVE Rotation'
    BY <2>3 DEF ReadSwap, Region
  <2>4. CASE ReadBack
    BY <2>4 DEF ReadBack, NoBytes, Region
  <2>5. CASE CompleteOther
    BY <2>5 DEF CompleteOther, NoBytes, Region
  <2>6. CASE Deliver
    <3>1. Elems(chResults') = Elems(chResults) \cup {cur}
      BY <2>6, ElemsAppend DEF Deliver
    <3>2. \A r \in NotYetReturned' : r \in NotYetReturned \/ r = cur
      BY <2>6, <3>1 DEF Deliver
    <3>3. cur.buf = front /\ cur.lo <= offset /\ cur.hi = offset
      BY <2>6 DEF Deliver, Region
    <3>4. front # NextBuffer
      BY Rotate DEF Buffers
    <3>5. \A r \in NotYetReturned : r.buf = front => r.hi <= offset
      <4>1. \A r \in NotYetReturned : r.hi \in Nat
        <5>1. \A r \in NotYetReturned : r \in Region
          BY ElemsRegion
        <5>2. \A r \in Region : r.hi \in Nat
          BY DEF Region
        <5>3. QED
          BY <5>1, <5>2
      <4>2. \A r \in NotYetReturned : r.buf = front => r.hi <= cur.lo
        BY <2>6 DEF Deliver
      <4>3. cur.lo \in Nat /\ offset \in Nat
        BY DEF Region
      <4>4. QED
        BY <3>3, <4>1, <4>2, <4>3
    <3>6. QED
      BY <2>6, <3>1, <3>2, <3>3, <3>4, <3>5 DEF Deliver
  <2>7. CASE WaitCall
    BY <2>7 DEF WaitCall
  <2>8. CASE WaitReceive
    BY <2>8, ElemsHeadTail DEF WaitReceive
  <2>9. CASE WaitDrained
    <3>1. Elems(chResults) = {}
      BY <2>9 DEF WaitDrained, Elems
    <3>2. QED
      BY <2>9, <3>1 DEF WaitDrained
  <2>10. CASE WaitReturn
    BY <2>10 DEF WaitReturn
  <2>11. CASE UNCHANGED vars
    BY <2>11 DEF vars
  <2>12. QED
    BY <2>1, <2>2, <2>3, <2>4, <2>5, <2>6, <2>7, <2>8, <2>9, <2>10, <2>11
       DEF Next, LoopStep, WaitStep
<1>3. QED
  BY <1>1, <1>2, TypeCorrect, PTL DEF Spec

\* Whatever the sizes of the buffers and of chResults, no read of the loop
\* overwrites a completed read before WaitIO has returned it.
THEOREM Intact == Spec => []IntactOnReturn
<1>1. TypeOK /\ Rotation => IntactOnReturn
  <2> SUFFICES ASSUME TypeOK, Rotation, loop = "deliver",
                      NEW r \in NotYetReturned, Overlap(cur, r)
               PROVE  FALSE
    BY DEF IntactOnReturn
  <2>1. r \in Region
    BY ElemsRegion DEF TypeOK, NotYetReturned
  <2>2. r.buf = front /\ r.hi <= cur.lo
    BY DEF Rotation, Used, Overlap
  <2>3. QED
    BY <2>1, <2>2 DEF Overlap, TypeOK, Region
<1>2. QED
  BY <1>1, TypeCorrect, RotationInductive, PTL
=============================================================================
