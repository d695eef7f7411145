------------------------- MODULE SchemaVisitProofs -------------------------
(***************************************************************************)
(* SchemaWalk implements SchemaVisit, for every number of goroutines,      *)
(* every schema tree, every pool and every growth policy of append; and    *)
(* what a comparator may conclude from a walk that has ended.              *)
(*                                                                         *)
(* SchemaVisit chooses the next schema by what was seen, SchemaWalk by     *)
(* which children each active call has recursed into.  VisitInv relates    *)
(* the two: a child of an active call has been seen, or is the next active *)
(* call, exactly when the call has recursed into it.                       *)
(***************************************************************************)
EXTENDS SchemaWalkProofs, SequenceTheorems, FiniteSetTheorems

\* The calls of a walk whose predicate has returned false so far, and what it has seen.
VisitOK(calls, vis) ==
    /\ vis \subseteq Node
    /\ \A n \in vis : Parent[n] = Nil \/ Parent[n] \in vis
    /\ \A i \in 1..Len(calls) :
         /\ calls[i].pc = "kids" <=> calls[i].src \in vis
         /\ calls[i].pc = "kids" => Kids(calls[i].src) \cap vis \subseteq calls[i].done
         /\ i < Len(calls) => calls[i + 1].src \in calls[i].done
         /\ \A k \in calls[i].done : k \in vis \/ (i < Len(calls) /\ k = calls[i + 1].src)
    /\ \A i, j \in 1..Len(calls) : calls[i].src = calls[j].src => i = j
    /\ \A n \in vis : Kids(n) \subseteq vis \/ \E i \in 1..Len(calls) : calls[i].src = n

VisitInv == \A w \in Walker : ~found[w] => VisitOK(stack[w], seen[w])

\* The calls lie on a path of the tree, and only the last one can be at its predicate.
OnPath(calls) ==
    \A i \in 1..Len(calls) :
        /\ calls[i].src \in Node
        /\ i = 1 => Parent[calls[i].src] = Nil
        /\ i > 1 => Parent[calls[i].src] = calls[i - 1].src
        /\ i < Len(calls) => calls[i].pc = "kids"

-----------------------------------------------------------------------------
\* IndInv puts the calls of a walk on a path.
LEMMA WalkOnPath ==
    ASSUME IndInv, NEW w \in Walker
    PROVE  stack[w] \in Seq(Frame) /\ OnPath(stack[w])
<1>1. stack[w] \in Seq(Frame) /\ CallsOK(stack[w], heap, newToFldPath[w])
  BY DEF IndInv, TypeOK, FramesOK
<1>2. ASSUME NEW i \in 1..Len(stack[w])
      PROVE  /\ stack[w][i].src \in Node
             /\ i = 1 => Parent[stack[w][i].src] = Nil
             /\ i > 1 => Parent[stack[w][i].src] = stack[w][i - 1].src
             /\ i < Len(stack[w]) => stack[w][i].pc = "kids"
  <2>1. stack[w][i] \in Frame /\ FrameOK(stack[w], i, heap, newToFldPath[w])
    BY <1>1, SMT DEF CallsOK
  <2>2. stack[w][i].src \in Node
    BY <2>1, SMT DEF Frame
  <2>3. QED
    BY <2>1, <2>2 DEF FrameOK, Root
<1>3. QED
  BY <1>1, <1>2 DEF OnPath

\* VisitOK looks at the schemas, the control and the progress of the calls only.
LEMMA VisitKept ==
    ASSUME NEW calls \in Seq(Frame), NEW new \in Seq(Frame), NEW vis,
           VisitOK(calls, vis), Len(new) = Len(calls),
           \A i \in 1..Len(calls) : /\ new[i].src = calls[i].src
                                    /\ new[i].done = calls[i].done
                                    /\ new[i].pc = calls[i].pc
    PROVE  VisitOK(new, vis)
<1>1. \A i \in 1..Len(calls) : i < Len(calls) => i + 1 \in 1..Len(calls)
  BY SMT
<1>2. ASSUME NEW i \in 1..Len(new)
      PROVE  /\ new[i].pc = "kids" <=> new[i].src \in vis
             /\ new[i].pc = "kids" => Kids(new[i].src) \cap vis \subseteq new[i].done
             /\ i < Len(new) => new[i + 1].src \in new[i].done
             /\ \A k \in new[i].done : k \in vis \/ (i < Len(new) /\ k = new[i + 1].src)
  BY <1>1 DEF VisitOK
<1>3. /\ \A i, j \in 1..Len(new) : new[i].src = new[j].src => i = j
      /\ \A n \in vis : Kids(n) \subseteq vis \/ \E i \in 1..Len(new) : new[i].src = n
      /\ vis \subseteq Node /\ \A n \in vis : Parent[n] = Nil \/ Parent[n] \in vis
  BY DEF VisitOK
<1>4. QED
  BY <1>2, <1>3 DEF VisitOK

\* A walk that begins.
LEMMA VisitBegins ==
    ASSUME NEW f \in Frame, f.pc = "pred", f.done = {}
    PROVE  VisitOK(<<f>>, {})
<1>1. <<f>> \in Seq(Frame) /\ Len(<<f>>) = 1 /\ <<f>>[1] = f
  BY SMT
<1>2. \A i \in 1..1 : i = 1 /\ ~(i < 1)
  BY SMT
<1>3. QED
  BY <1>1, <1>2 DEF VisitOK

\* After the predicate returned false the innermost call is at its children.
MovedOn(calls, new, vis, vis2) ==
    /\ Len(new) = Len(calls)
    /\ \A i \in 1..Len(calls) : /\ new[i].src = calls[i].src
                                /\ new[i].done = calls[i].done
                                /\ i < Len(calls) => new[i].pc = calls[i].pc
    /\ calls[Len(calls)].pc = "pred" /\ new[Len(calls)].pc = "kids"
    /\ vis2 = vis \cup {calls[Len(calls)].src}

\* The predicate returned false: the innermost schema has been seen, nothing below it.
LEMMA VisitSees ==
    ASSUME NEW calls \in Seq(Frame), NEW new \in Seq(Frame), NEW vis, NEW vis2,
           OnPath(calls), VisitOK(calls, vis), calls # <<>>, MovedOn(calls, new, vis, vis2)
    PROVE  VisitOK(new, vis2)
<1> DEFINE d == Len(calls)
           n == calls[d].src
<1> USE DEF MovedOn
<1>1. d \in Nat /\ d >= 1 /\ d \in 1..d
  BY SMT
<1>2. n \in Node /\ n \notin vis
  BY <1>1 DEF OnPath, VisitOK
<1>3. Parent[n] = Nil \/ (d > 1 /\ d - 1 \in 1..d /\ Parent[n] = calls[d - 1].src /\ calls[d - 1].src \in vis
                            /\ n \in calls[d - 1].done)
  <2>1. CASE d = 1
    BY <2>1, <1>1 DEF OnPath
  <2>2. CASE d > 1
    <3>1. d - 1 \in 1..d /\ d - 1 < d /\ (d - 1) + 1 = d
      BY <2>2, <1>1, SMT
    <3>2. QED
      BY <2>2, <3>1, <1>1 DEF OnPath, VisitOK
  <2>3. d = 1 \/ d > 1
    BY <1>1, SMT
  <2>4. QED
    BY <2>1, <2>2, <2>3
\* Nothing below n has been seen: what is seen has a parent that is seen.
<1>4. Kids(n) \cap vis2 = {}
  <2>1. ASSUME NEW k \in Kids(n), k \in vis2 PROVE FALSE
    <3>1. k \in Node /\ Parent[k] = n /\ Nil \notin Node
      BY TreeAssumption DEF Kids
    <3>2. k \notin vis
      BY <3>1, <1>2 DEF VisitOK
    <3>3. k = n
      BY <2>1, <3>2
    <3>4. QED
      BY <3>1, <3>3, <1>2, <1>3
  <2>2. QED
    BY <2>1
<1>5. vis2 \subseteq Node /\ \A m \in vis2 : Parent[m] = Nil \/ Parent[m] \in vis2
  BY <1>2, <1>3 DEF VisitOK
<1>6. ASSUME NEW i \in 1..d
      PROVE  /\ new[i].pc = "kids" <=> new[i].src \in vis2
             /\ new[i].pc = "kids" => Kids(new[i].src) \cap vis2 \subseteq new[i].done
             /\ i < d => new[i + 1].src \in new[i].done
             /\ \A k \in new[i].done : k \in vis2 \/ (i < d /\ k = new[i + 1].src)
  <2>1. i < d => i + 1 \in 1..d
    BY <1>1, SMT
  <2>2. /\ i < d => new[i + 1].src \in new[i].done
        /\ \A k \in new[i].done : k \in vis2 \/ (i < d /\ k = new[i + 1].src)
    <3>1. /\ i < d => calls[i + 1].src \in calls[i].done
          /\ \A k \in calls[i].done : k \in vis \/ (i < d /\ k = calls[i + 1].src)
      BY DEF VisitOK
    <3>2. vis \subseteq vis2 /\ new[i].done = calls[i].done
          /\ (i < d => new[i + 1].src = calls[i + 1].src)
      BY <2>1
    <3>3. QED
      BY <3>1, <3>2
  <2>3. CASE i = d
    <3>1. new[i].src = n /\ new[i].pc = "kids" /\ n \in vis2
      BY <1>1, <2>3
    <3>2. QED
      BY <2>2, <3>1, <1>4
  <2>4. CASE i # d
    <3>1. i < d
      BY <2>4, <1>1, SMT
    <3>2. calls[i].pc = "kids" /\ calls[i].src \in vis
      BY <3>1 DEF OnPath, VisitOK
    <3>3. n \in Kids(calls[i].src) => n \in calls[i].done
      <4>1. SUFFICES ASSUME Parent[n] = calls[i].src PROVE n \in calls[i].done
        BY DEF Kids
      <4>2. calls[i].src \in Node /\ Nil \notin Node
        BY TreeAssumption DEF OnPath
      <4>3. d - 1 \in 1..d /\ calls[d - 1].src = calls[i].src /\ n \in calls[d - 1].done
        BY <4>1, <4>2, <1>3
      <4>4. i = d - 1
        BY <4>3 DEF VisitOK
      <4>5. QED
        BY <4>3, <4>4
    <3>4. Kids(calls[i].src) \cap vis \subseteq calls[i].done
      BY <3>2 DEF VisitOK
    <3>5. QED
      <4>1. new[i].src = calls[i].src /\ new[i].done = calls[i].done /\ new[i].pc = calls[i].pc
        BY <3>1
      <4>2. Kids(calls[i].src) \cap vis2 \subseteq calls[i].done /\ calls[i].src \in vis2
        BY <3>2, <3>3, <3>4
      <4>3. QED
        BY <2>2, <3>2, <4>1, <4>2
  <2>5. QED
    BY <2>3, <2>4
<1>7. \A i, j \in 1..d : new[i].src = new[j].src => i = j
  <2>1. \A i, j \in 1..d : calls[i].src = calls[j].src => i = j
    BY DEF VisitOK
  <2>2. QED
    BY <2>1
<1>8. \A m \in vis2 : Kids(m) \subseteq vis2 \/ \E i \in 1..d : new[i].src = m
  <2>1. \A m \in vis : Kids(m) \subseteq vis \/ \E i \in 1..d : calls[i].src = m
    BY DEF VisitOK
  <2>2. QED
    BY <1>1, <2>1
<1>9. QED
  BY <1>5, <1>6, <1>7, <1>8 DEF VisitOK

\* The walk recurses into a child that the innermost call had not recursed into.
LEMMA VisitDescends ==
    ASSUME NEW calls \in Seq(Frame), NEW new \in Seq(Frame), NEW vis, NEW k,
           OnPath(calls), VisitOK(calls, vis), calls # <<>>, calls[Len(calls)].pc = "kids",
           k \in Kids(calls[Len(calls)].src) \ calls[Len(calls)].done,
           Len(new) = Len(calls) + 1,
           \A i \in 1..Len(calls) : /\ new[i].src = calls[i].src /\ new[i].pc = calls[i].pc
                                    /\ i < Len(calls) => new[i].done = calls[i].done,
           new[Len(calls)].done = calls[Len(calls)].done \cup {k},
           new[Len(calls) + 1].src = k, new[Len(calls) + 1].pc = "pred",
           new[Len(calls) + 1].done = {}
    PROVE  VisitOK(new, vis)
<1> DEFINE d == Len(calls)
<1>1. d \in Nat /\ d >= 1 /\ d \in 1..d /\ d < d + 1 /\ Len(new) = d + 1 /\ ~(d + 1 < d + 1)
  BY SMT
<1>2. \A i \in 1..(d + 1) : i = d + 1 \/ (i \in 1..d /\ i < d + 1 /\ (i = d \/ (i < d /\ i + 1 \in 1..d)))
  BY <1>1, SMT
<1>3. k \notin vis
  BY <1>1 DEF VisitOK
<1>4. \A i \in 1..d : calls[i].src \in vis
  <2>1. \A i \in 1..d : i < d \/ i = d
    BY <1>1, SMT
  <2>2. QED
    BY <2>1 DEF OnPath, VisitOK
<1> HIDE DEF d
<1>5. ASSUME NEW i \in 1..(d + 1)
      PROVE  /\ new[i].pc = "kids" <=> new[i].src \in vis
             /\ new[i].pc = "kids" => Kids(new[i].src) \cap vis \subseteq new[i].done
             /\ i < d + 1 => new[i + 1].src \in new[i].done
             /\ \A m \in new[i].done : m \in vis \/ (i < d + 1 /\ m = new[i + 1].src)
  <2>1. CASE i = d + 1
    BY <2>1, <1>1, <1>3 DEF d
  <2>2. CASE i = d
    BY <2>2, <1>1, <1>2 DEF d, VisitOK
  <2>3. CASE i \in 1..d /\ i < d /\ i + 1 \in 1..d /\ i < d + 1
    BY <2>3 DEF d, VisitOK
  <2>4. QED
    BY <2>1, <2>2, <2>3, <1>2
<1>6. \A i, j \in 1..(d + 1) : new[i].src = new[j].src => i = j
  BY <1>1, <1>2, <1>3, <1>4 DEF d, VisitOK
<1>7. \A n \in vis : Kids(n) \subseteq vis \/ \E i \in 1..(d + 1) : new[i].src = n
  <2>1. \A i \in 1..d : i \in 1..(d + 1)
    BY <1>1, SMT
  <2>2. QED
    BY <2>1 DEF d, VisitOK
<1>8. vis \subseteq Node /\ \A n \in vis : Parent[n] = Nil \/ Parent[n] \in vis
  BY DEF VisitOK
<1>9. Len(new) = d + 1
  BY <1>1
<1>10. ASSUME NEW i \in 1..Len(new)
       PROVE  /\ new[i].pc = "kids" <=> new[i].src \in vis
              /\ new[i].pc = "kids" => Kids(new[i].src) \cap vis \subseteq new[i].done
              /\ i < Len(new) => new[i + 1].src \in new[i].done
              /\ \A m \in new[i].done : m \in vis \/ (i < Len(new) /\ m = new[i + 1].src)
  <2>1. i \in 1..(d + 1)
    BY <1>9
  <2>2. QED
    BY <2>1, <1>5, <1>9
<1>11. QED
  BY <1>6, <1>7, <1>8, <1>9, <1>10 DEF VisitOK

\* The innermost call returns after its last child.
LEMMA VisitLeaves ==
    ASSUME NEW calls \in Seq(Frame), NEW new \in Seq(Frame), NEW vis,
           VisitOK(calls, vis), calls # <<>>, calls[Len(calls)].pc = "kids",
           Kids(calls[Len(calls)].src) \subseteq calls[Len(calls)].done,
           Len(new) = Len(calls) - 1,
           \A i \in 1..(Len(calls) - 1) : new[i] = calls[i]
    PROVE  VisitOK(new, vis)
<1> DEFINE d == Len(calls)
<1>1. d \in Nat /\ d >= 1 /\ d \in 1..d /\ Len(new) = d - 1 /\ ~(d < d)
  BY SMT
<1>2. \A i \in 1..(d - 1) : i \in 1..d /\ i < d /\ (i + 1 = d \/ (i < d - 1 /\ i + 1 \in 1..(d - 1)))
  BY <1>1, SMT
<1>3. \A i \in 1..d : i = d \/ i \in 1..(d - 1)
  BY <1>1, SMT
<1>4. calls[d].src \in vis /\ calls[d].done \subseteq vis
  BY <1>1 DEF VisitOK
<1>5. \A i \in 1..(d - 1) : i < d - 1 => i < d
  BY <1>2
<1> HIDE DEF d
<1>6. ASSUME NEW i \in 1..(d - 1)
      PROVE  /\ new[i].pc = "kids" <=> new[i].src \in vis
             /\ new[i].pc = "kids" => Kids(new[i].src) \cap vis \subseteq new[i].done
             /\ i < d - 1 => new[i + 1].src \in new[i].done
             /\ \A m \in new[i].done : m \in vis \/ (i < d - 1 /\ m = new[i + 1].src)
  <2>1. /\ i \in 1..d /\ i < d /\ new[i] = calls[i]
        /\ i + 1 = d \/ (i < d - 1 /\ i + 1 \in 1..(d - 1) /\ new[i + 1] = calls[i + 1])
    BY <1>2 DEF d
  <2>2. /\ calls[i].pc = "kids" <=> calls[i].src \in vis
        /\ calls[i].pc = "kids" => Kids(calls[i].src) \cap vis \subseteq calls[i].done
        /\ calls[i + 1].src \in calls[i].done
        /\ \A k \in calls[i].done : k \in vis \/ k = calls[i + 1].src
    BY <2>1 DEF d, VisitOK
  <2>3. i < d - 1 => i + 1 # d
    BY <1>1, SMT
  <2>4. QED
    BY <2>1, <2>2, <2>3, <1>4
<1>7. \A i, j \in 1..(d - 1) : new[i].src = new[j].src => i = j
  BY <1>2 DEF d, VisitOK
<1>8. \A n \in vis : Kids(n) \subseteq vis \/ \E i \in 1..(d - 1) : new[i].src = n
  BY <1>2, <1>3, <1>4 DEF d, VisitOK
<1>9. vis \subseteq Node /\ \A n \in vis : Parent[n] = Nil \/ Parent[n] \in vis
  BY DEF VisitOK
<1>10. QED
  BY <1>1, <1>6, <1>7, <1>8, <1>9 DEF VisitOK

-----------------------------------------------------------------------------
\* One lemma per action: what it does to the calls and to what was seen.

\* The walks of the others are as they were.
OthersStay(w) ==
    \A v \in Walker : v # w => /\ stack'[v] = stack[v]
                              /\ seen'[v] = seen[v] /\ found'[v] = found[v]

LEMMA BeginShape ==
    ASSUME IndInv, NEW w \in Walker, SchemaHas(w)
    PROVE  /\ OthersStay(w)
           /\ stack[w] = <<>> /\ seen'[w] = {} /\ found'[w] = FALSE
           /\ \E f \in Frame : /\ stack'[w] = <<f>> /\ f.src \in Root
                               /\ f.pc = "pred" /\ f.done = {}
<1>1. PICK r \in Root : stack' = [stack EXCEPT ![w] = <<NewFrame(r, r, NilSlice)>>]
  BY DEF SchemaHas
<1>2. /\ seen' = [seen EXCEPT ![w] = {}] /\ found' = [found EXCEPT ![w] = FALSE]
      /\ stack[w] = <<>> /\ TypeOK
  BY DEF SchemaHas, IndInv
<1>3. r \in Node /\ r \in Ptr /\ NilSlice \in Slice
  BY SMT DEF Root, Ptr, NilSlice, Slice
<1>4. LET f == NewFrame(r, r, NilSlice)
      IN  f \in Frame /\ f.src = r /\ f.pc = "pred" /\ f.done = {}
  BY <1>3, NewFrameFields
<1>5. stack'[w] = <<NewFrame(r, r, NilSlice)>> /\ seen'[w] = {} /\ found'[w] = FALSE
  BY <1>1, <1>2 DEF TypeOK
<1>6. OthersStay(w)
  BY <1>1, <1>2 DEF TypeOK, OthersStay
<1>7. QED
  BY <1>2, <1>4, <1>5, <1>6

\* The predicate is shown the schema of its own call.
LEMMA PredSees ==
    ASSUME IndInv, NEW w \in Walker, stack[w] # <<>>, Pred(w)
    PROVE  /\ seen'[w] = seen[w] \cup {Top(w).src}
           /\ \A v \in Walker : v # w => seen'[v] = seen[v]
<1>1. Depth(w) \in 1..Depth(w) /\ Top(w) = stack[w][Depth(w)]
  BY TopFacts, SMT DEF Top
<1>2. Deref(Top(w).s) = Top(w).src
  BY <1>1, AncestryRead
<1>3. QED
  BY <1>2 DEF Pred, IndInv, TypeOK

\* An append in place leaves schemas, control and progress of all calls alone.
LEMMA AppendShape ==
    ASSUME IndInv, NEW w \in Walker, PredAppends(w)
    PROVE  /\ OthersStay(w) /\ seen' = seen /\ found' = found
           /\ stack'[w] \in Seq(Frame) /\ Len(stack'[w]) = Len(stack[w])
           /\ \A i \in 1..Len(stack[w]) : /\ stack'[w][i].src = stack[w][i].src
                                          /\ stack'[w][i].done = stack[w][i].done
                                          /\ stack'[w][i].pc = stack[w][i].pc
<1>1. /\ stack[w] # <<>> /\ Top(w).pc = "pred" /\ HasRoom(w) /\ TypeOK
      /\ stack' = [stack EXCEPT ![w] = StoreInPlace(w)] /\ UNCHANGED <<seen, found>>
  BY DEF PredAppends, IndInv
<1>2. /\ stack'[w] = StoreInPlace(w) /\ \A v \in Walker : v # w => stack'[v] = stack[v]
  BY <1>1 DEF TypeOK
<1>3. QED
  BY <1>1, <1>2, InPlaceShape DEF Depth, OthersStay

LEMMA TrueShape ==
    ASSUME IndInv, NEW w \in Walker, PredTrue(w)
    PROVE  /\ OthersStay(w) /\ stack' = stack
           /\ stack[w] # <<>> /\ Top(w).pc = "pred" /\ ~found[w]
           /\ seen'[w] = seen[w] \cup {Top(w).src} /\ found'[w] = TRUE
<1>1. /\ stack[w] # <<>> /\ Top(w).pc = "pred" /\ ~found[w] /\ Pred(w) /\ TypeOK
      /\ stack' = stack /\ found' = [found EXCEPT ![w] = TRUE]
  BY DEF PredTrue, IndInv
<1>2. QED
  BY <1>1, PredSees DEF TypeOK, OthersStay

\* Either way of building nextAncestry moves the innermost call to its children.
LEMMA FalseShape ==
    ASSUME IndInv, NEW w \in Walker, PredFalseInPlace(w) \/ PredFalseGrow(w)
    PROVE  /\ OthersStay(w)
           /\ stack[w] # <<>> /\ Top(w).pc = "pred" /\ ~found[w]
           /\ seen'[w] = seen[w] \cup {Top(w).src} /\ found' = found
           /\ stack'[w] \in Seq(Frame) /\ Len(stack'[w]) = Len(stack[w])
           /\ \A i \in 1..Len(stack[w]) : /\ stack'[w][i].src = stack[w][i].src
                                          /\ stack'[w][i].done = stack[w][i].done
                                          /\ i < Len(stack[w]) => stack'[w][i].pc = stack[w][i].pc
           /\ stack'[w][Len(stack[w])].pc = "kids"
<1> DEFINE d == Depth(w)
<1>1. /\ stack[w] # <<>> /\ Top(w).pc = "pred" /\ ~found[w] /\ Pred(w) /\ TypeOK /\ found' = found
  BY DEF PredFalseInPlace, PredFalseGrow, IndInv
<1>2. /\ stack[w] \in Seq(Frame) /\ d \in Nat /\ d >= 1 /\ d \in 1..d /\ Top(w) = stack[w][d]
      /\ Len(stack[w]) = d /\ Top(w) \in Frame
  BY <1>1, TopFacts, SMT DEF Top, Depth
\* In both cases the new calls are old ones but for arrays, with the last one moved on.
<1>3. ASSUME NEW calls \in Seq(Frame), NEW f \in Frame, NEW own \in Nat,
             Len(calls) = d, f.src = Top(w).src, f.done = Top(w).done,
             \A i \in 1..d : /\ calls[i].src = stack[w][i].src
                             /\ calls[i].done = stack[w][i].done
                             /\ calls[i].pc = stack[w][i].pc,
             stack' = [stack EXCEPT ![w] = [calls EXCEPT ![d] = AtKids(f, own)]]
      PROVE  /\ OthersStay(w)
             /\ stack'[w] \in Seq(Frame) /\ Len(stack'[w]) = d
             /\ \A i \in 1..d : /\ stack'[w][i].src = stack[w][i].src
                                /\ stack'[w][i].done = stack[w][i].done
                                /\ i < d => stack'[w][i].pc = stack[w][i].pc
             /\ stack'[w][d].pc = "kids"
  <2> DEFINE g == AtKids(f, own)
  <2>1. g \in Frame /\ g.src = Top(w).src /\ g.done = Top(w).done /\ g.pc = "kids"
    BY <1>3, AtKidsFrame
  <2>2. stack'[w] = [calls EXCEPT ![d] = g] /\ OthersStay(w)
    BY <1>1, <1>3, PredSees DEF TypeOK, OthersStay
  <2> HIDE DEF g
  <2>3. /\ stack'[w] \in Seq(Frame) /\ Len(stack'[w]) = d
        /\ \A i \in 1..d : stack'[w][i] = IF i = d THEN g ELSE calls[i]
    BY <1>2, <1>3, <2>1, <2>2, SMT
  <2>4. \A i \in 1..d : i < d => i # d
    BY <1>2, SMT
  <2>5. QED
    BY <1>2, <1>3, <2>1, <2>2, <2>3, <2>4
<1>4. CASE PredFalseInPlace(w)
  <2>1. /\ HasRoom(w)
        /\ stack' = [stack EXCEPT ![w] =
              [StoreInPlace(w) EXCEPT ![d] = AtKids(StoreInPlace(w)[d], Top(w).ancestry.own)]]
    BY <1>4 DEF PredFalseInPlace
  <2>2. /\ StoreInPlace(w) \in Seq(Frame) /\ Len(StoreInPlace(w)) = d
        /\ Top(w).ancestry.own \in 1..(d - 1)
        /\ \A i \in 1..d : /\ StoreInPlace(w)[i].src = stack[w][i].src
                           /\ StoreInPlace(w)[i].done = stack[w][i].done
                           /\ StoreInPlace(w)[i].pc = stack[w][i].pc
    BY <1>1, <2>1, InPlaceShape
  <2>3. Top(w).ancestry.own \in Nat /\ StoreInPlace(w)[d] \in Frame
    BY <1>2, <2>2, SMT
  <2>4. QED
    BY <1>1, <1>2, <1>3, <2>1, <2>2, <2>3, PredSees, ZenonT(60)
<1>5. CASE PredFalseGrow(w)
  <2>1. PICK extra \in 0..Slack :
          stack' = [stack EXCEPT ![w] =
            [stack[w] EXCEPT ![d] =
              AtKids([Top(w) EXCEPT !.buf = Grown(w, Top(w).ancestry.len + 1 + extra)], d)]]
    BY <1>5 DEF PredFalseGrow
  <2> DEFINE f == [Top(w) EXCEPT !.buf = Grown(w, Top(w).ancestry.len + 1 + extra)]
  <2>2. f \in Frame /\ f.src = Top(w).src /\ f.done = Top(w).done
    <3>1. Top(w).ancestry.len = d - 1 /\ extra \in Nat
      BY <1>1, AncestryRead, SlackAssumption, SMT
    <3>2. Top(w).ancestry.len + 1 + extra \in Nat /\ Top(w).ancestry.len + 1 + extra >= d
      BY <1>2, <3>1, SMT
    <3>3. Grown(w, Top(w).ancestry.len + 1 + extra) \in Seq(Ptr \cup {Nil})
      BY <1>1, <3>2, GrownHolds
    <3>4. QED
      BY <3>3, <1>2, WithBuf
  <2>3. stack' = [stack EXCEPT ![w] = [stack[w] EXCEPT ![d] = AtKids(f, d)]]
    BY <2>1
  <2> HIDE DEF f
  <2>4. QED
    BY <1>1, <1>2, <1>3, <2>2, <2>3, PredSees
<1>6. QED
  BY <1>4, <1>5

\* schemaHasRecurse enters a child that comes first among those left to do.
LEMMA RecurseShape ==
    ASSUME IndInv, NEW w \in Walker, schemaHasRecurse(w)
    PROVE  /\ OthersStay(w) /\ seen' = seen /\ found' = found
           /\ stack[w] # <<>> /\ Top(w).pc = "kids" /\ ~found[w]
           /\ stack'[w] \in Seq(Frame) /\ Len(stack'[w]) = Len(stack[w]) + 1
           /\ \A i \in 1..Len(stack[w]) :
                /\ stack'[w][i].src = stack[w][i].src /\ stack'[w][i].pc = stack[w][i].pc
                /\ i < Len(stack[w]) => stack'[w][i].done = stack[w][i].done
           /\ \E k \in Kids(Top(w).src) \ Top(w).done :
                /\ \A other \in Kids(Top(w).src) \ Top(w).done : Rank[k] <= Rank[other]
                /\ stack'[w][Len(stack[w])].done = Top(w).done \cup {k}
                /\ stack'[w][Len(stack[w]) + 1].src = k
                /\ stack'[w][Len(stack[w]) + 1].pc = "pred"
                /\ stack'[w][Len(stack[w]) + 1].done = {}
<1> DEFINE d == Depth(w)
<1>1. PICK k \in NextKids(w), schema \in Gettable :
         stack' = [stack EXCEPT ![w] =
              Append([stack[w] EXCEPT ![d] = Recursed(Top(w), k)],
                     NewFrame(k, schema, Top(w).nextAncestry))]
  BY DEF schemaHasRecurse
<1>2. /\ stack[w] # <<>> /\ Top(w).pc = "kids" /\ UNCHANGED <<seen, found>> /\ ~found[w] /\ TypeOK
  BY DEF schemaHasRecurse, IndInv
<1>3. /\ stack[w] \in Seq(Frame) /\ d \in Nat /\ d >= 1 /\ d \in 1..d /\ Top(w) \in Frame
      /\ Top(w) = stack[w][d] /\ Len(stack[w]) = d
  BY <1>2, TopFacts, SMT DEF Top, Depth
<1> DEFINE g == Recursed(Top(w), k)
           f == NewFrame(k, schema, Top(w).nextAncestry)
<1>4. /\ k \in Kids(Top(w).src) \ Top(w).done
      /\ \A other \in Kids(Top(w).src) \ Top(w).done : Rank[k] <= Rank[other]
  <2>1. Deref(Top(w).s) = Top(w).src
    BY <1>2, <1>3, AncestryRead
  <2>2. QED
    BY <2>1 DEF NextKids, ToDo
<1>5. k \in Node /\ schema \in Ptr /\ Top(w).nextAncestry \in Slice
  BY <1>3, <1>4, SMT DEF Kids, Gettable, Ptr, Frame
<1>6. f \in Frame /\ f.src = k /\ f.pc = "pred" /\ f.done = {}
  BY <1>5, NewFrameFields
<1>7. /\ g \in Frame /\ g.src = Top(w).src /\ g.pc = Top(w).pc /\ g.done = Top(w).done \cup {k}
  BY <1>3, <1>5, RecursedFrame
<1>8. /\ stack'[w] = Append([stack[w] EXCEPT ![d] = g], f) /\ OthersStay(w)
  BY <1>1, <1>2 DEF TypeOK, OthersStay
<1> HIDE DEF f, g
<1>9. /\ stack'[w] \in Seq(Frame) /\ Len(stack'[w]) = d + 1 /\ stack'[w][d + 1] = f
      /\ \A i \in 1..d : stack'[w][i] = IF i = d THEN g ELSE stack[w][i]
  BY <1>3, <1>6, <1>7, <1>8, SMT
<1>10. \A i \in 1..d : i < d => i # d
  BY <1>3, SMT
<1>11. \A i \in 1..d : /\ stack'[w][i].src = stack[w][i].src /\ stack'[w][i].pc = stack[w][i].pc
                       /\ i < d => stack'[w][i].done = stack[w][i].done
  BY <1>3, <1>7, <1>9, <1>10
<1>12. stack'[w][d].done = Top(w).done \cup {k}
  BY <1>3, <1>7, <1>9
<1>13. QED
  BY <1>2, <1>3, <1>4, <1>6, <1>8, <1>9, <1>11, <1>12

LEMMA ReturnShape ==
    ASSUME IndInv, NEW w \in Walker, Return(w)
    PROVE  /\ OthersStay(w) /\ seen' = seen /\ found' = found
           /\ stack[w] # <<>>
           /\ found[w] \/ (Top(w).pc = "kids" /\ Kids(Top(w).src) \subseteq Top(w).done)
           /\ stack'[w] \in Seq(Frame) /\ Len(stack'[w]) = Len(stack[w]) - 1
           /\ \A i \in 1..(Len(stack[w]) - 1) : stack'[w][i] = stack[w][i]
<1>1. /\ stack[w] # <<>>
      /\ found[w] \/ (Top(w).pc = "kids" /\ ToDo(w) = {})
      /\ stack' = [stack EXCEPT ![w] = Below(w)] /\ UNCHANGED <<seen, found>> /\ TypeOK
  BY DEF Return, IndInv
<1>2. /\ stack[w] \in Seq(Frame) /\ Depth(w) \in Nat /\ Depth(w) >= 1 /\ Depth(w) \in 1..Depth(w)
      /\ Top(w) = stack[w][Depth(w)] /\ Len(stack[w]) = Depth(w)
  BY <1>1, TopFacts, SMT DEF Top, Depth
<1>3. /\ Below(w) \in Seq(Frame) /\ Len(Below(w)) = Depth(w) - 1
      /\ \A i \in 1..(Depth(w) - 1) : Below(w)[i] = stack[w][i]
  BY <1>2, SMT DEF Below
<1>4. stack'[w] = Below(w) /\ OthersStay(w)
  BY <1>1 DEF TypeOK, OthersStay
<1>5. Deref(Top(w).s) = Top(w).src
  BY <1>1, <1>2, AncestryRead
<1>6. found[w] \/ (Top(w).pc = "kids" /\ Kids(Top(w).src) \subseteq Top(w).done)
  BY <1>1, <1>5 DEF ToDo
<1>7. QED
  BY <1>1, <1>2, <1>3, <1>4, <1>6

-----------------------------------------------------------------------------
\* Every step keeps the calls and what was seen in agreement.
LEMMA VisitNext == IndInv /\ VisitInv /\ [Next]_vars => VisitInv'
<1> SUFFICES ASSUME IndInv, VisitInv, [Next]_vars PROVE VisitInv'
  OBVIOUS
<1>1. ASSUME NEW w \in Walker, OthersStay(w), ~found'[w] => VisitOK(stack'[w], seen'[w])
      PROVE  VisitInv'
  <2>1. ASSUME NEW v \in Walker, ~found'[v] PROVE VisitOK(stack'[v], seen'[v])
    <3>1. CASE v = w
      BY <1>1, <2>1, <3>1
    <3>2. CASE v # w
      BY <1>1, <2>1, <3>2 DEF OthersStay, VisitInv
    <3>3. QED
      BY <3>1, <3>2
  <2>2. QED
    BY <2>1 DEF VisitInv
<1>2. ASSUME NEW w \in Walker, SchemaHas(w) PROVE VisitInv'
  BY <1>1, <1>2, BeginShape, VisitBegins
<1>3. ASSUME NEW w \in Walker, PredAppends(w) PROVE VisitInv'
  <2>1. stack[w] \in Seq(Frame)
    BY WalkOnPath
  <2>2. ~found[w] => VisitOK(stack'[w], seen[w])
    BY <1>3, <2>1, AppendShape, VisitKept DEF VisitInv
  <2>3. QED
    BY <1>1, <1>3, <2>2, AppendShape
<1>4. ASSUME NEW w \in Walker, PredTrue(w) PROVE VisitInv'
  BY <1>1, <1>4, TrueShape
<1>5. ASSUME NEW w \in Walker, PredFalseInPlace(w) \/ PredFalseGrow(w) PROVE VisitInv'
  <2>1. stack[w] \in Seq(Frame) /\ OnPath(stack[w])
    BY WalkOnPath
  <2>2. VisitOK(stack[w], seen[w])
    BY <1>5, FalseShape DEF VisitInv
  <2>3. Top(w) = stack[w][Len(stack[w])]
    BY DEF Top, Depth
  <2>4. /\ stack[w] # <<>> /\ Top(w).pc = "pred"
        /\ seen'[w] = seen[w] \cup {Top(w).src}
        /\ stack'[w] \in Seq(Frame) /\ Len(stack'[w]) = Len(stack[w])
        /\ \A i \in 1..Len(stack[w]) : /\ stack'[w][i].src = stack[w][i].src
                                       /\ stack'[w][i].done = stack[w][i].done
                                       /\ i < Len(stack[w]) => stack'[w][i].pc = stack[w][i].pc
        /\ stack'[w][Len(stack[w])].pc = "kids"
    BY <1>5, FalseShape
  <2>5. VisitOK(stack'[w], seen'[w])
    <3>1. MovedOn(stack[w], stack'[w], seen[w], seen'[w])
      BY <2>3, <2>4 DEF MovedOn
    <3>2. QED
      BY <2>1, <2>2, <2>4, <3>1, VisitSees
  <2>6. QED
    BY <1>1, <1>5, <2>5, FalseShape
<1>6. ASSUME NEW w \in Walker, schemaHasRecurse(w) PROVE VisitInv'
  <2>1. stack[w] \in Seq(Frame) /\ OnPath(stack[w])
    BY WalkOnPath
  <2>2. VisitOK(stack[w], seen[w])
    BY <1>6, RecurseShape DEF VisitInv
  <2>3. VisitOK(stack'[w], seen[w])
    <3>1. Top(w) = stack[w][Len(stack[w])]
      BY DEF Top, Depth
    <3>2. PICK k \in Kids(Top(w).src) \ Top(w).done :
                /\ stack'[w][Len(stack[w])].done = Top(w).done \cup {k}
                /\ stack'[w][Len(stack[w]) + 1].src = k
                /\ stack'[w][Len(stack[w]) + 1].pc = "pred"
                /\ stack'[w][Len(stack[w]) + 1].done = {}
      BY <1>6, RecurseShape
    <3>3. /\ stack[w] # <<>> /\ Top(w).pc = "kids"
          /\ stack'[w] \in Seq(Frame) /\ Len(stack'[w]) = Len(stack[w]) + 1
          /\ \A i \in 1..Len(stack[w]) :
               /\ stack'[w][i].src = stack[w][i].src /\ stack'[w][i].pc = stack[w][i].pc
               /\ i < Len(stack[w]) => stack'[w][i].done = stack[w][i].done
      BY <1>6, RecurseShape
    <3>4. QED
      BY <2>1, <2>2, <3>1, <3>2, <3>3, VisitDescends
  <2>4. QED
    BY <1>1, <1>6, <2>3, RecurseShape
<1>7. ASSUME NEW w \in Walker, Return(w) PROVE VisitInv'
  <2>1. stack[w] \in Seq(Frame)
    BY WalkOnPath
  <2>2. ~found[w] => VisitOK(stack'[w], seen[w])
    <3>1. Top(w) = stack[w][Len(stack[w])]
      BY DEF Top, Depth
    <3>2. SUFFICES ASSUME ~found[w] PROVE VisitOK(stack'[w], seen[w])
      OBVIOUS
    <3>3. VisitOK(stack[w], seen[w])
      BY <3>2 DEF VisitInv
    <3>4. /\ stack[w] # <<>> /\ Top(w).pc = "kids" /\ Kids(Top(w).src) \subseteq Top(w).done
          /\ stack'[w] \in Seq(Frame) /\ Len(stack'[w]) = Len(stack[w]) - 1
          /\ \A i \in 1..(Len(stack[w]) - 1) : stack'[w][i] = stack[w][i]
      BY <1>7, <3>2, ReturnShape
    <3>5. QED
      BY <2>1, <3>1, <3>3, <3>4, VisitLeaves
  <2>3. QED
    BY <1>1, <1>7, <2>2, ReturnShape
<1>8. CASE UNCHANGED <<stack, seen, found>>
  BY <1>8 DEF VisitInv
<1>9. QED
  BY <1>2, <1>3, <1>4, <1>5, <1>6, <1>7, <1>8 DEF Next, Step, PoolDrop, vars

LEMMA VisitInit == Init => VisitInv
<1> SUFFICES ASSUME Init, NEW w \in Walker PROVE VisitOK(stack[w], seen[w])
  BY DEF VisitInv
<1>1. stack[w] = <<>> /\ seen[w] = {} /\ 1..Len(<<>>) = {}
  BY SMT DEF Init
<1>2. QED
  BY <1>1 DEF VisitOK

\* In every reachable state a child of an active call has been seen, or is the next
\* call, exactly when the loops of SchemaHas have come to it (helpers.go:45-107).
THEOREM VisitInvariant == Spec => []VisitInv
  BY VisitInit, VisitNext, InductiveInvariant, PTL DEF Spec

\* No predicate is called twice with one schema in a walk (helpers.go:45-107): the
\* loops of SchemaHas reach every schema through its one parent, once.
THEOREM EachSchemaOnce == Spec => []PredOnce
<1>1. IndInv /\ VisitInv => PredOnce
  <2> SUFFICES ASSUME IndInv, VisitInv, NEW w \in Walker, AtPred(w), ~found[w]
               PROVE  Deref(Top(w).s) \notin seen[w]
    BY DEF PredOnce
  <2>1. stack[w] # <<>> /\ Top(w).pc = "pred"
    BY DEF AtPred
  <2>2. Depth(w) \in 1..Len(stack[w]) /\ Top(w) = stack[w][Depth(w)]
    BY <2>1, TopFacts, SMT DEF Top, Depth
  <2>3. Deref(Top(w).s) = Top(w).src
    BY <2>1, <2>2, AncestryRead DEF Depth
  <2>4. VisitOK(stack[w], seen[w])
    BY DEF VisitInv
  <2>5. Top(w).src \notin seen[w]
    BY <2>1, <2>2, <2>4 DEF VisitOK
  <2>6. QED
    BY <2>3, <2>5
<1>2. QED
  BY <1>1, InductiveInvariant, VisitInvariant, PTL

\* SchemaHas returns false only after the predicate has seen every schema below
\* what it has seen, so below the root: a comparator that found nothing looked
\* everywhere (helpers.go:109).
THEOREM FalseLookedEverywhere == Spec => []FalseMeansAll
<1>1. VisitInv => FalseMeansAll
  <2> SUFFICES ASSUME VisitInv, NEW w \in Walker, stack[w] = <<>>, ~found[w],
                      NEW n \in seen[w]
               PROVE  Kids(n) \subseteq seen[w]
    BY DEF FalseMeansAll
  <2>1. VisitOK(stack[w], seen[w]) /\ 1..Len(stack[w]) = {}
    BY SMT DEF VisitInv
  <2>2. QED
    BY <2>1 DEF VisitOK
<1>2. QED
  BY <1>1, VisitInvariant, PTL

-----------------------------------------------------------------------------
(***************************************************************************)
(* The refinement.  What callers read through slices and cells, OpenChain, *)
(* is the chain of the schemas of the active calls, Open; each action of   *)
(* the walk does to Open what an action of SchemaVisit does, or nothing.   *)
(***************************************************************************)
Chain(calls) == [i \in 1..Len(calls) |-> calls[i].src]
Open == [w \in Walker |-> Chain(stack[w])]

LEMMA ChainSeq ==
    ASSUME NEW calls \in Seq(Frame)
    PROVE  /\ Chain(calls) \in Seq(Node) /\ Len(Chain(calls)) = Len(calls)
           /\ \A i \in 1..Len(calls) : Chain(calls)[i] = calls[i].src
<1>1. \A i \in 1..Len(calls) : calls[i].src \in Node
  <2>1. \A i \in 1..Len(calls) : calls[i] \in Frame
    BY SMT
  <2>2. \A f \in Frame : f.src \in Node
    BY SMT DEF Frame
  <2>3. QED
    BY <2>1, <2>2
<1>2. Len(calls) \in Nat
  BY SMT
<1>3. QED
  BY <1>1, <1>2, SMT DEF Chain

\* A call at its children reads itself and its ancestors through nextAncestry.
LEMMA NextAncestryRead ==
    ASSUME IndInv, NEW w \in Walker, stack[w] # <<>>, Top(w).pc = "kids",
           NEW i \in 1..Depth(w)
    PROVE  At(w, Top(w).nextAncestry, i) = stack[w][i].src
<1> DEFINE d == Depth(w)
           next == Top(w).nextAncestry
<1>1. /\ stack[w] \in Seq(Frame) /\ d \in Nat /\ d >= 1 /\ Top(w) = stack[w][d]
      /\ SliceHolds(stack[w], next, d)
  BY TopFacts DEF Top, FrameOK
<1>2. next.own \in 1..d /\ stack[w][next.own].buf[i] = stack[w][i].s
  <2>1. d > 0
    BY <1>1, SMT
  <2>2. QED
    BY <1>1, <2>1 DEF SliceHolds
<1>3. next.own # 0
  BY <1>1, <1>2, SMT
<1>4. Array(w, next)[i] = stack[w][i].s
  BY <1>2, <1>3 DEF Array
<1>5. Deref(stack[w][i].s) = stack[w][i].src
  BY AncestryRead
<1>6. QED
  BY <1>4, <1>5 DEF At

\* What is read through the slices and the cells is the chain of the active calls.
LEMMA OpenIsChain == IndInv => [w \in Walker |-> OpenChain(w)] = Open
<1> SUFFICES ASSUME IndInv, NEW w \in Walker PROVE OpenChain(w) = Chain(stack[w])
  BY DEF Open
<1>1. ASSUME NEW i \in 1..Depth(w)
      PROVE  (IF Top(w).pc = "kids" THEN At(w, Top(w).nextAncestry, i)
              ELSE IF i < Depth(w) THEN At(w, Top(w).ancestry, i) ELSE Deref(Top(w).s))
             = stack[w][i].src
  <2>1. stack[w] # <<>>
    <3>1. SUFFICES ASSUME stack[w] = <<>> PROVE FALSE
      OBVIOUS
    <3>2. QED
      BY <3>1, SMT DEF Depth
  <2>2. CASE Top(w).pc = "kids"
    BY <2>1, <2>2, NextAncestryRead
  <2>3. CASE Top(w).pc # "kids" /\ i < Depth(w)
    BY <2>1, <2>3, AncestryRead DEF At
  <2>4. CASE Top(w).pc # "kids" /\ ~(i < Depth(w))
    <3>1. i = Depth(w)
      BY <2>1, <2>4, TopFacts, SMT
    <3>2. QED
      BY <2>1, <2>4, <3>1, AncestryRead DEF Top
  <2>5. QED
    BY <2>2, <2>3, <2>4
<1>2. QED
  BY <1>1, Zenon DEF OpenChain, Chain, Depth

\* The visit as seen through the chains of the calls.
Seen == INSTANCE SchemaVisit WITH open <- Open

\* A step of one walk changes its own chain, visit and answer only.
LEMMA OneWalkSteps ==
    ASSUME IndInv, IndInv', NEW w \in Walker, OthersStay(w)
    PROVE  /\ Open' = [Open EXCEPT ![w] = Chain(stack'[w])]
           /\ seen' = [seen EXCEPT ![w] = seen'[w]]
           /\ found' = [found EXCEPT ![w] = found'[w]]
<1>1. Open' = [Open EXCEPT ![w] = Chain(stack'[w])]
  <2>1. \A v \in Walker : v # w => Chain(stack'[v]) = Chain(stack[v])
    BY DEF OthersStay
  <2>2. Open' = [v \in Walker |-> Chain(stack'[v])]
    BY DEF Open
  <2>3. QED
    BY <2>1, <2>2 DEF Open
<1>2. /\ seen \in [Walker -> SUBSET (Node \cup {Nil})] /\ found \in [Walker -> BOOLEAN]
      /\ seen' \in [Walker -> SUBSET (Node \cup {Nil})] /\ found' \in [Walker -> BOOLEAN]
  BY DEF IndInv, TypeOK
<1>3. QED
  BY <1>1, <1>2 DEF OthersStay

\* The schema at hand, in the walk and in the visit.
LEMMA CurrentIsTop ==
    ASSUME IndInv, NEW w \in Walker
    PROVE  /\ Open[w] = Chain(stack[w]) /\ Open[w] \in Seq(Node)
           /\ Len(Open[w]) = Len(stack[w])
           /\ (Open[w] = <<>>) <=> (stack[w] = <<>>)
           /\ stack[w] # <<>> => Seen!Current(w) = Top(w).src
<1>1. stack[w] \in Seq(Frame)
  BY DEF IndInv, TypeOK
<1>2. Open[w] = Chain(stack[w])
  BY DEF Open
<1>3. /\ Chain(stack[w]) \in Seq(Node) /\ Len(Chain(stack[w])) = Len(stack[w])
      /\ \A i \in 1..Len(stack[w]) : Chain(stack[w])[i] = stack[w][i].src
  BY <1>1, ChainSeq
<1>4. (Chain(stack[w]) = <<>>) <=> (stack[w] = <<>>)
  <2>1. Chain(stack[w]) = <<>> <=> Len(Chain(stack[w])) = 0
    BY <1>3, SMT
  <2>2. stack[w] = <<>> <=> Len(stack[w]) = 0
    BY <1>1, SMT
  <2>3. QED
    BY <1>3, <2>1, <2>2
<1>5. ASSUME stack[w] # <<>> PROVE Seen!Current(w) = Top(w).src
  <2>1. Len(stack[w]) \in 1..Len(stack[w])
    BY <1>1, <1>5, SMT
  <2>2. QED
    BY <1>2, <1>3, <2>1 DEF Seen!Current, Top, Depth
<1>6. QED
  BY <1>2, <1>3, <1>4, <1>5

LEMMA BeginMaps ==
    ASSUME IndInv, IndInv', NEW w \in Walker, SchemaHas(w)
    PROVE  Seen!Begin(w)
<1>1. PICK f \in Frame : stack'[w] = <<f>> /\ f.src \in Root
  BY BeginShape
<1>2. OthersStay(w) /\ stack[w] = <<>> /\ seen'[w] = {} /\ found'[w] = FALSE
  BY BeginShape
<1>3. Chain(stack'[w]) = <<f.src>>
  <2>1. Len(<<f>>) = 1 /\ <<f>>[1] = f /\ 1..1 = {1}
    BY SMT
  <2>2. Chain(<<f>>) = [i \in 1..1 |-> f.src]
    BY <2>1 DEF Chain
  <2>3. [i \in 1..1 |-> f.src] = <<f.src>>
    BY SMT
  <2>4. QED
    BY <1>1, <2>2, <2>3
<1>4. Seen!Root = Root
  BY DEF Seen!Root, Root
<1>5. QED
  BY <1>1, <1>2, <1>3, <1>4, OneWalkSteps, CurrentIsTop DEF Seen!Begin

\* An append to the ancestry that is dropped is not visible.
LEMMA AppendMaps ==
    ASSUME IndInv, IndInv', NEW w \in Walker, PredAppends(w)
    PROVE  UNCHANGED <<Open, seen, found>>
<1>1. /\ OthersStay(w) /\ seen' = seen /\ found' = found
      /\ Len(stack'[w]) = Len(stack[w])
      /\ \A i \in 1..Len(stack[w]) : stack'[w][i].src = stack[w][i].src
  BY AppendShape
<1>2. Chain(stack'[w]) = Chain(stack[w])
  BY <1>1 DEF Chain
<1>3. QED
  BY <1>1, <1>2, OneWalkSteps DEF Open

\* The predicate is called: the visit sees the schema and takes the answer.
LEMMA PredMaps ==
    ASSUME IndInv, IndInv', VisitInv, NEW w \in Walker,
           PredTrue(w) \/ PredFalseInPlace(w) \/ PredFalseGrow(w)
    PROVE  Seen!Visit(w)
<1>1. /\ OthersStay(w)
      /\ stack[w] # <<>> /\ Top(w).pc = "pred" /\ ~found[w]
      /\ seen'[w] = seen[w] \cup {Top(w).src}
      /\ Len(stack'[w]) = Len(stack[w])
      /\ \A i \in 1..Len(stack[w]) : stack'[w][i].src = stack[w][i].src
  BY TrueShape, FalseShape
<1>2. Open' = Open
  <2>1. Chain(stack'[w]) = Chain(stack[w])
    BY <1>1 DEF Chain
  <2>2. QED
    BY <1>1, <2>1, OneWalkSteps DEF Open
<1>3. Top(w).src \notin seen[w]
  <2>1. Depth(w) \in 1..Len(stack[w]) /\ Top(w) = stack[w][Depth(w)]
    BY <1>1, TopFacts, SMT DEF Top, Depth
  <2>2. VisitOK(stack[w], seen[w])
    BY <1>1 DEF VisitInv
  <2>3. QED
    BY <1>1, <2>1, <2>2 DEF VisitOK
<1>4. Seen!Current(w) = Top(w).src /\ Open[w] # <<>>
  BY <1>1, CurrentIsTop
<1>5. seen' = [seen EXCEPT ![w] = @ \cup {Seen!Current(w)}]
  BY <1>1, <1>4, OneWalkSteps DEF IndInv, TypeOK
<1>6. \E answer \in BOOLEAN : found' = [found EXCEPT ![w] = answer]
  BY <1>1, OneWalkSteps DEF IndInv, TypeOK
<1>7. QED
  BY <1>1, <1>2, <1>3, <1>4, <1>5, <1>6 DEF Seen!Visit

\* Below a schema that was seen, what the loops have still to do is what is unseen.
LEMMA ToDoIsUnseen ==
    ASSUME IndInv, VisitInv, NEW w \in Walker, stack[w] # <<>>, Top(w).pc = "kids", ~found[w]
    PROVE  /\ Top(w).src \in seen[w]
           /\ Seen!Unseen(w, Top(w).src) = Kids(Top(w).src) \ Top(w).done
<1>1. Depth(w) \in 1..Len(stack[w]) /\ Top(w) = stack[w][Depth(w)] /\ Depth(w) = Len(stack[w])
  BY TopFacts, SMT DEF Top, Depth
<1>2. VisitOK(stack[w], seen[w]) /\ ~(Depth(w) < Len(stack[w]))
  BY <1>1, TopFacts, SMT DEF VisitInv
<1>3. /\ Top(w).src \in seen[w] /\ Kids(Top(w).src) \cap seen[w] \subseteq Top(w).done
      /\ Top(w).done \subseteq seen[w]
  BY <1>1, <1>2 DEF VisitOK
<1>4. Seen!Unseen(w, Top(w).src) = Kids(Top(w).src) \ seen[w]
  BY DEF Seen!Unseen, Kids
<1>5. QED
  BY <1>3, <1>4

LEMMA RecurseMaps ==
    ASSUME IndInv, IndInv', VisitInv, NEW w \in Walker, schemaHasRecurse(w)
    PROVE  Seen!Descend(w)
<1>1. /\ OthersStay(w) /\ seen' = seen /\ found' = found
      /\ stack[w] # <<>> /\ Top(w).pc = "kids" /\ ~found[w]
      /\ stack'[w] \in Seq(Frame) /\ Len(stack'[w]) = Len(stack[w]) + 1
      /\ \A i \in 1..Len(stack[w]) : stack'[w][i].src = stack[w][i].src
  BY RecurseShape
<1>2. PICK k \in Kids(Top(w).src) \ Top(w).done :
        /\ \A other \in Kids(Top(w).src) \ Top(w).done : Rank[k] <= Rank[other]
        /\ stack'[w][Len(stack[w]) + 1].src = k
  BY RecurseShape
<1>3. Chain(stack'[w]) = Append(Open[w], k)
  <2> DEFINE d == Len(stack[w])
  <2>1. /\ Open[w] \in Seq(Node) /\ Len(Open[w]) = d /\ Open[w] = Chain(stack[w])
        /\ stack[w] \in Seq(Frame) /\ d \in Nat /\ k \in Node
    BY <1>2, CurrentIsTop, SMT DEF IndInv, TypeOK, Kids
  <2>2. /\ Append(Open[w], k) \in Seq(Node) /\ Len(Append(Open[w], k)) = d + 1
        /\ Append(Open[w], k)[d + 1] = k
        /\ \A i \in 1..d : Append(Open[w], k)[i] = Open[w][i]
    BY <2>1, SMT
  <2>3. \A i \in 1..d : Open[w][i] = stack[w][i].src
    BY <2>1, ChainSeq
  <2>4. /\ Chain(stack'[w]) \in Seq(Node) /\ Len(Chain(stack'[w])) = d + 1
        /\ \A i \in 1..(d + 1) : Chain(stack'[w])[i] = stack'[w][i].src
    BY <1>1, ChainSeq
  <2>5. \A i \in 1..(d + 1) : i \in 1..d \/ i = d + 1
    BY <2>1, SMT
  <2>6. \A i \in 1..Len(Chain(stack'[w])) : Chain(stack'[w])[i] = Append(Open[w], k)[i]
    BY <1>1, <1>2, <2>2, <2>3, <2>4, <2>5
  <2>7. QED
    BY <2>2, <2>4, <2>6, SeqEqual
<1>4. /\ Open[w] # <<>> /\ Seen!Current(w) = Top(w).src
  BY <1>1, CurrentIsTop
<1>5. /\ Top(w).src \in seen[w]
      /\ Seen!Unseen(w, Top(w).src) = Kids(Top(w).src) \ Top(w).done
  BY <1>1, ToDoIsUnseen
<1>6. Open' = [Open EXCEPT ![w] = Append(@, k)]
  BY <1>1, <1>3, OneWalkSteps DEF Open
<1>7. QED
  BY <1>1, <1>2, <1>4, <1>5, <1>6 DEF Seen!Descend

LEMMA ReturnMaps ==
    ASSUME IndInv, IndInv', VisitInv, NEW w \in Walker, Return(w)
    PROVE  Seen!Leave(w)
<1>1. /\ OthersStay(w) /\ seen' = seen /\ found' = found /\ stack[w] # <<>>
      /\ found[w] \/ (Top(w).pc = "kids" /\ Kids(Top(w).src) \subseteq Top(w).done)
      /\ stack'[w] \in Seq(Frame) /\ Len(stack'[w]) = Len(stack[w]) - 1
      /\ \A i \in 1..(Len(stack[w]) - 1) : stack'[w][i] = stack[w][i]
  BY ReturnShape
<1>2. Open[w] # <<>> /\ Seen!Current(w) = Top(w).src
  BY <1>1, CurrentIsTop
<1>3. found[w] \/ (Seen!Current(w) \in seen[w] /\ Seen!Unseen(w, Seen!Current(w)) = {})
  BY <1>1, <1>2, ToDoIsUnseen
<1>4. Chain(stack'[w]) = SubSeq(Open[w], 1, Len(Open[w]) - 1)
  <2> DEFINE d == Len(stack[w])
             sub == SubSeq(Open[w], 1, d - 1)
  <2>1. /\ Open[w] \in Seq(Node) /\ Len(Open[w]) = d /\ Open[w] = Chain(stack[w])
        /\ stack[w] \in Seq(Frame) /\ d \in Nat /\ d >= 1
    BY <1>1, CurrentIsTop, SMT DEF IndInv, TypeOK
  <2>2. /\ sub \in Seq(Node) /\ Len(sub) = d - 1
        /\ \A i \in 1..(d - 1) : sub[i] = Open[w][i]
    BY <2>1, SMT
  <2>3. \A i \in 1..(d - 1) : Open[w][i] = stack[w][i].src
    <3>1. \A i \in 1..(d - 1) : i \in 1..d
      BY <2>1, SMT
    <3>2. QED
      BY <2>1, <3>1, ChainSeq
  <2>4. /\ Chain(stack'[w]) \in Seq(Node) /\ Len(Chain(stack'[w])) = d - 1
        /\ \A i \in 1..(d - 1) : Chain(stack'[w])[i] = stack'[w][i].src
    BY <1>1, ChainSeq
  <2>5. \A i \in 1..Len(Chain(stack'[w])) : Chain(stack'[w])[i] = sub[i]
    BY <1>1, <2>2, <2>3, <2>4
  <2>6. Chain(stack'[w]) = sub
    BY <2>2, <2>4, <2>5, SeqEqual
  <2>7. QED
    BY <2>1, <2>6
<1>5. Open' = [Open EXCEPT ![w] = SubSeq(@, 1, Len(@) - 1)]
  BY <1>1, <1>4, OneWalkSteps DEF Open
<1>6. QED
  BY <1>1, <1>2, <1>3, <1>5 DEF Seen!Leave

LEMMA StepMaps ==
    IndInv /\ IndInv' /\ VisitInv /\ [Next]_vars => [Seen!Next]_(Seen!vars)
<1> SUFFICES ASSUME IndInv, IndInv', VisitInv, [Next]_vars
             PROVE  Seen!Next \/ UNCHANGED <<Open, seen, found>>
  BY DEF Seen!vars
<1>1. ASSUME NEW w \in Walker, SchemaHas(w) \/ PredAppends(w) \/ Step(w)
      PROVE  Seen!Next \/ UNCHANGED <<Open, seen, found>>
  BY <1>1, BeginMaps, AppendMaps, PredMaps, RecurseMaps, ReturnMaps DEF Step, Seen!Next
<1>2. CASE UNCHANGED <<stack, seen, found>>
  BY <1>2 DEF Open
<1>3. QED
  BY <1>1, <1>2 DEF Next, PoolDrop, vars

LEMMA InitMaps == Init => Seen!Init
<1> SUFFICES ASSUME Init PROVE Seen!Init
  OBVIOUS
<1>1. ASSUME NEW w \in Walker PROVE Chain(stack[w]) = <<>>
  <2>1. stack[w] = <<>> /\ <<>> \in Seq(Frame) /\ Len(<<>>) = 0
    BY SMT DEF Init
  <2>2. Chain(<<>>) \in Seq(Node) /\ Len(Chain(<<>>)) = 0
    BY <2>1, ChainSeq
  <2>3. Chain(<<>>) = <<>>
    BY <2>2, SMT
  <2>4. QED
    BY <2>1, <2>3
<1>2. QED
  BY <1>1 DEF Seen!Init, Open, Init

\* Pooled cells, shared backing arrays and the other goroutines are invisible to a
\* predicate: what it is shown, through the pointers and slices it is given, is a
\* depth-first visit of the tree that shows it every schema once, parents first, in
\* the order of the loops of SchemaHas (helpers.go:26-121).
THEOREM WalkImplementsVisit == Spec => ImplementsVisit
<1>1. Init /\ IndInv => Visit!Init
  BY InitMaps, OpenIsChain DEF Visit!Init, Seen!Init
<1>2. (IndInv => [w \in Walker |-> OpenChain(w)] = Open)'
  BY OpenIsChain, PTL
<1>3. IndInv /\ IndInv' /\ VisitInv /\ [Next]_vars => [Visit!Next]_(Visit!vars)
  <2> SUFFICES ASSUME IndInv, IndInv', VisitInv, [Next]_vars
               PROVE  [Visit!Next]_(Visit!vars)
    OBVIOUS
  <2>1. [w \in Walker |-> OpenChain(w)] = Open /\ [w \in Walker |-> OpenChain(w)]' = Open'
    BY <1>2, OpenIsChain
  <2>2. [Seen!Next]_(Seen!vars)
    BY StepMaps
  <2>3. ASSUME NEW w \in Walker
        PROVE  /\ Seen!Begin(w) => Visit!Begin(w)
               /\ Seen!Visit(w) => Visit!Visit(w)
               /\ Seen!Descend(w) => Visit!Descend(w)
               /\ Seen!Leave(w) => Visit!Leave(w)
    BY <2>1 DEF Seen!Begin, Visit!Begin, Seen!Visit, Visit!Visit, Seen!Descend, Visit!Descend,
                Seen!Leave, Visit!Leave, Seen!Current, Visit!Current, Seen!Unseen, Visit!Unseen,
                Seen!Root, Visit!Root
  <2>4. UNCHANGED Seen!vars => UNCHANGED Visit!vars
    BY <2>1 DEF Seen!vars, Visit!vars
  <2>5. QED
    BY <2>2, <2>3, <2>4 DEF Seen!Next, Visit!Next
<1>4. QED
  BY <1>1, <1>3, InductiveInvariant, VisitInvariant, PTL DEF Spec, ImplementsVisit, Visit!Spec
-----------------------------------------------------------------------------
(***************************************************************************)
(* The bound on a walk.  A predicate is called with a schema that was not  *)
(* seen before, so the schemas left to see become fewer; every other step  *)
(* enters a call that a predicate is waiting in, or leaves one.            *)
(***************************************************************************)

\* Seeing a schema for the first time leaves one schema less to see.
LEMMA OneLessUnseen ==
    ASSUME NEW vis \in SUBSET (Node \cup {Nil}), NEW n \in Node \ vis
    PROVE  /\ Cardinality(Node \ vis) \in Nat
           /\ Cardinality(Node \ (vis \cup {n})) = Cardinality(Node \ vis) - 1
           /\ Cardinality(Node \ vis) >= 1
<1> DEFINE left == Node \ vis
<1>1. IsFiniteSet(left) /\ n \in left
  BY TreeAssumption, FS_Subset, Zenon
<1>2. left \ {n} = Node \ (vis \cup {n})
  OBVIOUS
<1>3. IsFiniteSet(left \ {n}) /\ Cardinality(left \ {n}) = Cardinality(left) - 1
  BY <1>1, FS_RemoveElement
<1>4. Cardinality(left) \in Nat /\ Cardinality(left \ {n}) \in Nat
  BY <1>1, <1>3, FS_CardinalityType
<1> HIDE DEF left
<1>5. Cardinality(left) >= 1
  BY <1>3, <1>4, SMT
<1>6. QED
  BY <1>2, <1>3, <1>4, <1>5 DEF left

\* The predicate of a call is shown a schema that the walk has not seen.
LEMMA TopUnseen ==
    ASSUME IndInv, VisitInv, NEW w \in Walker, AtPred(w), ~found[w]
    PROVE  Top(w).src \in Node \ seen[w] /\ seen[w] \in SUBSET (Node \cup {Nil})
<1>1. stack[w] # <<>> /\ Top(w).pc = "pred" /\ seen[w] \in SUBSET (Node \cup {Nil})
  BY DEF AtPred, IndInv, TypeOK
<1>2. Depth(w) \in 1..Len(stack[w]) /\ Top(w) = stack[w][Depth(w)]
  BY <1>1, TopFacts, SMT DEF Top, Depth
<1>3. VisitOK(stack[w], seen[w]) /\ OnPath(stack[w])
  BY WalkOnPath DEF VisitInv
<1>4. QED
  BY <1>1, <1>2, <1>3 DEF VisitOK, OnPath

\* A step of a walk brings it closer to its end.
LEMMA OwnStepAdvances ==
    ASSUME IndInv, VisitInv, NEW w \in Walker, Step(w)
    PROVE  StepsLeft(w)' < StepsLeft(w)
<1> DEFINE d == Depth(w)
           unseen == Cardinality(Node \ seen[w])
           unseen2 == Cardinality(Node \ seen'[w])
           before == StepsLeft(w)
           after == StepsLeft(w)'
<1>1. stack[w] # <<>>
  BY DEF Step, PredTrue, PredFalseInPlace, PredFalseGrow, schemaHasRecurse, Return
<1>2. /\ d \in Nat /\ d >= 1 /\ d = Len(stack[w]) /\ Top(w) = stack[w][d] /\ d \in 1..d
      /\ Depth(w)' = Len(stack'[w])
      /\ AtPred(w)' = (stack'[w] # <<>> /\ stack'[w][Len(stack'[w])].pc = "pred")
      /\ stack[w] \in Seq(Frame)
  BY <1>1, TopFacts, SMT DEF Top, Depth, AtPred
<1>3. unseen \in Nat
  BY TreeAssumption, FS_Subset, FS_CardinalityType, Zenon
<1>4. /\ after = IF found'[w] THEN Depth(w)'
                 ELSE 3 * unseen2 + Depth(w)' + (IF AtPred(w)' THEN 0 ELSE 2)
      /\ before = IF found[w] THEN d
                  ELSE 3 * unseen + d + (IF AtPred(w) THEN 0 ELSE 2)
  BY DEF StepsLeft
<1> HIDE DEF d, unseen, unseen2, before, after
<1>5. d \in Nat /\ d >= 1 /\ unseen \in Nat
  BY <1>2, <1>3
<1>6. CASE PredTrue(w)
  <2>1. stack' = stack /\ Top(w).pc = "pred" /\ ~found[w] /\ found'[w] = TRUE
    BY <1>6, TrueShape
  <2>2. AtPred(w) /\ Depth(w)' = d
    BY <1>1, <1>2, <2>1 DEF AtPred, d
  <2>3. unseen >= 1
    BY <2>1, <2>2, TopUnseen, OneLessUnseen DEF unseen
  <2>4. after = d /\ before = 3 * unseen + d + 0
    BY <1>4, <2>1, <2>2, Zenon
  <2>5. after < before
    BY <1>5, <2>3, <2>4, SMT
  <2>6. QED
    BY <2>5 DEF before, after
<1>7. CASE PredFalseInPlace(w) \/ PredFalseGrow(w)
  <2>1. /\ Top(w).pc = "pred" /\ ~found[w] /\ found' = found
        /\ seen'[w] = seen[w] \cup {Top(w).src}
        /\ Len(stack'[w]) = Len(stack[w]) /\ stack'[w][Len(stack[w])].pc = "kids"
    BY <1>7, FalseShape
  <2>2. AtPred(w) /\ Depth(w)' = d /\ ~AtPred(w)'
    BY <1>1, <1>2, <2>1 DEF AtPred
  <2>3. unseen >= 1 /\ unseen2 = unseen - 1
    BY <2>1, <2>2, TopUnseen, OneLessUnseen DEF unseen, unseen2
  <2>4. after = 3 * unseen2 + d + 2 /\ before = 3 * unseen + d + 0
    BY <1>4, <2>1, <2>2, Zenon
  <2>5. after < before
    BY <1>5, <2>3, <2>4, SMT
  <2>6. QED
    BY <2>5 DEF before, after
<1>8. CASE schemaHasRecurse(w)
  <2>1. /\ Top(w).pc = "kids" /\ ~found[w] /\ found' = found /\ seen' = seen
        /\ stack'[w] \in Seq(Frame) /\ Len(stack'[w]) = Len(stack[w]) + 1
        /\ stack'[w][Len(stack[w]) + 1].pc = "pred"
    BY <1>8, RecurseShape
  <2>2. stack'[w] # <<>>
    BY <1>2, <2>1, SMT
  <2>3. ~AtPred(w) /\ Depth(w)' = d + 1 /\ AtPred(w)' /\ unseen2 = unseen
    BY <1>1, <1>2, <2>1, <2>2 DEF AtPred, unseen, unseen2
  <2>4. after = 3 * unseen2 + (d + 1) + 0 /\ before = 3 * unseen + d + 2
    BY <1>4, <2>1, <2>3, Zenon
  <2>5. after < before
    BY <1>5, <2>3, <2>4, SMT
  <2>6. QED
    BY <2>5 DEF before, after
<1>9. CASE Return(w)
  <2>1. /\ found[w] \/ Top(w).pc = "kids"
        /\ found' = found /\ seen' = seen
        /\ stack'[w] \in Seq(Frame) /\ Len(stack'[w]) = Len(stack[w]) - 1
        /\ \A i \in 1..(Len(stack[w]) - 1) : stack'[w][i] = stack[w][i]
    BY <1>9, ReturnShape
  <2>2. Depth(w)' = d - 1 /\ unseen2 = unseen
    BY <1>2, <2>1 DEF unseen, unseen2
  \* The call that is returned to is at its children.
  <2>3. ~AtPred(w)'
    <3>1. SUFFICES ASSUME stack'[w] # <<>> PROVE stack'[w][Len(stack'[w])].pc = "kids"
      BY <1>2
    <3>2. d - 1 \in 1..(d - 1) /\ d - 1 \in 1..d /\ d - 1 < d
      BY <1>2, <2>1, <3>1, SMT
    <3>3. stack[w][d - 1].pc = "kids"
      BY <1>2, <3>2, WalkOnPath DEF OnPath
    <3>4. QED
      BY <1>2, <2>1, <3>2, <3>3
  <2>4. found[w] \/ ~AtPred(w)
    BY <2>1 DEF AtPred
  <2>5. \/ (after = d - 1 /\ before = d)
        \/ (after = 3 * unseen2 + (d - 1) + 2 /\ before = 3 * unseen + d + 2)
    BY <1>4, <2>1, <2>2, <2>3, <2>4, Zenon
  <2>6. after < before
    BY <1>5, <2>2, <2>5, SMT
  <2>7. QED
    BY <2>6 DEF before, after
<1>10. QED
  BY <1>6, <1>7, <1>8, <1>9 DEF Step

\* What another goroutine, the collector and an append whose result is dropped do
\* leaves a walk where it is.
LEMMA ElseStays ==
    ASSUME IndInv, [Next]_vars, NEW w \in Walker, stack[w] # <<>>, ~Step(w)
    PROVE  Progress(w)' = Progress(w)
<1>1. ASSUME NEW v \in Walker, v # w, SchemaHas(v) \/ PredAppends(v) \/ Step(v)
      PROVE  Progress(w)' = Progress(w)
  <2>1. OthersStay(v)
    BY <1>1, BeginShape, AppendShape, TrueShape, FalseShape, RecurseShape, ReturnShape DEF Step
  <2>2. stack'[w] = stack[w] /\ seen'[w] = seen[w] /\ found'[w] = found[w]
    BY <1>1, <2>1 DEF OthersStay
  <2>3. QED
    BY <2>2 DEF Progress, Depth, AtPred, Top
<1>2. ~SchemaHas(w)
  BY DEF SchemaHas
<1>3. CASE PredAppends(w)
  <2>1. /\ seen' = seen /\ found' = found /\ Len(stack'[w]) = Len(stack[w])
        /\ stack'[w] \in Seq(Frame)
        /\ \A i \in 1..Len(stack[w]) : stack'[w][i].pc = stack[w][i].pc
    BY <1>3, AppendShape
  <2>2. Len(stack[w]) \in 1..Len(stack[w]) /\ stack'[w] # <<>>
    BY <2>1, TopFacts, SMT DEF Depth
  <2>3. Depth(w)' = Depth(w) /\ AtPred(w)' = AtPred(w)
    BY <2>1, <2>2 DEF Depth, AtPred, Top
  <2>4. QED
    BY <2>1, <2>3 DEF Progress
<1>4. CASE UNCHANGED <<stack, seen, found>>
  BY <1>4 DEF Progress, Depth, AtPred, Top
<1>5. QED
  BY <1>1, <1>2, <1>3, <1>4 DEF Next, PoolDrop, vars

\* A walk is over after at most three steps of its own for every schema, whatever
\* cells the pool hands it and whatever the other goroutines do: no step of the loops
\* of SchemaHas leaves as much to do as there was (helpers.go:34-111).
THEOREM WalksAdvance == Spec => WalkAdvances
<1>1. IndInv /\ VisitInv /\ [Next]_vars =>
        [\A w \in Walker :
           (stack[w] # <<>> /\ Progress(w)' # Progress(w)) => StepsLeft(w)' < StepsLeft(w)]_vars
  BY OwnStepAdvances, ElseStays
<1>2. QED
  BY <1>1, InductiveInvariant, VisitInvariant, PTL DEF Spec, WalkAdvances
=============================================================================
