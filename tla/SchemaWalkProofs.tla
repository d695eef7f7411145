-------------------------- MODULE SchemaWalkProofs --------------------------
(***************************************************************************)
(* Proofs about SchemaWalk, for every number of goroutines, every schema   *)
(* tree, every set of pool cells and every growth policy of append.        *)
(*                                                                         *)
(* AncestryExact speaks of the call at hand only and is not inductive: the *)
(* next call is handed a slice of an array that any earlier call may have  *)
(* allocated.  IndInv says, of every active call, that the arrays its      *)
(* slices lie in hold the pointers of the calls around it, and that every  *)
(* cell in use still holds the schema it was filled with.                  *)
(***************************************************************************)
EXTENDS SchemaWalk, TLAPS

\* The slice holds the pointers of the n outermost calls.
SliceHolds(calls, slice, n) ==
    /\ slice.len = n
    /\ n = 0 => slice.own = 0
    /\ n > 0 => /\ slice.own \in 1..n
                /\ n <= Len(calls[slice.own].buf)
                /\ \A j \in 1..n : calls[slice.own].buf[j] = calls[j].s

\* The calls of one walk, the memory mem they copy into and the paths they noted.
FrameOK(calls, i, mem, paths) ==
    /\ i = 1 => calls[i].s = calls[i].src /\ calls[i].src \in Root
    /\ i > 1 => calls[i].s \in Cell /\ Parent[calls[i].src] = calls[i - 1].src
    /\ calls[i].s \in Cell => mem[calls[i].s] = calls[i].src
    /\ SliceHolds(calls, calls[i].ancestry, i - 1)
    /\ i < Len(calls) => calls[i].pc = "kids"
    /\ calls[i].pc = "kids" => /\ SliceHolds(calls, calls[i].nextAncestry, i)
                               /\ paths[calls[i].s] = calls[i].src

CallsOK(calls, mem, paths) == \A i \in 1..Len(calls) : FrameOK(calls, i, mem, paths)

FramesOK == \A w \in Walker : CallsOK(stack[w], heap, newToFldPath[w])

IndInv == TypeOK /\ CellsExclusive /\ FramesOK

-----------------------------------------------------------------------------
\* The innermost call of a walk under way is a frame that IndInv describes.
LEMMA TopFacts ==
    ASSUME IndInv, NEW w \in Walker, stack[w] # <<>>
    PROVE  /\ stack[w] \in Seq(Frame)
           /\ Depth(w) \in Nat /\ Depth(w) >= 1
           /\ Top(w) \in Frame
           /\ FrameOK(stack[w], Depth(w), heap, newToFldPath[w])
<1>1. stack[w] \in Seq(Frame) /\ Len(stack[w]) \in Nat /\ Len(stack[w]) >= 1
  BY SMT DEF IndInv, TypeOK
<1>2. QED
  BY <1>1, SMT DEF IndInv, FramesOK, CallsOK, Depth, Top

\* Replacing the array of a frame leaves the rest of the frame alone.
LEMMA WithBuf ==
    ASSUME NEW f \in Frame, NEW b \in Seq(Ptr \cup {Nil})
    PROVE  LET g == [f EXCEPT !.buf = b] IN
           /\ g \in Frame
           /\ g.src = f.src /\ g.s = f.s /\ g.ancestry = f.ancestry
           /\ g.nextAncestry = f.nextAncestry /\ g.done = f.done /\ g.pc = f.pc
           /\ g.buf = b
  BY SMT DEF Frame

\* append within capacity changes one slot of one array: the slot after the
\* ancestry, in the array of an enclosing call (helpers.go:43).
LEMMA InPlaceShape ==
    ASSUME IndInv, NEW w \in Walker, stack[w] # <<>>, Top(w).pc = "pred", HasRoom(w)
    PROVE  /\ Depth(w) > 1
           /\ Top(w).ancestry.own \in 1..(Depth(w) - 1)
           /\ Top(w).ancestry.len = Depth(w) - 1
           /\ StoreInPlace(w) \in Seq(Frame)
           /\ Len(StoreInPlace(w)) = Depth(w)
           /\ \A i \in 1..Depth(w) :
                LET f == StoreInPlace(w)[i]  g == stack[w][i] IN
                /\ f.src = g.src /\ f.s = g.s /\ f.ancestry = g.ancestry
                /\ f.nextAncestry = g.nextAncestry /\ f.done = g.done /\ f.pc = g.pc
                /\ Len(f.buf) = Len(g.buf)
                /\ \A j \in 1..Len(g.buf) :
                     f.buf[j] = IF i = Top(w).ancestry.own /\ j = Depth(w)
                                THEN Top(w).s ELSE g.buf[j]
<1> DEFINE d == Depth(w)
           o == Top(w).ancestry.own
           b == stack[w][o].buf
           nb == [b EXCEPT ![d] = Top(w).s]
           nf == [stack[w][o] EXCEPT !.buf = nb]
<1>1. /\ stack[w] \in Seq(Frame) /\ d \in Nat /\ d >= 1 /\ Top(w) \in Frame
      /\ SliceHolds(stack[w], Top(w).ancestry, d - 1)
  BY TopFacts DEF FrameOK, Top
<1>2. Top(w).ancestry.len = d - 1
  BY <1>1 DEF SliceHolds
<1>3. d > 1
  <2>1. SUFFICES ASSUME d = 1 PROVE FALSE
    BY <1>1, SMT
  <2>2. o = 0
    BY <1>1, <2>1 DEF SliceHolds
  <2>3. Array(w, Top(w).ancestry) = <<>>
    BY <2>2 DEF Array
  <2>4. QED
    BY <2>3, <1>2, <2>1, SMT DEF HasRoom
<1>4. o \in 1..(d - 1)
  BY <1>1, <1>3, SMT DEF SliceHolds
<1>5. Array(w, Top(w).ancestry) = b
  BY <1>4, SMT DEF Array
<1>6. d - 1 < Len(b)
  BY <1>5, <1>2 DEF HasRoom
<1>7. stack[w][o] \in Frame /\ Len(stack[w]) = d
  BY <1>1, <1>4, SMT DEF Depth
<1>8. b \in Seq(Ptr \cup {Nil}) /\ Top(w).s \in Ptr
  BY <1>7, <1>1, SMT DEF Frame
<1>9. /\ nb \in Seq(Ptr \cup {Nil}) /\ Len(nb) = Len(b)
      /\ \A j \in 1..Len(b) : nb[j] = IF j = d THEN Top(w).s ELSE b[j]
  BY <1>8, <1>1, <1>6, SMTT(40)
<1>10. nf \in Frame
  BY <1>7, <1>9, WithBuf
<1>11. StoreInPlace(w) = [stack[w] EXCEPT ![o] = nf]
  <2>1. Top(w).ancestry.len + 1 = d
    BY <1>1, <1>2, SMT
  <2>2. QED
    BY <2>1, Zenon DEF StoreInPlace
<1>12. /\ StoreInPlace(w) \in Seq(Frame) /\ Len(StoreInPlace(w)) = d
       /\ \A i \in 1..d : StoreInPlace(w)[i] = IF i = o THEN nf ELSE stack[w][i]
  BY <1>11, <1>10, <1>7, <1>1, <1>4, SMTT(40)
<1>13. ASSUME NEW i \in 1..d
       PROVE LET f == StoreInPlace(w)[i]  g == stack[w][i] IN
                /\ f.src = g.src /\ f.s = g.s /\ f.ancestry = g.ancestry
                /\ f.nextAncestry = g.nextAncestry /\ f.done = g.done /\ f.pc = g.pc
                /\ Len(f.buf) = Len(g.buf)
                /\ \A j \in 1..Len(g.buf) :
                     f.buf[j] = IF i = o /\ j = d THEN Top(w).s ELSE g.buf[j]
  <2>1. CASE i = o
    <3>1. StoreInPlace(w)[i] = nf
      BY <2>1, <1>12
    <3>2. /\ nf.src = stack[w][i].src /\ nf.s = stack[w][i].s
          /\ nf.ancestry = stack[w][i].ancestry
          /\ nf.nextAncestry = stack[w][i].nextAncestry
          /\ nf.done = stack[w][i].done /\ nf.pc = stack[w][i].pc
          /\ nf.buf = nb
      BY <2>1, <1>7, <1>9, WithBuf
    <3>3. stack[w][i].buf = b
      BY <2>1
    <3> HIDE DEF b, nb, nf
    <3>4. Len(nf.buf) = Len(stack[w][i].buf)
      BY <3>2, <3>3, <1>9
    <3>5. ASSUME NEW j \in 1..Len(stack[w][i].buf)
          PROVE  nf.buf[j] = IF i = o /\ j = d THEN Top(w).s ELSE stack[w][i].buf[j]
      <4>1. nb[j] = IF j = d THEN Top(w).s ELSE b[j]
        BY <3>3, <1>9
      <4>2. nf.buf[j] = nb[j]
        BY <3>2
      <4>3. QED
        BY <4>1, <4>2, <3>3, <2>1, Zenon
    <3>6. QED
      BY <3>1, <3>2, <3>4, <3>5, Zenon
  <2>2. CASE i # o
    <3> HIDE DEF b, nb, nf
    <3>1. StoreInPlace(w)[i] = stack[w][i]
      BY <2>2, <1>12
    <3>2. QED
      BY <3>1, <2>2, Zenon
  <2>3. QED
    BY <2>1, <2>2
<1>14. QED
  BY <1>2, <1>3, <1>4, <1>12, <1>13

\* A slice keeps holding its calls when their pointers and the first n slots of
\* the arrays of those calls stay as they are.
LEMMA SliceKept ==
    ASSUME NEW old \in Seq(Frame), NEW new \in Seq(Frame), NEW slice, NEW n \in Nat,
           SliceHolds(old, slice, n), n <= Len(old), n <= Len(new),
           \A j \in 1..n : /\ new[j].s = old[j].s
                           /\ Len(new[j].buf) = Len(old[j].buf)
                           /\ \A k \in 1..Len(old[j].buf) :
                                k <= n => new[j].buf[k] = old[j].buf[k]
    PROVE  SliceHolds(new, slice, n)
<1>1. CASE n = 0
  BY <1>1, SMT DEF SliceHolds
<1>2. CASE n > 0
  <2>1. /\ slice.own \in 1..n
        /\ n <= Len(old[slice.own].buf)
        /\ \A j \in 1..n : old[slice.own].buf[j] = old[j].s
    BY <1>2, SMT DEF SliceHolds
  <2>2. old[slice.own].buf \in Seq(Ptr \cup {Nil})
    <3>1. old[slice.own] \in Frame
      BY <2>1, SMT
    <3>2. QED
      BY <3>1, SMT DEF Frame
  <2>3. n <= Len(new[slice.own].buf)
    BY <2>1
  <2>4. ASSUME NEW j \in 1..n PROVE new[slice.own].buf[j] = new[j].s
    <3>1. j \in 1..Len(old[slice.own].buf) /\ j <= n
      BY <2>1, <2>2, SMT
    <3>2. QED
      BY <3>1, <2>1
  <2>5. QED
    BY <1>2, <2>1, <2>3, <2>4, SMT DEF SliceHolds
<1>3. QED
  BY <1>1, <1>2, SMT

\* Moving a frame on to its children sets its nextAncestry and nothing else.
LEMMA AtKidsFrame ==
    ASSUME NEW f \in Frame, NEW own \in Nat
    PROVE  LET g == AtKids(f, own) IN
           /\ g \in Frame
           /\ g.src = f.src /\ g.s = f.s /\ g.ancestry = f.ancestry /\ g.buf = f.buf
           /\ g.done = f.done /\ g.pc = "kids"
           /\ g.nextAncestry = [own |-> own, len |-> f.ancestry.len + 1]
<1> DEFINE sl == [own |-> own, len |-> f.ancestry.len + 1]
<1>1. sl \in Slice
  BY SMT DEF Frame, Slice
<1>2. AtKids(f, own) = [f EXCEPT !.pc = "kids", !.nextAncestry = sl]
  BY DEF AtKids
<1> HIDE DEF sl
<1>3. LET g == [f EXCEPT !.pc = "kids", !.nextAncestry = sl] IN
           /\ g \in Frame
           /\ g.src = f.src /\ g.s = f.s /\ g.ancestry = f.ancestry /\ g.buf = f.buf
           /\ g.done = f.done /\ g.pc = "kids" /\ g.nextAncestry = sl
  <2> DEFINE h == [f EXCEPT !.pc = "kids"]
  <2>1. /\ h \in Frame
        /\ h.src = f.src /\ h.s = f.s /\ h.ancestry = f.ancestry /\ h.buf = f.buf
        /\ h.done = f.done /\ h.pc = "kids"
    BY SMT DEF Frame
  <2>2. [f EXCEPT !.pc = "kids", !.nextAncestry = sl] = [h EXCEPT !.nextAncestry = sl]
    BY Zenon
  <2> HIDE DEF h
  <2>3. LET g == [h EXCEPT !.nextAncestry = sl] IN
        /\ g \in Frame
        /\ g.src = h.src /\ g.s = h.s /\ g.ancestry = h.ancestry /\ g.buf = h.buf
        /\ g.done = h.done /\ g.pc = h.pc /\ g.nextAncestry = sl
    BY <1>1, <2>1, SMT DEF Frame
  <2>4. QED
    BY <2>1, <2>2, <2>3
<1>4. QED
  BY <1>2, <1>3 DEF sl

\* Noting that a child was recursed into leaves the rest of the frame alone.
LEMMA RecursedFrame ==
    ASSUME NEW f \in Frame, NEW k \in Node
    PROVE  LET g == Recursed(f, k) IN
           /\ g \in Frame
           /\ g.src = f.src /\ g.s = f.s /\ g.ancestry = f.ancestry /\ g.buf = f.buf
           /\ g.nextAncestry = f.nextAncestry /\ g.pc = f.pc
           /\ g.done = f.done \cup {k}
  BY SMT DEF Recursed, Frame

\* The fields of the frame of a call that just began.
LEMMA NewFrameFields ==
    ASSUME NEW src \in Node, NEW s \in Ptr, NEW ancestry \in Slice
    PROVE  LET g == NewFrame(src, s, ancestry) IN
           /\ g \in Frame
           /\ g.src = src /\ g.s = s /\ g.ancestry = ancestry /\ g.pc = "pred"
           /\ g.done = {}
  BY SMT DEF NewFrame, Frame, Slice, NilSlice

\* The m outermost calls stay as IndInv describes them when a step leaves alone
\* what their frames, their cells, their paths and m slots of their arrays hold.
LEMMA CallsKept ==
    ASSUME NEW old \in Seq(Frame), NEW new \in Seq(Frame), NEW m \in Nat,
           NEW mem, NEW mem2, NEW paths, NEW paths2,
           CallsOK(old, mem, paths), m <= Len(old), m <= Len(new),
           \A i \in 1..m :
              /\ new[i].src = old[i].src /\ new[i].s = old[i].s
              /\ new[i].ancestry = old[i].ancestry
              /\ new[i].nextAncestry = old[i].nextAncestry /\ new[i].pc = old[i].pc
              /\ Len(new[i].buf) = Len(old[i].buf)
              /\ \A k \in 1..Len(old[i].buf) : k <= m => new[i].buf[k] = old[i].buf[k]
              /\ old[i].s \in Cell => mem2[old[i].s] = mem[old[i].s]
              /\ old[i].pc = "kids" => paths2[old[i].s] = paths[old[i].s]
              /\ i < Len(new) => old[i].pc = "kids"
    PROVE  \A i \in 1..m : FrameOK(new, i, mem2, paths2)
<1> SUFFICES ASSUME NEW i \in 1..m PROVE FrameOK(new, i, mem2, paths2)
  OBVIOUS
<1>1. FrameOK(old, i, mem, paths) /\ i \in Nat /\ i >= 1 /\ i <= m
  BY SMT DEF CallsOK
<1>2. ASSUME NEW slice, NEW n \in {i - 1, i}, SliceHolds(old, slice, n)
      PROVE  SliceHolds(new, slice, n)
  <2>1. n \in Nat /\ n <= Len(old) /\ n <= Len(new) /\ n <= m
    BY <1>1, <1>2, SMT
  <2>2. ASSUME NEW j \in 1..n
        PROVE  /\ new[j].s = old[j].s
               /\ Len(new[j].buf) = Len(old[j].buf)
               /\ \A k \in 1..Len(old[j].buf) : k <= n => new[j].buf[k] = old[j].buf[k]
    <3>1. j \in 1..m
      BY <2>1, SMT
    <3>2. old[j].buf \in Seq(Ptr \cup {Nil})
      <4>1. old[j] \in Frame
        BY <3>1, SMT
      <4>2. QED
        BY <4>1, SMT DEF Frame
    <3>3. \A k \in 1..Len(old[j].buf) : k <= n => k <= m
      BY <2>1, <3>2, SMT
    <3>4. QED
      BY <3>1, <3>3
  <2>3. QED
    BY <2>1, <2>2, <1>2, SliceKept
<1>3. SliceHolds(new, new[i].ancestry, i - 1)
  BY <1>1, <1>2 DEF FrameOK
<1>4. new[i].pc = "kids" => SliceHolds(new, new[i].nextAncestry, i)
  BY <1>1, <1>2 DEF FrameOK
<1>5. i > 1 => new[i].s \in Cell /\ Parent[new[i].src] = new[i - 1].src
  <2>1. i > 1 => (i - 1) \in 1..m
    BY <1>1, SMT
  <2>2. QED
    BY <1>1, <2>1 DEF FrameOK
<1>6. QED
  BY <1>1, <1>3, <1>4, <1>5 DEF FrameOK

\* Calls stay apart when no call changes its cell and no cell is freed.
LEMMA ExclusiveKept ==
    ASSUME CellsExclusive, schemaPool' \subseteq schemaPool,
           \A w \in Walker : /\ Len(stack'[w]) = Len(stack[w])
                             /\ \A i \in 1..Len(stack[w]) : stack'[w][i].s = stack[w][i].s
    PROVE  CellsExclusive'
  BY DEF CellsExclusive, Depth

\* Calls stay apart when every call of the new state was there with its pointer,
\* and no cell in use is free.
LEMMA ExclusiveStep ==
    ASSUME CellsExclusive,
           \A w \in Walker : \A i \in 1..Len(stack'[w]) :
              stack'[w][i].s \in Cell =>
                 /\ i \in 1..Len(stack[w]) /\ stack'[w][i].s = stack[w][i].s
                 /\ stack'[w][i].s \notin schemaPool'
    PROVE  CellsExclusive'
<1> SUFFICES ASSUME NEW w \in Walker, NEW v \in Walker, NEW i \in 1..Len(stack'[w]),
                    stack'[w][i].s \in Cell
             PROVE  /\ stack'[w][i].s \notin schemaPool'
                    /\ \A j \in 1..Len(stack'[v]) :
                         stack'[w][i].s = stack'[v][j].s => w = v /\ i = j
  BY DEF CellsExclusive, Depth
<1>1. SUFFICES ASSUME NEW j \in 1..Len(stack'[v]), stack'[w][i].s = stack'[v][j].s
               PROVE  w = v /\ i = j
  OBVIOUS
<1>2. /\ i \in 1..Len(stack[w]) /\ stack'[w][i].s = stack[w][i].s
      /\ j \in 1..Len(stack[v]) /\ stack'[v][j].s = stack[v][j].s
  BY <1>1
<1>3. stack[w][i].s \in Cell /\ stack[w][i].s = stack[v][j].s
  BY <1>1, <1>2
<1>4. QED
  BY <1>2, <1>3 DEF CellsExclusive, Depth

\* The walks of the other goroutines are untouched.
LEMMA OthersKept ==
    ASSUME IndInv, NEW v \in Walker,
           stack'[v] = stack[v], newToFldPath'[v] = newToFldPath[v],
           \A i \in 1..Len(stack[v]) :
               stack[v][i].s \in Cell => heap'[stack[v][i].s] = heap[stack[v][i].s]
    PROVE  CallsOK(stack'[v], heap', newToFldPath'[v])
<1>1. stack[v] \in Seq(Frame) /\ CallsOK(stack[v], heap, newToFldPath[v])
  BY DEF IndInv, TypeOK, FramesOK
<1>2. QED
  BY <1>1, SMT DEF CallsOK, FrameOK

-----------------------------------------------------------------------------
\* append in place keeps every call as described: the slot it writes lies behind
\* every slice of an enclosing call.
LEMMA InPlaceCalls ==
    ASSUME IndInv, NEW w \in Walker, stack[w] # <<>>, Top(w).pc = "pred", HasRoom(w)
    PROVE  /\ CallsOK(StoreInPlace(w), heap, newToFldPath[w])
           /\ SliceHolds(StoreInPlace(w),
                         [own |-> Top(w).ancestry.own, len |-> Top(w).ancestry.len + 1],
                         Depth(w))
<1> DEFINE d == Depth(w)
           new == StoreInPlace(w)
           o == Top(w).ancestry.own
<1>1. /\ stack[w] \in Seq(Frame) /\ d \in Nat /\ d >= 1 /\ Top(w) \in Frame
      /\ FrameOK(stack[w], d, heap, newToFldPath[w]) /\ Top(w) = stack[w][d]
      /\ Len(stack[w]) = d
  BY TopFacts DEF Top, Depth
<1>2. CallsOK(stack[w], heap, newToFldPath[w])
  BY DEF IndInv, FramesOK
<1>3. /\ d > 1 /\ o \in 1..(d - 1) /\ Top(w).ancestry.len = d - 1
      /\ new \in Seq(Frame) /\ Len(new) = d
      /\ \A i \in 1..d :
                /\ new[i].src = stack[w][i].src /\ new[i].s = stack[w][i].s
                /\ new[i].ancestry = stack[w][i].ancestry
                /\ new[i].nextAncestry = stack[w][i].nextAncestry
                /\ new[i].pc = stack[w][i].pc
                /\ Len(new[i].buf) = Len(stack[w][i].buf)
                /\ \A j \in 1..Len(stack[w][i].buf) :
                     new[i].buf[j] = IF i = o /\ j = d THEN Top(w).s ELSE stack[w][i].buf[j]
  BY InPlaceShape, ZenonT(60)
<1> HIDE DEF new, d, o
<1>4. ASSUME NEW i \in 1..(d - 1)
      PROVE  /\ new[i].src = stack[w][i].src /\ new[i].s = stack[w][i].s
             /\ new[i].ancestry = stack[w][i].ancestry
             /\ new[i].nextAncestry = stack[w][i].nextAncestry
             /\ new[i].pc = stack[w][i].pc /\ new[i].pc = "kids"
             /\ Len(new[i].buf) = Len(stack[w][i].buf)
             /\ \A k \in 1..Len(stack[w][i].buf) :
                   k <= d - 1 => new[i].buf[k] = stack[w][i].buf[k]
  <2>1. i \in 1..d /\ i < d /\ i \in 1..Len(stack[w])
    BY <1>1, SMT
  <2>2. stack[w][i].pc = "kids"
    BY <1>1, <1>2, <2>1 DEF CallsOK, FrameOK
  <2>3. \A k \in 1..Len(stack[w][i].buf) : k <= d - 1 => k # d
    <3>1. stack[w][i] \in Frame
      BY <1>1, <2>1, SMT
    <3>2. QED
      BY <1>1, <3>1, SMT DEF Frame
  <2>4. QED
    BY <1>3, <2>1, <2>2, <2>3
<1>5. d - 1 \in Nat /\ d - 1 <= Len(stack[w]) /\ d - 1 <= Len(new)
  BY <1>1, <1>3, SMT
<1>6. \A i \in 1..(d - 1) : FrameOK(new, i, heap, newToFldPath[w])
  <2>1. \A i \in 1..(d - 1) :
              /\ new[i].src = stack[w][i].src /\ new[i].s = stack[w][i].s
              /\ new[i].ancestry = stack[w][i].ancestry
              /\ new[i].nextAncestry = stack[w][i].nextAncestry
              /\ new[i].pc = stack[w][i].pc
              /\ Len(new[i].buf) = Len(stack[w][i].buf)
              /\ \A k \in 1..Len(stack[w][i].buf) :
                    k <= d - 1 => new[i].buf[k] = stack[w][i].buf[k]
              /\ stack[w][i].s \in Cell => heap[stack[w][i].s] = heap[stack[w][i].s]
              /\ stack[w][i].pc = "kids" =>
                    newToFldPath[w][stack[w][i].s] = newToFldPath[w][stack[w][i].s]
              /\ i < Len(new) => stack[w][i].pc = "kids"
    BY <1>4
  <2>2. QED
    BY <1>1, <1>2, <1>3, <1>5, <2>1, CallsKept, ZenonT(60)
<1>7. SliceHolds(new, Top(w).ancestry, d - 1)
  <2>1. SliceHolds(stack[w], Top(w).ancestry, d - 1)
    BY <1>1 DEF FrameOK
  <2>2. QED
    BY <1>1, <1>3, <1>4, <1>5, <2>1, SliceKept
<1>8. FrameOK(new, d, heap, newToFldPath[w])
  <2>1. d \in 1..d /\ (d - 1) \in 1..d /\ ~(d < Len(new)) /\ d # 1
    BY <1>1, <1>3, SMT
  <2>2. new[d].pc # "kids"
    BY <1>1, <1>3, <2>1
  <2>3. QED
    BY <1>1, <1>3, <1>7, <2>1, <2>2 DEF FrameOK
<1>9. CallsOK(new, heap, newToFldPath[w])
  <2>1. \A i \in 1..d : i \in 1..(d - 1) \/ i = d
    BY <1>1, SMT
  <2>2. QED
    BY <1>3, <1>6, <1>8, <2>1 DEF CallsOK
<1>10. SliceHolds(new, [own |-> o, len |-> Top(w).ancestry.len + 1], d)
  <2> DEFINE sl == [own |-> o, len |-> Top(w).ancestry.len + 1]
  <2>1. sl.own = o /\ sl.len = d
    BY <1>1, <1>3, SMT
  <2>2. d <= Len(new[o].buf)
    <3>1. o \in 1..d /\ o \in 1..Len(stack[w]) /\ o # 0
      BY <1>1, <1>3, SMT
    <3>2. stack[w][o] \in Frame
      BY <1>1, <3>1, SMT
    <3>3. Len(stack[w][o].buf) \in Nat
      BY <3>2, SMT DEF Frame
    <3>4. d - 1 < Len(stack[w][o].buf)
      BY <3>1, <1>3, Zenon DEF HasRoom, Array, o
    <3>5. Len(new[o].buf) = Len(stack[w][o].buf)
      BY <3>1, <1>3
    <3>6. QED
      BY <3>3, <3>4, <3>5, <1>1, SMT
  <2>3. ASSUME NEW j \in 1..d PROVE new[o].buf[j] = new[j].s
    <3>1. o \in 1..d /\ j \in 1..Len(stack[w][o].buf)
      <4>1. o \in 1..d
        BY <1>1, <1>3, SMT
      <4>2. Len(stack[w][o].buf) = Len(new[o].buf) /\ stack[w][o] \in Frame
        BY <4>1, <1>1, <1>3, SMT
      <4>3. Len(stack[w][o].buf) \in Nat
        BY <4>2, SMT DEF Frame
      <4>4. QED
        BY <4>1, <4>2, <4>3, <2>2, <1>1, SMT
    <3>2. CASE j = d
      BY <3>1, <3>2, <1>1, <1>3
    <3>3. CASE j # d
      <4>1. j \in 1..(d - 1) /\ d - 1 > 0
        BY <3>3, <1>1, SMT
      <4>2. stack[w][o].buf[j] = stack[w][j].s
        BY <4>1, <1>1 DEF FrameOK, SliceHolds, o
      <4>3. QED
        BY <4>1, <4>2, <3>1, <3>3, <1>3
    <3>4. QED
      BY <3>2, <3>3
  <2>4. d # 0 /\ o \in 1..d
    BY <1>1, <1>3, SMT
  <2> HIDE DEF sl
  <2>5. SliceHolds(new, sl, d)
    BY <2>1, <2>2, <2>3, <2>4 DEF SliceHolds
  <2>6. QED
    BY <2>5 DEF sl
<1>11. QED
  BY <1>9, <1>10 DEF new, d, o

\* The calls of one walk all work on different pointers.
LEMMA PointersApart ==
    ASSUME IndInv, NEW w \in Walker, NEW i \in 1..Depth(w), NEW j \in 1..Depth(w), i < j
    PROVE  stack[w][i].s # stack[w][j].s
<1>1. stack[w] \in Seq(Frame) /\ Depth(w) \in Nat
  BY SMT DEF IndInv, TypeOK, Depth
<1>2. i \in Nat /\ j \in Nat /\ j > 1 /\ i # j
  BY <1>1, SMT
<1>3. stack[w][j].s \in Cell
  BY <1>2 DEF IndInv, FramesOK, CallsOK, FrameOK, Depth
<1>4. CellsExclusive
  BY DEF IndInv
<1>5. QED
  BY <1>2, <1>3, <1>4 DEF CellsExclusive

\* The innermost call moves on to its children, having noted its path.
LEMMA TopToKids ==
    ASSUME NEW calls \in Seq(Frame), NEW mem, NEW paths \in [Ptr -> Node \cup {Nil}],
           NEW g \in Frame, NEW d \in Nat, d = Len(calls), d >= 1,
           CallsOK(calls, mem, paths),
           \A i \in 1..(d - 1) : calls[i].s # calls[d].s,
           g.src = calls[d].src, g.s = calls[d].s, g.ancestry = calls[d].ancestry,
           g.pc = "kids",
           SliceHolds([calls EXCEPT ![d] = g], g.nextAncestry, d)
    PROVE  CallsOK([calls EXCEPT ![d] = g], mem, [paths EXCEPT ![g.s] = g.src])
<1> DEFINE new == [calls EXCEPT ![d] = g]
           paths2 == [paths EXCEPT ![g.s] = g.src]
<1>1. new \in Seq(Frame) /\ Len(new) = d /\ new[d] = g
      /\ \A i \in 1..(d - 1) : new[i] = calls[i]
  BY SMT
<1>2. paths2[g.s] = g.src /\ \A q \in Ptr : q # g.s => paths2[q] = paths[q]
  BY SMT DEF Frame
<1> HIDE DEF new, paths2
<1>3. d - 1 \in Nat /\ d - 1 <= Len(calls) /\ d - 1 <= Len(new)
  BY <1>1, SMT
<1>4. ASSUME NEW i \in 1..(d - 1)
      PROVE  paths2[calls[i].s] = paths[calls[i].s] /\ calls[i].pc = "kids"
  <2>1. i \in 1..Len(calls) /\ i < Len(calls) /\ calls[i] \in Frame
    BY SMT
  <2>2. calls[i].s \in Ptr
    BY <2>1, SMT DEF Frame
  <2>3. calls[i].pc = "kids"
    BY <2>1 DEF CallsOK, FrameOK
  <2>4. QED
    BY <2>2, <2>3, <1>2
<1>5. \A i \in 1..(d - 1) : FrameOK(new, i, mem, paths2)
  <2>1. \A i \in 1..(d - 1) :
              /\ new[i].src = calls[i].src /\ new[i].s = calls[i].s
              /\ new[i].ancestry = calls[i].ancestry
              /\ new[i].nextAncestry = calls[i].nextAncestry
              /\ new[i].pc = calls[i].pc
              /\ Len(new[i].buf) = Len(calls[i].buf)
              /\ \A k \in 1..Len(calls[i].buf) :
                    k <= d - 1 => new[i].buf[k] = calls[i].buf[k]
              /\ calls[i].s \in Cell => mem[calls[i].s] = mem[calls[i].s]
              /\ calls[i].pc = "kids" => paths2[calls[i].s] = paths[calls[i].s]
              /\ i < Len(new) => calls[i].pc = "kids"
    BY <1>1, <1>4
  <2>2. QED
    BY <1>1, <1>3, <2>1, CallsKept, ZenonT(60)
<1>6. SliceHolds(new, g.ancestry, d - 1)
  <2>1. SliceHolds(calls, g.ancestry, d - 1)
    BY SMT DEF CallsOK, FrameOK
  <2>2. QED
    BY <1>1, <1>3, <2>1, SliceKept
<1>7. FrameOK(new, d, mem, paths2)
  <2>1. d \in 1..Len(calls) /\ ~(d < Len(new))
    BY <1>1, SMT
  <2>2. d > 1 => (d - 1) \in 1..(d - 1)
    BY SMT
  <2>3. SliceHolds(new, g.nextAncestry, d)
    BY DEF new
  <2>4. d = 1 => g.s = g.src /\ g.src \in Root
    BY <2>1 DEF CallsOK, FrameOK
  <2>5. d > 1 => g.s \in Cell /\ Parent[g.src] = new[d - 1].src
    BY <2>1, <2>2, <1>1 DEF CallsOK, FrameOK
  <2>6. g.s \in Cell => mem[g.s] = g.src
    BY <2>1 DEF CallsOK, FrameOK
  <2>7. QED
    BY <1>1, <1>2, <1>6, <2>1, <2>3, <2>4, <2>5, <2>6 DEF FrameOK
<1>8. \A i \in 1..Len(new) : i \in 1..(d - 1) \/ i = d
  BY <1>1, SMT
<1>9. CallsOK(new, mem, paths2)
  BY <1>5, <1>7, <1>8 DEF CallsOK
<1>10. QED
  BY <1>9 DEF new, paths2

-----------------------------------------------------------------------------
\* One lemma per action: it preserves IndInv.

\* An append by the predicate itself (comp_must_not_exceed_cost_budget.go:69) writes
\* a slot that no enclosing call looks at.
LEMMA PredAppendsInv ==
    ASSUME IndInv, NEW w \in Walker, PredAppends(w)
    PROVE  IndInv'
<1> USE DEF PredAppends
<1>1. /\ StoreInPlace(w) \in Seq(Frame) /\ Len(StoreInPlace(w)) = Len(stack[w])
      /\ \A i \in 1..Len(stack[w]) : StoreInPlace(w)[i].s = stack[w][i].s
  BY InPlaceShape DEF Depth
<1>2. /\ stack' = [stack EXCEPT ![w] = StoreInPlace(w)] /\ stack \in [Walker -> Seq(Frame)]
      /\ TypeOK
  BY DEF IndInv, TypeOK
<1>3. stack'[w] = StoreInPlace(w) /\ \A v \in Walker : v # w => stack'[v] = stack[v]
  BY <1>2
<1>4. TypeOK'
  BY <1>1, <1>2 DEF TypeOK
<1>5. CellsExclusive'
  BY <1>1, <1>3, ExclusiveKept DEF IndInv
<1>6. CallsOK(stack'[w], heap', newToFldPath'[w])
  BY <1>3, InPlaceCalls
<1>7. ASSUME NEW v \in Walker, v # w PROVE CallsOK(stack'[v], heap', newToFldPath'[v])
  BY <1>3, <1>7, OthersKept
<1>8. QED
  BY <1>4, <1>5, <1>6, <1>7 DEF IndInv, FramesOK

\* What the predicate notes has the right type.
LEMMA PredTypes ==
    ASSUME TypeOK, NEW w \in Walker, Pred(w), Top(w) \in Frame
    PROVE  /\ newToFldPath' \in [Walker -> [Ptr -> Node \cup {Nil}]]
           /\ newToFldPath'[w] = [newToFldPath[w] EXCEPT ![Top(w).s] = Top(w).src]
           /\ \A v \in Walker : v # w => newToFldPath'[v] = newToFldPath[v]
           /\ seen' \in [Walker -> SUBSET (Node \cup {Nil})]
<1>1. Top(w).s \in Ptr /\ Top(w).src \in Node
  BY SMT DEF Frame
<1>2. Deref(Top(w).s) \in Node \cup {Nil}
  BY <1>1 DEF Deref, TypeOK, Ptr
<1>3. QED
  BY <1>1, <1>2 DEF Pred, TypeOK

\* The predicate returns true: only what it noted changes.
LEMMA PredTrueInv ==
    ASSUME IndInv, NEW w \in Walker, PredTrue(w)
    PROVE  IndInv'
<1>1. /\ stack[w] # <<>> /\ Top(w).pc = "pred" /\ Pred(w) /\ UNCHANGED <<stack, schemaPool, heap>>
      /\ found' = [found EXCEPT ![w] = TRUE] /\ TypeOK /\ CellsExclusive
  BY DEF PredTrue, IndInv
<1>2. /\ stack[w] \in Seq(Frame) /\ Depth(w) \in Nat /\ Depth(w) >= 1 /\ Top(w) \in Frame
      /\ CallsOK(stack[w], heap, newToFldPath[w])
  BY <1>1, TopFacts DEF IndInv, FramesOK
<1>3. TypeOK'
  BY <1>1, <1>2, PredTypes DEF TypeOK
<1>4. CellsExclusive'
  BY <1>1, ExclusiveKept
<1>5. CallsOK(stack'[w], heap', newToFldPath'[w])
  <2>1. ASSUME NEW i \in 1..Len(stack[w]), stack[w][i].pc = "kids"
        PROVE newToFldPath'[w][stack[w][i].s] = newToFldPath[w][stack[w][i].s]
    <3>1. i # Depth(w)
      BY <2>1, <1>1 DEF Top
    <3>2. i < Depth(w) /\ i \in 1..Depth(w) /\ Depth(w) \in 1..Depth(w)
      BY <3>1, <1>2, SMT DEF Depth
    <3>3. stack[w][i].s # Top(w).s
      BY <3>2, PointersApart DEF Top
    <3>4. stack[w][i].s \in Ptr /\ newToFldPath[w] \in [Ptr -> Node \cup {Nil}]
      <4>1. stack[w][i] \in Frame
        BY <1>2, SMT
      <4>2. QED
        BY <4>1, <1>1, SMT DEF Frame, TypeOK
    <3>5. newToFldPath'[w] = [newToFldPath[w] EXCEPT ![Top(w).s] = Top(w).src]
      BY <1>1, <1>2, PredTypes
    <3>6. QED
      BY <3>3, <3>4, <3>5
  <2>2. ASSUME NEW i \in 1..Len(stack[w])
        PROVE  FrameOK(stack[w], i, heap, newToFldPath'[w])
    BY <1>2, <2>1 DEF CallsOK, FrameOK
  <2>3. QED
    BY <1>1, <2>2 DEF CallsOK
<1>6. ASSUME NEW v \in Walker, v # w PROVE CallsOK(stack'[v], heap', newToFldPath'[v])
  <2>1. newToFldPath'[v] = newToFldPath[v]
    BY <1>1, <1>2, <1>6, PredTypes
  <2>2. QED
    BY <2>1, <1>1, OthersKept
<1>7. QED
  BY <1>3, <1>4, <1>5, <1>6 DEF IndInv, FramesOK

\* The part that both ways of building nextAncestry share: only the innermost
\* frame of one walk changes, and it ends with a nextAncestry that holds the walk.
LEMMA PredFalseInv ==
    ASSUME IndInv, NEW w \in Walker, stack[w] # <<>>, Pred(w),
           NEW calls \in Seq(Frame), NEW g \in Frame,
           Len(calls) = Depth(w),
           \A i \in 1..Depth(w) : calls[i].s = stack[w][i].s,
           CallsOK(calls, heap, newToFldPath[w]),
           g.src = calls[Depth(w)].src, g.s = calls[Depth(w)].s,
           g.ancestry = calls[Depth(w)].ancestry, g.pc = "kids",
           calls[Depth(w)].src = Top(w).src,
           SliceHolds([calls EXCEPT ![Depth(w)] = g], g.nextAncestry, Depth(w)),
           stack' = [stack EXCEPT ![w] = [calls EXCEPT ![Depth(w)] = g]],
           UNCHANGED <<schemaPool, heap, found>>
    PROVE  IndInv'
<1> DEFINE d == Depth(w)
           new == [calls EXCEPT ![d] = g]
<1>1. /\ d \in Nat /\ d >= 1 /\ Top(w) \in Frame /\ TypeOK /\ CellsExclusive
      /\ Top(w) = stack[w][d] /\ Len(stack[w]) = d
  BY TopFacts DEF IndInv, Top, Depth
<1>2. /\ new \in Seq(Frame) /\ Len(new) = d
      /\ \A i \in 1..d : new[i].s = stack[w][i].s
  BY <1>1, SMT
<1>3. stack'[w] = new /\ \A v \in Walker : v # w => stack'[v] = stack[v]
  BY <1>1 DEF TypeOK
<1>4. stack' \in [Walker -> Seq(Frame)]
  BY <1>1, <1>2 DEF TypeOK
<1>5. /\ newToFldPath'[w] = [newToFldPath[w] EXCEPT ![Top(w).s] = Top(w).src]
      /\ \A v \in Walker : v # w => newToFldPath'[v] = newToFldPath[v]
      /\ newToFldPath[w] \in [Ptr -> Node \cup {Nil}]
  BY <1>1, PredTypes DEF TypeOK
<1>6. TypeOK'
  BY <1>1, <1>4, PredTypes DEF TypeOK
<1>7. CellsExclusive'
  BY <1>1, <1>2, <1>3, ExclusiveKept
<1>8. CallsOK(stack'[w], heap', newToFldPath'[w])
  <2>1. \A i \in 1..(d - 1) : calls[i].s # calls[d].s
    <3>1. \A i \in 1..(d - 1) : i \in 1..d /\ d \in 1..d /\ i < d
      BY <1>1, SMT
    <3>2. QED
      BY <3>1, PointersApart
  <2>2. d \in 1..d
    BY <1>1, SMT
  <2>3. g.s = Top(w).s /\ g.src = Top(w).src
    BY <2>2, <1>1
  <2>4. CallsOK(new, heap, [newToFldPath[w] EXCEPT ![g.s] = g.src])
    BY <1>1, <1>5, <2>1, TopToKids
  <2>5. QED
    BY <1>3, <1>5, <2>3, <2>4
<1>9. ASSUME NEW v \in Walker, v # w PROVE CallsOK(stack'[v], heap', newToFldPath'[v])
  BY <1>3, <1>5, <1>9, OthersKept
<1>10. QED
  BY <1>6, <1>7, <1>8, <1>9 DEF IndInv, FramesOK

\* nextAncestry built within the capacity of the ancestry (helpers.go:43).
LEMMA PredFalseInPlaceInv ==
    ASSUME IndInv, NEW w \in Walker, PredFalseInPlace(w)
    PROVE  IndInv'
<1> DEFINE d == Depth(w)
           calls == StoreInPlace(w)
           own == Top(w).ancestry.own
           g == AtKids(calls[d], own)
<1>1. /\ stack[w] # <<>> /\ Top(w).pc = "pred" /\ Pred(w) /\ HasRoom(w)
      /\ stack' = [stack EXCEPT ![w] = [calls EXCEPT ![d] = g]]
      /\ UNCHANGED <<schemaPool, heap, found>>
  BY DEF PredFalseInPlace
<1>2. d \in Nat /\ d >= 1 /\ Top(w) \in Frame /\ Top(w) = stack[w][d] /\ d \in 1..d
  BY <1>1, TopFacts, SMT DEF Top
<1>3. /\ calls \in Seq(Frame) /\ Len(calls) = d
      /\ \A i \in 1..d : calls[i].s = stack[w][i].s
      /\ calls[d].src = Top(w).src /\ calls[d].ancestry = Top(w).ancestry
      /\ own \in 1..(d - 1)
  <2>1. /\ calls \in Seq(Frame) /\ Len(calls) = d /\ own \in 1..(d - 1)
        /\ \A i \in 1..d : /\ calls[i].src = stack[w][i].src /\ calls[i].s = stack[w][i].s
                           /\ calls[i].ancestry = stack[w][i].ancestry
    BY <1>1, InPlaceShape
  <2>2. QED
    BY <1>2, <2>1
<1>4. /\ CallsOK(calls, heap, newToFldPath[w])
      /\ SliceHolds(calls, [own |-> own, len |-> Top(w).ancestry.len + 1], d)
  BY <1>1, InPlaceCalls
<1>5. calls[d] \in Frame /\ own \in Nat
  BY <1>2, <1>3, SMT
<1>6. /\ g \in Frame /\ g.src = calls[d].src /\ g.s = calls[d].s
      /\ g.ancestry = calls[d].ancestry /\ g.buf = calls[d].buf /\ g.pc = "kids"
      /\ g.nextAncestry = [own |-> own, len |-> Top(w).ancestry.len + 1]
  BY <1>3, <1>5, AtKidsFrame
<1>7. SliceHolds([calls EXCEPT ![d] = g], g.nextAncestry, d)
  <2> DEFINE new == [calls EXCEPT ![d] = g]
  <2> HIDE DEF g, calls
  <2>1. /\ new \in Seq(Frame) /\ Len(new) = d
        /\ \A i \in 1..d : new[i].s = calls[i].s /\ new[i].buf = calls[i].buf
    BY <1>2, <1>3, <1>6, SMT
  <2>2. SliceHolds(calls, g.nextAncestry, d) /\ d <= d
    BY <1>2, <1>4, <1>6
  <2> HIDE DEF new
  <2>3. SliceHolds(new, g.nextAncestry, d)
    BY <1>2, <1>3, <2>1, <2>2, SliceKept
  <2>4. QED
    BY <2>3 DEF new
<1>8. QED
  <2> HIDE DEF g, calls, d
  <2> QED
    BY <1>1, <1>3, <1>4, <1>6, <1>7, PredFalseInv DEF d

\* append copies the old pointers into the array it allocates, the new one follows them.
LEMMA GrownHolds ==
    ASSUME IndInv, NEW w \in Walker, stack[w] # <<>>,
           NEW cap \in Nat, cap >= Depth(w)
    PROVE  /\ Grown(w, cap) \in Seq(Ptr \cup {Nil}) /\ Len(Grown(w, cap)) = cap
           /\ \A j \in 1..Depth(w) : Grown(w, cap)[j] = stack[w][j].s
<1> DEFINE d == Depth(w)
           calls == stack[w]
<1>1. /\ calls \in Seq(Frame) /\ d \in Nat /\ d >= 1 /\ Top(w) \in Frame /\ Top(w) = calls[d]
      /\ Len(calls) = d /\ FrameOK(calls, d, heap, newToFldPath[w])
  BY TopFacts DEF Top, Depth
<1>2. /\ SliceHolds(calls, Top(w).ancestry, d - 1)
      /\ Top(w).ancestry.len = d - 1 /\ Top(w).s \in Ptr
  <2>1. SliceHolds(calls, Top(w).ancestry, d - 1) /\ Top(w).ancestry.len = d - 1
    BY <1>1 DEF FrameOK, SliceHolds
  <2>2. QED
    BY <1>1, <2>1, SMT DEF Frame
<1>3. \A j \in 1..(d - 1) : Array(w, Top(w).ancestry)[j] = calls[j].s /\ calls[j].s \in Ptr
  <2>1. ASSUME NEW j \in 1..(d - 1)
        PROVE  Array(w, Top(w).ancestry)[j] = calls[j].s /\ calls[j].s \in Ptr
    <3>1. d - 1 > 0 /\ calls[j] \in Frame
      BY <1>1, SMT
    <3>2. Top(w).ancestry.own \in 1..(d - 1) /\ calls[Top(w).ancestry.own].buf[j] = calls[j].s
      BY <3>1, <1>2 DEF SliceHolds
    <3>3. Top(w).ancestry.own # 0
      BY <3>2, <1>1, SMT
    <3>4. calls[j].s \in Ptr
      BY <3>1, SMT DEF Frame
    <3>5. QED
      BY <3>2, <3>3, <3>4 DEF Array
  <2>2. QED
    BY <2>1
<1>4. /\ Grown(w, cap) \in Seq(Ptr \cup {Nil}) /\ Len(Grown(w, cap)) = cap
      /\ \A j \in 1..d : Grown(w, cap)[j] = calls[j].s
  <2>1. \A i \in 1..cap : i <= d - 1 => i \in 1..(d - 1)
    BY <1>1, <1>2, SMT
  <2>2. Grown(w, cap) \in [1..cap -> Ptr \cup {Nil}]
    BY <1>2, <1>3, <2>1, Zenon DEF Grown
  <2>3. \A j \in 1..d : /\ j \in 1..cap
                        /\ j = d => ~(j <= d - 1) /\ j = (d - 1) + 1
                        /\ j # d => j <= d - 1 /\ j \in 1..(d - 1)
    BY <1>1, <1>2, SMT
  <2>4. \A j \in 1..d : Grown(w, cap)[j] = calls[j].s
    BY <1>1, <1>2, <1>3, <2>3, Zenon DEF Grown
  <2>5. Grown(w, cap) \in Seq(Ptr \cup {Nil}) /\ Len(Grown(w, cap)) = cap
    BY <1>2, <2>2, SMT
  <2>6. QED
    BY <2>4, <2>5
<1>5. QED
  BY <1>4

\* nextAncestry built in an array that append allocates (helpers.go:43).
LEMMA PredFalseGrowInv ==
    ASSUME IndInv, NEW w \in Walker, PredFalseGrow(w)
    PROVE  IndInv'
<1> DEFINE d == Depth(w)
           calls == stack[w]
<1>1. PICK extra \in 0..Slack :
        stack' = [stack EXCEPT ![w] =
          [calls EXCEPT ![d] =
            AtKids([Top(w) EXCEPT !.buf = Grown(w, Top(w).ancestry.len + 1 + extra)], d)]]
  BY DEF PredFalseGrow
<1> DEFINE cap == Top(w).ancestry.len + 1 + extra
           f == [Top(w) EXCEPT !.buf = Grown(w, cap)]
           g == AtKids(f, d)
<1>2. /\ stack[w] # <<>> /\ Top(w).pc = "pred" /\ Pred(w)
      /\ UNCHANGED <<schemaPool, heap, found>>
  BY DEF PredFalseGrow
<1>3. /\ calls \in Seq(Frame) /\ d \in Nat /\ d >= 1 /\ Top(w) \in Frame /\ Top(w) = calls[d]
      /\ Len(calls) = d /\ FrameOK(calls, d, heap, newToFldPath[w])
      /\ CallsOK(calls, heap, newToFldPath[w])
  BY <1>2, TopFacts DEF Top, Depth, IndInv, FramesOK
<1>4. /\ SliceHolds(calls, Top(w).ancestry, d - 1)
      /\ Top(w).ancestry.len = d - 1
      /\ cap \in Nat /\ cap >= d /\ Top(w).s \in Ptr
  <2>1. SliceHolds(calls, Top(w).ancestry, d - 1) /\ Top(w).ancestry.len = d - 1
    BY <1>3 DEF FrameOK, SliceHolds
  <2>2. extra \in Nat
    BY SlackAssumption, SMT
  <2>3. QED
    BY <1>3, <2>1, <2>2, SMT DEF Frame
<1>6. /\ Grown(w, cap) \in Seq(Ptr \cup {Nil}) /\ Len(Grown(w, cap)) = cap
      /\ \A j \in 1..d : Grown(w, cap)[j] = calls[j].s
  BY <1>2, <1>4, GrownHolds
<1>7. /\ f \in Frame /\ f.src = Top(w).src /\ f.s = Top(w).s
      /\ f.ancestry = Top(w).ancestry /\ f.buf = Grown(w, cap)
  BY <1>3, <1>6, WithBuf
<1>8. /\ g \in Frame /\ g.src = f.src /\ g.s = f.s /\ g.ancestry = f.ancestry
      /\ g.buf = f.buf /\ g.pc = "kids"
      /\ g.nextAncestry = [own |-> d, len |-> f.ancestry.len + 1]
  BY <1>3, <1>7, AtKidsFrame
<1>9. SliceHolds([calls EXCEPT ![d] = g], g.nextAncestry, d)
  <2> DEFINE new == [calls EXCEPT ![d] = g]
  <2> HIDE DEF g, f
  <2>1. /\ new[d] = g /\ \A i \in 1..d : new[i].s = calls[i].s
    BY <1>3, <1>7, <1>8, SMT
  <2>2. g.nextAncestry.own = d /\ g.nextAncestry.len = d
    BY <1>3, <1>4, <1>7, <1>8, SMT
  <2>3. d <= Len(new[d].buf) /\ \A j \in 1..d : new[d].buf[j] = new[j].s
    BY <1>4, <1>6, <1>7, <1>8, <2>1
  <2>4. d # 0 /\ d \in 1..d
    BY <1>3, SMT
  <2>5. QED
    BY <2>2, <2>3, <2>4 DEF SliceHolds
<1>10. stack' = [stack EXCEPT ![w] = [calls EXCEPT ![d] = g]]
  BY <1>1
<1>11. QED
  <2> HIDE DEF g, f, calls, d
  <2> QED
    BY <1>2, <1>3, <1>7, <1>8, <1>9, <1>10, PredFalseInv DEF d, calls

\* A comparator starts a walk at a root.
LEMMA SchemaHasInv ==
    ASSUME IndInv, NEW w \in Walker, SchemaHas(w)
    PROVE  IndInv'
<1>1. PICK r \in Root : stack' = [stack EXCEPT ![w] = <<NewFrame(r, r, NilSlice)>>]
  BY DEF SchemaHas
<1> DEFINE f == NewFrame(r, r, NilSlice)
<1>2. /\ newToFldPath' = [newToFldPath EXCEPT ![w] = [p \in Ptr |-> Nil]]
      /\ seen' = [seen EXCEPT ![w] = {}] /\ found' = [found EXCEPT ![w] = FALSE]
      /\ UNCHANGED <<schemaPool, heap>> /\ stack[w] = <<>> /\ TypeOK /\ CellsExclusive
  BY DEF SchemaHas, IndInv
<1>3. r \in Node /\ r \in Ptr /\ r \notin Cell /\ NilSlice \in Slice
  BY CellAssumption, SMT DEF Root, Ptr, NilSlice, Slice
<1>4. f \in Frame /\ f.src = r /\ f.s = r /\ f.ancestry = NilSlice /\ f.pc = "pred"
  BY <1>3, NewFrameFields
<1> HIDE DEF f
<1>5. <<f>> \in Seq(Frame) /\ Len(<<f>>) = 1 /\ <<f>>[1] = f
  BY <1>4, SMT
<1>6. stack'[w] = <<f>> /\ \A v \in Walker : v # w => stack'[v] = stack[v]
  BY <1>1, <1>2 DEF TypeOK, f
<1>7. TypeOK'
  BY <1>1, <1>2, <1>5 DEF TypeOK, f
<1>8. CellsExclusive'
  <2>1. \A v \in Walker : \A i \in 1..Len(stack'[v]) :
          stack'[v][i].s \in Cell => v # w /\ stack'[v] = stack[v]
    <3>1. \A i \in 1..Len(stack'[w]) : stack'[w][i].s = r
      BY <1>4, <1>5, <1>6, SMT
    <3>2. QED
      BY <3>1, <1>3, <1>6
  <2>2. QED
    BY <1>2, <2>1, ExclusiveStep DEF CellsExclusive, Depth
<1>9. CallsOK(stack'[w], heap', newToFldPath'[w])
  <2>1. f.ancestry.len = 0 /\ f.ancestry.own = 0
    BY <1>4, SMT DEF NilSlice
  <2>2. SliceHolds(<<f>>, f.ancestry, 0)
    BY <2>1, SMT DEF SliceHolds
  <2>3. FrameOK(<<f>>, 1, heap', newToFldPath'[w])
    BY <1>3, <1>4, <1>5, <2>2, SMT DEF FrameOK
  <2>4. \A i \in 1..1 : i = 1
    BY SMT
  <2>5. QED
    BY <1>5, <1>6, <2>3, <2>4 DEF CallsOK
<1>10. ASSUME NEW v \in Walker, v # w PROVE CallsOK(stack'[v], heap', newToFldPath'[v])
  <2>1. newToFldPath'[v] = newToFldPath[v]
    BY <1>2, <1>10 DEF TypeOK
  <2>2. QED
    BY <1>2, <1>6, <1>10, <2>1, OthersKept
<1>11. QED
  BY <1>7, <1>8, <1>9, <1>10 DEF IndInv, FramesOK

\* A cell that Get may return is in no active call: it was free, or it is new.
LEMMA GettableNotLive ==
    ASSUME CellsExclusive, NEW c \in Gettable
    PROVE  \A v \in Walker : \A i \in 1..Depth(v) : stack[v][i].s # c
  BY DEF Gettable, Live, CellsExclusive

\* schemaHasRecurse takes a cell, copies the schema into it and enters the call.
LEMMA RecurseInv ==
    ASSUME IndInv, NEW w \in Walker, schemaHasRecurse(w)
    PROVE  IndInv'
<1> DEFINE d == Depth(w)
<1>1. PICK k \in NextKids(w), schema \in Gettable :
         /\ schemaPool' = schemaPool \ {schema}
         /\ heap' = [heap EXCEPT ![schema] = k]
         /\ stack' = [stack EXCEPT ![w] =
              Append([stack[w] EXCEPT ![d] = Recursed(Top(w), k)],
                     NewFrame(k, schema, Top(w).nextAncestry))]
  BY DEF schemaHasRecurse
<1>2. /\ stack[w] # <<>> /\ Top(w).pc = "kids" /\ UNCHANGED <<newToFldPath, seen, found>>
      /\ TypeOK /\ CellsExclusive
  BY DEF schemaHasRecurse, IndInv
<1>3. /\ stack[w] \in Seq(Frame) /\ d \in Nat /\ d >= 1 /\ Top(w) \in Frame
      /\ Top(w) = stack[w][d] /\ Len(stack[w]) = d
      /\ FrameOK(stack[w], d, heap, newToFldPath[w])
      /\ CallsOK(stack[w], heap, newToFldPath[w])
  BY <1>2, TopFacts DEF Top, Depth, IndInv, FramesOK
<1> DEFINE g == Recursed(Top(w), k)
           f == NewFrame(k, schema, Top(w).nextAncestry)
           new == Append([stack[w] EXCEPT ![d] = g], f)
\* The child is a child of the schema this call was made for.
<1>4. k \in Node /\ Parent[k] = Top(w).src /\ schema \in Cell
  <2>1. k \in Node /\ Parent[k] = Deref(Top(w).s)
    BY DEF NextKids, ToDo, Kids
  <2>2. Deref(Top(w).s) = Top(w).src
    <3>1. CASE Top(w).s \in Cell
      BY <3>1, <1>3 DEF FrameOK, Deref
    <3>2. CASE Top(w).s \notin Cell
      <4>1. d = 1
        BY <3>2, <1>3, SMT DEF FrameOK
      <4>2. QED
        BY <3>2, <4>1, <1>3 DEF FrameOK, Deref
    <3>3. QED
      BY <3>1, <3>2
  <2>3. QED
    BY <2>1, <2>2 DEF Gettable
<1>5. /\ f \in Frame /\ f.src = k /\ f.s = schema /\ f.ancestry = Top(w).nextAncestry
      /\ f.pc = "pred"
  <2>1. Top(w).nextAncestry \in Slice /\ schema \in Ptr
    BY <1>3, <1>4, SMT DEF Frame, Ptr
  <2>2. QED
    BY <2>1, <1>4, NewFrameFields
<1>6. /\ g \in Frame /\ g.src = Top(w).src /\ g.s = Top(w).s /\ g.ancestry = Top(w).ancestry
      /\ g.buf = Top(w).buf /\ g.nextAncestry = Top(w).nextAncestry /\ g.pc = Top(w).pc
  BY <1>3, <1>4, RecursedFrame
<1> HIDE DEF f, g
<1>7. /\ new \in Seq(Frame) /\ Len(new) = d + 1 /\ new[d + 1] = f
      /\ \A i \in 1..d : new[i] = IF i = d THEN g ELSE stack[w][i]
  BY <1>3, <1>5, <1>6, SMT
<1>8. \A i \in 1..d : /\ new[i].src = stack[w][i].src /\ new[i].s = stack[w][i].s
                      /\ new[i].ancestry = stack[w][i].ancestry
                      /\ new[i].nextAncestry = stack[w][i].nextAncestry
                      /\ new[i].pc = stack[w][i].pc /\ new[i].buf = stack[w][i].buf
  BY <1>3, <1>6, <1>7
<1> HIDE DEF new
<1>9. stack'[w] = new /\ \A v \in Walker : v # w => stack'[v] = stack[v]
  BY <1>1, <1>2 DEF TypeOK, new, f, g
<1>10. TypeOK'
  <2>1. stack' \in [Walker -> Seq(Frame)]
    BY <1>1, <1>2, <1>7 DEF TypeOK, new, f, g
  <2>2. QED
    BY <2>1, <1>1, <1>2, <1>4 DEF TypeOK
<1>11. \A v \in Walker : \A i \in 1..Depth(v) : stack[v][i].s # schema
  BY <1>2, GettableNotLive
<1>12. \A c \in Cell : c # schema => heap'[c] = heap[c]
  BY <1>1, <1>2 DEF TypeOK
<1>13. CellsExclusive'
  \* Every call of the new state is an old one with its pointer, or the new call.
  <2>1. \A v \in Walker : \A i \in 1..Len(stack'[v]) :
          \/ i \in 1..Len(stack[v]) /\ stack'[v][i].s = stack[v][i].s
          \/ v = w /\ i = d + 1 /\ stack'[v][i].s = schema
    <3>1. \A i \in 1..(d + 1) : i \in 1..d \/ i = d + 1
      BY <1>3, SMT
    <3>2. QED
      BY <3>1, <1>3, <1>5, <1>7, <1>8, <1>9
  <2>2. schema \notin schemaPool' /\ schemaPool' \subseteq schemaPool
    BY <1>1
  <2>3. QED
    <3> SUFFICES ASSUME NEW v \in Walker, NEW u \in Walker, NEW i \in 1..Len(stack'[v]),
                        stack'[v][i].s \in Cell
                 PROVE  /\ stack'[v][i].s \notin schemaPool'
                        /\ \A j \in 1..Len(stack'[u]) :
                             stack'[v][i].s = stack'[u][j].s => v = u /\ i = j
      BY DEF CellsExclusive, Depth
    <3>1. stack'[v][i].s \notin schemaPool'
      BY <2>1, <2>2, <1>2 DEF CellsExclusive, Depth
    <3>2. ASSUME NEW j \in 1..Len(stack'[u]), stack'[v][i].s = stack'[u][j].s
          PROVE  v = u /\ i = j
      <4>1. CASE stack'[v][i].s = schema
        BY <4>1, <3>2, <2>1, <1>11 DEF Depth
      <4>2. CASE stack'[v][i].s # schema
        <5>1. /\ i \in 1..Len(stack[v]) /\ stack'[v][i].s = stack[v][i].s
              /\ j \in 1..Len(stack[u]) /\ stack'[u][j].s = stack[u][j].s
          BY <4>2, <3>2, <2>1
        <5>2. stack[v][i].s \in Cell /\ stack[v][i].s = stack[u][j].s
          BY <5>1, <3>2
        <5>3. QED
          BY <5>1, <5>2, <1>2 DEF CellsExclusive, Depth
      <4>3. QED
        BY <4>1, <4>2
    <3>3. QED
      BY <3>1, <3>2
<1>14. CallsOK(stack'[w], heap', newToFldPath'[w])
  <2>1. \A i \in 1..d : FrameOK(new, i, heap', newToFldPath'[w])
    <3>1. \A i \in 1..d : stack[w][i].pc = "kids"
      <4>1. \A i \in 1..d : i = d \/ i < d
        BY <1>3, SMT
      <4>2. QED
        BY <4>1, <1>2, <1>3 DEF CallsOK, FrameOK
    <3>2. \A i \in 1..d : stack[w][i].s # schema
      BY <1>11
    <3>3. d <= Len(stack[w]) /\ d <= Len(new)
      BY <1>3, <1>7, SMT
    <3> DEFINE old == stack[w]
               mem2 == heap'
               paths == newToFldPath[w]
               paths2 == newToFldPath'[w]
    <3>4. \A i \in 1..d :
              /\ new[i].src = old[i].src /\ new[i].s = old[i].s
              /\ new[i].ancestry = old[i].ancestry
              /\ new[i].nextAncestry = old[i].nextAncestry /\ new[i].pc = old[i].pc
              /\ Len(new[i].buf) = Len(old[i].buf)
              /\ \A j \in 1..Len(old[i].buf) : j <= d => new[i].buf[j] = old[i].buf[j]
              /\ old[i].s \in Cell => mem2[old[i].s] = heap[old[i].s]
              /\ old[i].pc = "kids" => paths2[old[i].s] = paths[old[i].s]
              /\ i < Len(new) => old[i].pc = "kids"
      BY <1>2, <1>8, <1>12, <3>1, <3>2
    <3>5. /\ old \in Seq(Frame) /\ d \in Nat /\ CallsOK(old, heap, paths)
          /\ new \in Seq(Frame) /\ d <= Len(old) /\ d <= Len(new)
      BY <1>3, <1>7, <3>3
    <3> HIDE DEF d, old, mem2, paths, paths2
    <3>6. \A i \in 1..d : FrameOK(new, i, mem2, paths2)
      BY <3>4, <3>5, CallsKept
    <3>7. QED
      BY <3>6 DEF mem2, paths2
  <2>2. FrameOK(new, d + 1, heap', newToFldPath'[w])
    <3>1. SliceHolds(stack[w], Top(w).nextAncestry, d)
      BY <1>2, <1>3 DEF FrameOK
    <3>2. d <= Len(stack[w]) /\ d <= Len(new)
      BY <1>3, <1>7, SMT
    <3>3. SliceHolds(new, Top(w).nextAncestry, d)
      BY <1>3, <1>7, <1>8, <3>1, <3>2, SliceKept
    <3>4. (d + 1) - 1 = d /\ ~(d + 1 < Len(new)) /\ d + 1 # 1 /\ d \in 1..d
      BY <1>3, <1>7, SMT
    <3>5. heap'[schema] = k
      BY <1>1, <1>2, <1>4 DEF TypeOK
    <3>6. new[d].src = Top(w).src
      BY <3>4, <1>3, <1>8
    <3>7. QED
      BY <1>4, <1>5, <1>7, <3>3, <3>4, <3>5, <3>6 DEF FrameOK
  <2>3. \A i \in 1..(d + 1) : i \in 1..d \/ i = d + 1
    BY <1>3, SMT
  <2>4. QED
    BY <1>7, <1>9, <2>1, <2>2, <2>3 DEF CallsOK
<1>15. ASSUME NEW v \in Walker, v # w PROVE CallsOK(stack'[v], heap', newToFldPath'[v])
  <2>1. \A i \in 1..Len(stack[v]) :
           stack[v][i].s \in Cell => heap'[stack[v][i].s] = heap[stack[v][i].s]
    BY <1>11, <1>12 DEF Depth
  <2>2. QED
    BY <1>2, <1>9, <1>15, <2>1, OthersKept
<1>16. QED
  BY <1>10, <1>13, <1>14, <1>15 DEF IndInv, FramesOK

\* A call returns and gives its cell back.
LEMMA ReturnInv ==
    ASSUME IndInv, NEW w \in Walker, Return(w)
    PROVE  IndInv'
<1> DEFINE d == Depth(w)
           new == Below(w)
<1>1. /\ stack[w] # <<>> /\ stack' = [stack EXCEPT ![w] = new]
      /\ schemaPool' = schemaPool \cup ({Top(w).s} \cap Cell)
      /\ UNCHANGED <<heap, newToFldPath, seen, found>> /\ TypeOK /\ CellsExclusive
  BY DEF Return, IndInv
<1>2. /\ stack[w] \in Seq(Frame) /\ d \in Nat /\ d >= 1 /\ Top(w) \in Frame
      /\ Top(w) = stack[w][d] /\ Len(stack[w]) = d
      /\ CallsOK(stack[w], heap, newToFldPath[w])
  BY <1>1, TopFacts DEF Top, Depth, IndInv, FramesOK
<1>3. /\ new \in Seq(Frame) /\ Len(new) = d - 1
      /\ \A i \in 1..(d - 1) : new[i] = stack[w][i]
  BY <1>2, SMT DEF Below
<1> HIDE DEF new
<1>4. stack'[w] = new /\ \A v \in Walker : v # w => stack'[v] = stack[v]
  BY <1>1 DEF TypeOK
<1>5. TypeOK'
  BY <1>1, <1>3 DEF TypeOK
<1>6. CellsExclusive'
  <2>1. \A v \in Walker : \A i \in 1..Len(stack'[v]) :
          /\ i \in 1..Len(stack[v]) /\ stack'[v][i].s = stack[v][i].s
          /\ v = w => i # d
    <3>1. \A i \in 1..(d - 1) : i \in 1..d /\ i # d
      BY <1>2, SMT
    <3>2. QED
      BY <3>1, <1>2, <1>3, <1>4
  <2>2. d \in 1..Len(stack[w])
    BY <1>2, SMT
  <2>3. ASSUME NEW v \in Walker, NEW i \in 1..Len(stack'[v]), stack'[v][i].s \in Cell
        PROVE  stack'[v][i].s \notin schemaPool'
    <3>1. stack[v][i].s \in Cell /\ i \in 1..Len(stack[v]) /\ (v = w => i # d)
      BY <2>1, <2>3
    <3>2. stack[v][i].s \notin schemaPool /\ stack[v][i].s # stack[w][d].s
      BY <3>1, <2>2, <1>1 DEF CellsExclusive, Depth
    <3>3. QED
      BY <3>2, <2>1, <1>1, <1>2
  <2>4. QED
    BY <1>1, <2>1, <2>3, ExclusiveStep
<1>7. CallsOK(stack'[w], heap', newToFldPath'[w])
  <2>1. d - 1 \in Nat /\ d - 1 <= Len(stack[w]) /\ d - 1 <= Len(new)
    BY <1>2, <1>3, SMT
  <2>2. \A i \in 1..(d - 1) : stack[w][i].pc = "kids"
    <3>1. \A i \in 1..(d - 1) : i \in 1..Len(stack[w]) /\ i < Len(stack[w])
      BY <1>2, SMT
    <3>2. QED
      BY <3>1, <1>2 DEF CallsOK, FrameOK
  <2>3. \A i \in 1..(d - 1) :
              /\ new[i].src = stack[w][i].src /\ new[i].s = stack[w][i].s
              /\ new[i].ancestry = stack[w][i].ancestry
              /\ new[i].nextAncestry = stack[w][i].nextAncestry
              /\ new[i].pc = stack[w][i].pc
              /\ Len(new[i].buf) = Len(stack[w][i].buf)
              /\ \A k \in 1..Len(stack[w][i].buf) :
                    k <= d - 1 => new[i].buf[k] = stack[w][i].buf[k]
              /\ stack[w][i].s \in Cell => heap'[stack[w][i].s] = heap[stack[w][i].s]
              /\ stack[w][i].pc = "kids" =>
                    newToFldPath'[w][stack[w][i].s] = newToFldPath[w][stack[w][i].s]
              /\ i < Len(new) => stack[w][i].pc = "kids"
    BY <1>1, <1>3, <2>2
  <2>4. \A i \in 1..(d - 1) : FrameOK(new, i, heap', newToFldPath'[w])
    BY <1>2, <1>3, <2>1, <2>3, CallsKept, ZenonT(60)
  <2>5. QED
    BY <1>3, <1>4, <2>4 DEF CallsOK
<1>8. ASSUME NEW v \in Walker, v # w PROVE CallsOK(stack'[v], heap', newToFldPath'[v])
  BY <1>1, <1>4, <1>8, OthersKept
<1>9. QED
  BY <1>5, <1>6, <1>7, <1>8 DEF IndInv, FramesOK

\* The garbage collector takes a free cell.
LEMMA PoolDropInv ==
    ASSUME IndInv, PoolDrop
    PROVE  IndInv'
<1>1. schemaPool' \subseteq schemaPool /\ UNCHANGED <<stack, heap, newToFldPath, seen, found>>
  BY DEF PoolDrop
<1>2. TypeOK'
  BY <1>1 DEF IndInv, TypeOK
<1>3. CellsExclusive'
  BY <1>1, ExclusiveKept DEF IndInv
<1>4. QED
  BY <1>1, <1>2, <1>3 DEF IndInv, FramesOK

-----------------------------------------------------------------------------
\* Before any walk IndInv holds.
LEMMA InitInv == Init => IndInv
<1> SUFFICES ASSUME Init PROVE IndInv
  OBVIOUS
<1>1. TypeOK
  <2>1. <<>> \in Seq(Frame)
    BY SMT
  <2>2. QED
    BY <2>1 DEF Init, TypeOK
<1>2. \A w \in Walker : 1..Len(stack[w]) = {}
  <2>1. \A w \in Walker : stack[w] = <<>>
    BY DEF Init
  <2>2. 1..Len(<<>>) = {}
    BY SMT
  <2>3. QED
    BY <2>1, <2>2
<1>3. CellsExclusive
  BY <1>2 DEF CellsExclusive, Depth
<1>4. FramesOK
  BY <1>2 DEF FramesOK, CallsOK
<1>5. QED
  BY <1>1, <1>3, <1>4 DEF IndInv

\* Every step preserves IndInv.
LEMMA NextInv == IndInv /\ [Next]_vars => IndInv'
<1> SUFFICES ASSUME IndInv, [Next]_vars PROVE IndInv'
  OBVIOUS
<1>1. ASSUME NEW w \in Walker, SchemaHas(w) PROVE IndInv'
  BY <1>1, SchemaHasInv
<1>2. ASSUME NEW w \in Walker, PredAppends(w) PROVE IndInv'
  BY <1>2, PredAppendsInv
<1>3. ASSUME NEW w \in Walker, PredTrue(w) PROVE IndInv'
  BY <1>3, PredTrueInv
<1>4. ASSUME NEW w \in Walker, PredFalseInPlace(w) PROVE IndInv'
  BY <1>4, PredFalseInPlaceInv
<1>5. ASSUME NEW w \in Walker, PredFalseGrow(w) PROVE IndInv'
  BY <1>5, PredFalseGrowInv
<1>6. ASSUME NEW w \in Walker, schemaHasRecurse(w) PROVE IndInv'
  BY <1>6, RecurseInv
<1>7. ASSUME NEW w \in Walker, Return(w) PROVE IndInv'
  BY <1>7, ReturnInv
<1>8. CASE PoolDrop
  BY <1>8, PoolDropInv
<1>9. CASE UNCHANGED vars
  <2>1. UNCHANGED <<stack, schemaPool, heap, newToFldPath, seen, found>>
    BY <1>9 DEF vars
  <2>2. TypeOK'
    BY <2>1 DEF IndInv, TypeOK
  <2>3. CellsExclusive'
    BY <2>1, ExclusiveKept DEF IndInv
  <2>4. QED
    BY <2>1, <2>2, <2>3 DEF IndInv, FramesOK
<1>10. QED
  BY <1>1, <1>2, <1>3, <1>4, <1>5, <1>6, <1>7, <1>8, <1>9 DEF Next, Step

\* IndInv holds in every reachable state of the walk.
THEOREM InductiveInvariant == Spec => []IndInv
  BY InitInv, NextInv, PTL DEF Spec

\* The state of the walk always has its type: every frame, slice and array is well
\* formed and every copy is a copy of a schema of the tree.
THEOREM TypeCorrect == Spec => []TypeOK
<1>1. IndInv => TypeOK
  BY DEF IndInv
<1>2. QED
  BY <1>1, InductiveInvariant, PTL

\* Two active calls never share a pooled cell, and no cell in use is in the pool
\* (schemaPool.Get and the deferred Put, helpers.go:117-118), however many
\* goroutines walk at once.
THEOREM PoolExclusive == Spec => []CellsExclusive
<1>1. IndInv => CellsExclusive
  BY DEF IndInv
<1>2. QED
  BY <1>1, InductiveInvariant, PTL

\* What a call reads through its ancestry and its pointer.
LEMMA AncestryRead ==
    ASSUME IndInv, NEW w \in Walker, stack[w] # <<>>
    PROVE  /\ Top(w).ancestry.len = Depth(w) - 1
           /\ \A i \in 1..Depth(w) :
                /\ stack[w][i].src \in Node
                /\ Deref(stack[w][i].s) = stack[w][i].src
                /\ i = 1 => stack[w][i].src \in Root
                /\ i > 1 => Parent[stack[w][i].src] = stack[w][i - 1].src
                /\ i < Depth(w) =>
                     /\ Array(w, Top(w).ancestry)[i] = stack[w][i].s
                     /\ newToFldPath[w][stack[w][i].s] = stack[w][i].src
<1> DEFINE d == Depth(w)
           anc == Top(w).ancestry
<1>1. /\ stack[w] \in Seq(Frame) /\ d \in Nat /\ d >= 1 /\ Len(stack[w]) = d
      /\ Top(w) = stack[w][d] /\ CallsOK(stack[w], heap, newToFldPath[w])
      /\ SliceHolds(stack[w], anc, d - 1)
  BY TopFacts DEF Top, Depth, IndInv, FramesOK, FrameOK
<1>2. anc.len = d - 1
  BY <1>1 DEF SliceHolds
<1>3. ASSUME NEW i \in 1..d
      PROVE  /\ stack[w][i].src \in Node
             /\ Deref(stack[w][i].s) = stack[w][i].src
             /\ i = 1 => stack[w][i].src \in Root
             /\ i > 1 => Parent[stack[w][i].src] = stack[w][i - 1].src
             /\ i < d => newToFldPath[w][stack[w][i].s] = stack[w][i].src
  <2>1. FrameOK(stack[w], i, heap, newToFldPath[w]) /\ i \in Nat /\ stack[w][i] \in Frame
        /\ (i = 1 \/ i > 1)
    BY <1>1, SMT DEF CallsOK
  <2>2. stack[w][i].src \in Node
    BY <2>1, SMT DEF Frame
  <2>3. Deref(stack[w][i].s) = stack[w][i].src
    BY <2>1 DEF FrameOK, Deref
  <2>4. QED
    BY <2>1, <2>2, <2>3, <1>1 DEF FrameOK
<1>4. ASSUME NEW i \in 1..d, i < d PROVE Array(w, anc)[i] = stack[w][i].s
  <2>1. d - 1 > 0 /\ i \in 1..(d - 1)
    BY <1>1, <1>4, SMT
  <2>2. anc.own \in 1..(d - 1) /\ stack[w][anc.own].buf[i] = stack[w][i].s
    BY <1>1, <2>1 DEF SliceHolds
  <2>3. anc.own # 0
    BY <2>2, <1>1, SMT
  <2>4. QED
    BY <2>2, <2>3 DEF Array
<1>5. QED
  BY <1>2, <1>3, <1>4

\* Every call of a predicate is given the schema its path names and exactly the
\* ancestors of that schema, root first (helpers.go:26), whatever the other
\* goroutines do to the pool and however append allocates.
THEOREM PredicateSeesAncestry == Spec => []AncestryExact
<1>1. IndInv => AncestryExact
  <2> SUFFICES ASSUME IndInv, NEW w \in Walker, AtPred(w)
               PROVE  LET anc == Top(w).ancestry
                          view == [i \in 1..Depth(w) |->
                                     IF i < Depth(w) THEN At(w, anc, i) ELSE Deref(Top(w).s)]
                      IN  /\ anc.len = Depth(w) - 1
                          /\ view[1] \in Root
                          /\ \A i \in 2..Depth(w) : Parent[view[i]] = view[i - 1]
                          /\ view[Depth(w)] = Top(w).src
    BY DEF AncestryExact
  <2> DEFINE d == Depth(w)
             anc == Top(w).ancestry
             view == [i \in 1..d |-> IF i < d THEN At(w, anc, i) ELSE Deref(Top(w).s)]
  <2>1. /\ stack[w] # <<>> /\ d \in Nat /\ d >= 1 /\ Top(w) = stack[w][d]
    BY TopFacts DEF AtPred, Top
  <2>2. \A i \in 1..d : view[i] = stack[w][i].src
    <3>1. ASSUME NEW i \in 1..d PROVE view[i] = stack[w][i].src
      <4>1. CASE i < d
        BY <4>1, <2>1, AncestryRead DEF At
      <4>2. CASE ~(i < d)
        <5>1. i = d
          BY <4>2, <2>1, SMT
        <5>2. QED
          BY <5>1, <4>2, <2>1, AncestryRead
      <4>3. QED
        BY <4>1, <4>2
    <3>2. QED
      BY <3>1
  <2> HIDE DEF view
  <2>3. 1 \in 1..d /\ d \in 1..d
        /\ \A i \in 2..d : i \in 1..d /\ i - 1 \in 1..d /\ i > 1
    BY <2>1, SMT
  <2>4. anc.len = d - 1
    BY <2>1, AncestryRead
  <2>5. view[1] \in Root
    BY <2>1, <2>2, <2>3, AncestryRead
  <2>6. \A i \in 2..d : Parent[view[i]] = view[i - 1]
    BY <2>1, <2>2, <2>3, AncestryRead
  <2>7. view[d] = Top(w).src
    BY <2>1, <2>2, <2>3
  <2>8. QED
    BY <2>4, <2>5, <2>6, <2>7 DEF view
<1>2. QED
  BY <1>1, InductiveInvariant, PTL

\* NoNewRequiredFields finds the path of every ancestor under the ancestor's
\* pointer, although pointers are recycled during its walk.
THEOREM PathsExact == Spec => []PathsOfAncestors
<1>1. IndInv => PathsOfAncestors
  <2> SUFFICES ASSUME IndInv, NEW w \in Walker, AtPred(w), NEW i \in 1..(Depth(w) - 1)
               PROVE  newToFldPath[w][Array(w, Top(w).ancestry)[i]] = At(w, Top(w).ancestry, i)
    BY DEF PathsOfAncestors
  <2>1. stack[w] # <<>> /\ Depth(w) \in Nat /\ Depth(w) >= 1
    BY TopFacts DEF AtPred
  <2>2. i \in 1..Depth(w) /\ i < Depth(w)
    BY <2>1, SMT
  <2>3. QED
    BY <2>1, <2>2, AncestryRead DEF At
<1>2. QED
  BY <1>1, InductiveInvariant, PTL
=============================================================================
