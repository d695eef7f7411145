----------------------------- MODULE SchemaWalk -----------------------------
(***************************************************************************)
(* SchemaHas and schemaHasRecurse (pkg/manifestcomparators/helpers.go),    *)
(* the depth-first walk every comparator is built on, at the level of the  *)
(* memory it works in.                                                     *)
(*                                                                         *)
(* Each call of schemaHasRecurse takes a JSONSchemaProps cell from a       *)
(* sync.Pool shared by the whole process, copies the schema into it, hands *)
(* the POINTER to the predicate and to the ancestry of every deeper call,  *)
(* and gives the cell back when it returns.  The ancestry is a Go slice    *)
(* grown with append, so calls of different depths share backing arrays.   *)
(* The admission server walks on many goroutines at once.  This module     *)
(* asks whether the predicate still always sees the right schema under the *)
(* right ancestors.                                                        *)
(*                                                                         *)
(* A schema is abstracted to a node of a tree; a cell to the node it holds *)
(* a copy of; a field path to the node it was computed for.                *)
(***************************************************************************)
EXTENDS Naturals, Sequences, FiniteSets

CONSTANTS
    Walker,     \* goroutines that run comparators
    Node,       \* the JSONSchemaProps values of the decoded CRDs
    Parent,     \* the schema each one is nested in, Nil for a version's root
    Rank,       \* the loop of SchemaHas that reaches a schema from its parent,
                \* and its index there; the entries of one Go map share a rank
    Cell,       \* addresses the pool can hand out
    Slack,      \* spare capacity append may add to an array it allocates
    Nil

ASSUME TreeAssumption ==
    /\ IsFiniteSet(Node)
    /\ Nil \notin Node
    /\ Parent \in [Node -> Node \cup {Nil}]
    /\ Rank \in [Node -> Nat]

ASSUME CellAssumption == /\ Cell \cap Node = {}
                         /\ Nil \notin Cell

ASSUME SlackAssumption == Slack \in Nat

Root == {n \in Node : Parent[n] = Nil}
Kids(n) == {k \in Node : Parent[k] = n}

\* The root schema is walked in place, every other one in a pooled copy.
Ptr == Cell \cup Node

VARIABLES
    stack,        \* stack[w]: the active calls of SchemaHas, outermost first
    schemaPool,   \* the free cells of the process
    heap,         \* heap[c]: the node cell c holds a copy of
    newToFldPath, \* newToFldPath[w]: NoNewRequiredFields' map from pointer to path
    seen,         \* seen[w]: the schemas the predicate was called with
    found         \* found[w]: the predicate returned true in this walk

vars == <<stack, schemaPool, heap, newToFldPath, seen, found>>

(***************************************************************************)
(* A slice is the call that allocated its backing array (0 for nil) and    *)
(* its length.  The array lives in the frame of that call: only that call  *)
(* and deeper ones hold slices of it.                                      *)
(***************************************************************************)
Slice == [own : Nat, len : Nat]
NilSlice == [own |-> 0, len |-> 0]

Frame == [src          : Node,            \* the parameter s of schemaHasRecurse, and fldPath
          s            : Ptr,             \* the pointer SchemaHas works on
          ancestry     : Slice,
          nextAncestry : Slice,
          buf          : Seq(Ptr \cup {Nil}), \* the array append allocated in this call
          done         : SUBSET Node,     \* the children already recursed into
          pc           : {"pred", "kids"}]

NewFrame(src, s, ancestry) ==
    [src |-> src, s |-> s, ancestry |-> ancestry, nextAncestry |-> NilSlice,
     buf |-> <<>>, done |-> {}, pc |-> "pred"]

Deref(p) == IF p \in Cell THEN heap[p] ELSE p

Depth(w) == Len(stack[w])
Top(w) == stack[w][Depth(w)]
Below(w) == SubSeq(stack[w], 1, Depth(w) - 1)

Array(w, slice) == IF slice.own = 0 THEN <<>> ELSE stack[w][slice.own].buf

\* The schema the i-th element of a slice points to.
At(w, slice, i) == Deref(Array(w, slice)[i])

\* Mutant of Live: a cell is given back as soon as its call has recursed.
LiveTopOnly(c) == \E w \in Walker : Depth(w) > 0 /\ Top(w).s = c

Live(c) == \E w \in Walker : \E i \in 1..Depth(w) : stack[w][i].s = c

-----------------------------------------------------------------------------
Init ==
    /\ stack = [w \in Walker |-> <<>>]
    /\ schemaPool = {}
    /\ heap = [c \in Cell |-> Nil]
    /\ newToFldPath = [w \in Walker |-> [p \in Ptr |-> Nil]]
    /\ seen = [w \in Walker |-> {}]
    /\ found = [w \in Walker |-> FALSE]

\* A comparator calls SchemaHas on the root schema of a version, with nil ancestry.
SchemaHas(w) ==
    /\ stack[w] = <<>>
    /\ \E r \in Root : stack' = [stack EXCEPT ![w] = <<NewFrame(r, r, NilSlice)>>]
    /\ newToFldPath' = [newToFldPath EXCEPT ![w] = [p \in Ptr |-> Nil]]
    /\ seen' = [seen EXCEPT ![w] = {}]
    /\ found' = [found EXCEPT ![w] = FALSE]
    /\ UNCHANGED <<schemaPool, heap>>

\* Mutant of Pred: the predicate keeps the pointer it was given.
PredKeepsPointer(w) ==
    /\ newToFldPath' = [newToFldPath EXCEPT ![w][Top(w).s] = Top(w).src]
    /\ seen' = [seen EXCEPT ![w] = @ \cup {Top(w).s}]

\* Mutant of Pred: a pointer that has a path already keeps it.
PredFirstPathWins(w) ==
    /\ newToFldPath' = IF newToFldPath[w][Top(w).s] # Nil THEN newToFldPath
                       ELSE [newToFldPath EXCEPT ![w][Top(w).s] = Top(w).src]
    /\ seen' = [seen EXCEPT ![w] = @ \cup {Deref(Top(w).s)}]

\* The predicate runs: it notes the path of the pointer it was given.
Pred(w) ==
    /\ newToFldPath' = [newToFldPath EXCEPT ![w][Top(w).s] = Top(w).src]
    /\ seen' = [seen EXCEPT ![w] = @ \cup {Deref(Top(w).s)}]

HasRoom(w) == Top(w).ancestry.len < Len(Array(w, Top(w).ancestry))

\* append(ancestry, s) with room left writes into the shared array.
StoreInPlace(w) ==
    LET own == Top(w).ancestry.own
        array == [stack[w][own].buf EXCEPT ![Top(w).ancestry.len + 1] = Top(w).s]
    IN  [stack[w] EXCEPT ![own] = [stack[w][own] EXCEPT !.buf = array]]

\* Mutant of Grown: the slice is copied, s is not added.
GrownWithoutSelf(w, cap) ==
    [i \in 1..cap |-> IF i <= Top(w).ancestry.len THEN Array(w, Top(w).ancestry)[i] ELSE Nil]

\* append(ancestry, s) without room copies the slice into a larger array.
Grown(w, cap) ==
    [i \in 1..cap |-> IF i <= Top(w).ancestry.len THEN Array(w, Top(w).ancestry)[i]
                      ELSE IF i = Top(w).ancestry.len + 1 THEN Top(w).s ELSE Nil]

\* Mutant of AtKids: children get the ancestry of their parent.
AtKidsSameAncestry(f, own) == [f EXCEPT !.pc = "kids", !.nextAncestry = f.ancestry]

AtKids(f, own) ==
    [f EXCEPT !.pc = "kids", !.nextAncestry = [own |-> own, len |-> f.ancestry.len + 1]]

\* The predicate of MustNotExceedCostBudget appends s to the ancestry it was
\* given, for extractCELContext, and drops the result.
PredAppends(w) ==
    /\ stack[w] # <<>>
    /\ Top(w).pc = "pred"
    /\ ~found[w]
    /\ HasRoom(w)
    /\ stack' = [stack EXCEPT ![w] = StoreInPlace(w)]
    /\ UNCHANGED <<schemaPool, heap, newToFldPath, seen, found>>

PredTrue(w) ==
    /\ stack[w] # <<>>
    /\ Top(w).pc = "pred"
    /\ ~found[w]
    /\ Pred(w)
    /\ found' = [found EXCEPT ![w] = TRUE]
    /\ UNCHANGED <<stack, schemaPool, heap>>

\* The predicate returns false and nextAncestry is built in place ...
PredFalseInPlace(w) ==
    /\ stack[w] # <<>>
    /\ Top(w).pc = "pred"
    /\ ~found[w]
    /\ Pred(w)
    /\ HasRoom(w)
    /\ stack' = [stack EXCEPT ![w] =
         [StoreInPlace(w) EXCEPT ![Depth(w)] =
            AtKids(StoreInPlace(w)[Depth(w)], Top(w).ancestry.own)]]
    /\ UNCHANGED <<schemaPool, heap, found>>

\* ... or in an array that this call allocates.
PredFalseGrow(w) ==
    /\ stack[w] # <<>>
    /\ Top(w).pc = "pred"
    /\ ~found[w]
    /\ Pred(w)
    /\ ~HasRoom(w)
    /\ \E extra \in 0..Slack :
         LET array == Grown(w, Top(w).ancestry.len + 1 + extra)
         IN  stack' = [stack EXCEPT ![w] =
               [stack[w] EXCEPT ![Depth(w)] =
                  AtKids([Top(w) EXCEPT !.buf = array], Depth(w))]]
    /\ UNCHANGED <<schemaPool, heap, found>>

\* Mutant of ToDo: the walk is over after the first child.
ToDoFirstOnly(w) == IF Top(w).done # {} THEN {} ELSE Kids(Deref(Top(w).s))

\* What the loops of SchemaHas still have to visit below the schema in s, and
\* the children that may come next: loops run in order, map entries in any order.
ToDo(w) == Kids(Deref(Top(w).s)) \ Top(w).done
NextKids(w) == {k \in ToDo(w) : \A other \in ToDo(w) : Rank[k] <= Rank[other]}

\* sync.Pool.Get: some free cell, or a new one.  The address of a cell the
\* garbage collector took may come back, even while a stale map key names it.
Gettable == {c \in Cell : c \in schemaPool \/ ~Live(c)}

\* Mutant of Recursed: a loop does not advance.
RecursedForgets(f, k) == f

Recursed(f, k) == [f EXCEPT !.done = f.done \cup {k}]

schemaHasRecurse(w) ==
    /\ stack[w] # <<>>
    /\ Top(w).pc = "kids"
    /\ ~found[w]
    /\ \E k \in NextKids(w), schema \in Gettable :
         /\ schemaPool' = schemaPool \ {schema}
         /\ heap' = [heap EXCEPT ![schema] = k]
         /\ stack' = [stack EXCEPT ![w] =
              Append([stack[w] EXCEPT ![Depth(w)] = Recursed(Top(w), k)],
                     NewFrame(k, schema, Top(w).nextAncestry))]
    /\ UNCHANGED <<newToFldPath, seen, found>>

\* SchemaHas returns: true as soon as the predicate did, false after the last
\* child.  The deferred Put gives the cell back; the root is not pooled.
Return(w) ==
    /\ stack[w] # <<>>
    /\ found[w] \/ (Top(w).pc = "kids" /\ ToDo(w) = {})
    /\ stack' = [stack EXCEPT ![w] = Below(w)]
    /\ schemaPool' = schemaPool \cup ({Top(w).s} \cap Cell)
    /\ UNCHANGED <<heap, newToFldPath, seen, found>>

\* The garbage collector empties a sync.Pool whenever it likes.
PoolDrop ==
    /\ \E c \in schemaPool : schemaPool' = schemaPool \ {c}
    /\ UNCHANGED <<stack, heap, newToFldPath, seen, found>>

Step(w) ==
    \/ PredTrue(w)
    \/ PredFalseInPlace(w)
    \/ PredFalseGrow(w)
    \/ schemaHasRecurse(w)
    \/ Return(w)

Next == \/ \E w \in Walker : SchemaHas(w) \/ PredAppends(w) \/ Step(w)
        \/ PoolDrop

Spec == Init /\ [][Next]_vars

-----------------------------------------------------------------------------
\* The variables keep their types; the predicate only ever sees schemas of the tree.
TypeOK ==
    /\ stack \in [Walker -> Seq(Frame)]
    /\ schemaPool \in SUBSET Cell
    /\ heap \in [Cell -> Node \cup {Nil}]
    /\ newToFldPath \in [Walker -> [Ptr -> Node \cup {Nil}]]
    /\ seen \in [Walker -> SUBSET (Node \cup {Nil})]
    /\ found \in [Walker -> BOOLEAN]

\* No two active calls, of one walk or of two, work in the same pooled cell, and
\* no active call's cell is free for another Get (helpers.go:117-118).
CellsExclusive ==
    \A w, v \in Walker : \A i \in 1..Depth(w) :
        stack[w][i].s \in Cell =>
            /\ stack[w][i].s \notin schemaPool
            /\ \A j \in 1..Depth(v) :
                 stack[w][i].s = stack[v][j].s => w = v /\ i = j

AtPred(w) == stack[w] # <<>> /\ Top(w).pc = "pred"

\* What the predicate is given is what helpers.go:26 promises: s is a copy of the
\* schema the path names, ancestry[0] is a root, each next element is nested in
\* the one before it and s is nested in the last one.
AncestryExact ==
    \A w \in Walker : AtPred(w) =>
        LET anc == Top(w).ancestry
            view == [i \in 1..Depth(w) |-> IF i < Depth(w) THEN At(w, anc, i) ELSE Deref(Top(w).s)]
        IN  /\ anc.len = Depth(w) - 1
            /\ view[1] \in Root
            /\ \A i \in 2..Depth(w) : Parent[view[i]] = view[i - 1]
            /\ view[Depth(w)] = Top(w).src

\* newToFldPath, keyed by pointers to cells that are reused during the walk, gives
\* every ancestor of the schema at hand its own path, which isFieldOptional and
\* isAnyAncestorNewAndNullable rely on.
PathsOfAncestors ==
    \A w \in Walker : AtPred(w) =>
        LET anc == Top(w).ancestry
        IN  \A i \in 1..(Depth(w) - 1) :
                newToFldPath[w][Array(w, anc)[i]] = At(w, anc, i)

\* The predicate is called with a schema at most once per walk.
PredOnce == \A w \in Walker : AtPred(w) /\ ~found[w] => Deref(Top(w).s) \notin seen[w]

\* A walk that returned false has shown the predicate every schema of the version.
FalseMeansAll ==
    \A w \in Walker : stack[w] = <<>> /\ ~found[w] =>
        \A n \in seen[w] : Kids(n) \subseteq seen[w]

(***************************************************************************)
(* The walk as its callers see it: the chain of schemas read through the   *)
(* ancestry slice and the cells it points to, never from the tree.         *)
(***************************************************************************)
OpenChain(w) ==
    [i \in 1..Depth(w) |->
        IF Top(w).pc = "kids" THEN At(w, Top(w).nextAncestry, i)
        ELSE IF i < Depth(w) THEN At(w, Top(w).ancestry, i) ELSE Deref(Top(w).s)]

Visit == INSTANCE SchemaVisit WITH open <- [w \in Walker |-> OpenChain(w)]

\* Pooled cells, shared arrays and the other goroutines are invisible to a
\* predicate: the walk implements a depth-first visit of the tree.
ImplementsVisit == Visit!Spec

\* How much of its walk a goroutine has still to do: a schema costs it at most
\* three steps, into the call, over the predicate and out again.
StepsLeft(w) ==
    IF found[w] THEN Depth(w)
    ELSE 3 * Cardinality(Node \ seen[w]) + Depth(w) + (IF AtPred(w) THEN 0 ELSE 2)

Progress(w) == <<Depth(w), AtPred(w), seen[w], found[w]>>

\* A walk always comes closer to its end and nobody sets it back: whatever cells it
\* gets and whatever the other goroutines and the collector do, it is over after at
\* most three steps of its own per schema (helpers.go:34-111).
WalkAdvances ==
    [][\A w \in Walker :
          (stack[w] # <<>> /\ Progress(w)' # Progress(w)) => StepsLeft(w)' < StepsLeft(w)]_vars
=============================================================================
