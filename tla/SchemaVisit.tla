---------------------------- MODULE SchemaVisit ----------------------------
(***************************************************************************)
(* What SchemaHas promises its callers, with no memory in it: goroutines   *)
(* that each walk a schema tree depth first.  open[w] is the path from the *)
(* root to the schema at hand: its last element is what the predicate is   *)
(* given as s, the elements before it are what it is given as ancestry.    *)
(***************************************************************************)
EXTENDS Naturals, Sequences

CONSTANTS Walker, Node, Parent, Rank, Nil

VARIABLES
    open,   \* open[w]: root to current schema, empty between walks
    seen,   \* seen[w]: the schemas the predicate was called with
    found   \* found[w]: the predicate returned true

vars == <<open, seen, found>>

Root == {n \in Node : Parent[n] = Nil}
Unseen(w, n) == {k \in Node : Parent[k] = n} \ seen[w]
Current(w) == open[w][Len(open[w])]

Init ==
    /\ open = [w \in Walker |-> <<>>]
    /\ seen = [w \in Walker |-> {}]
    /\ found = [w \in Walker |-> FALSE]

Begin(w) ==
    /\ open[w] = <<>>
    /\ \E r \in Root : open' = [open EXCEPT ![w] = <<r>>]
    /\ seen' = [seen EXCEPT ![w] = {}]
    /\ found' = [found EXCEPT ![w] = FALSE]

\* The predicate is called, once, before anything below the schema is.
Visit(w) ==
    /\ open[w] # <<>>
    /\ Current(w) \notin seen[w]
    /\ ~found[w]
    /\ seen' = [seen EXCEPT ![w] = @ \cup {Current(w)}]
    /\ \E answer \in BOOLEAN : found' = [found EXCEPT ![w] = answer]
    /\ UNCHANGED open

\* The walk goes down, into a child that no unvisited sibling precedes.
Descend(w) ==
    /\ open[w] # <<>>
    /\ Current(w) \in seen[w]
    /\ ~found[w]
    /\ \E k \in Unseen(w, Current(w)) :
         /\ \A other \in Unseen(w, Current(w)) : Rank[k] <= Rank[other]
         /\ open' = [open EXCEPT ![w] = Append(@, k)]
    /\ UNCHANGED <<seen, found>>

\* The walk goes up when nothing is left below, or the predicate was satisfied.
Leave(w) ==
    /\ open[w] # <<>>
    /\ found[w] \/ (Current(w) \in seen[w] /\ Unseen(w, Current(w)) = {})
    /\ open' = [open EXCEPT ![w] = SubSeq(@, 1, Len(@) - 1)]
    /\ UNCHANGED <<seen, found>>

Next == \E w \in Walker : Begin(w) \/ Visit(w) \/ Descend(w) \/ Leave(w)

Spec == Init /\ [][Next]_vars
=============================================================================
