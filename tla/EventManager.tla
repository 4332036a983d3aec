---------------------------- MODULE EventManager ----------------------------
(***************************************************************************)
(* event: goroutines fire one predefined event while listeners are added   *)
(* and removed, by listeners that are running or by other goroutines.  A   *)
(* queue of listeners is a Go slice: an array, shared by the slices made   *)
(* from it, and a length.  A firing walks the slice it got when it began.  *)
(* On and the removals take no lock, whatever EnableLock says; each is one *)
(* step here.  A listener that fires the event itself is another goroutine *)
(* whose steps come between two of this one (without EnableLock: with it   *)
(* such a listener waits for its own firing).  Only the wildcard's queue   *)
(* looks at priorities.                                                    *)
(***************************************************************************)
EXTENDS Integers, Sequences, Functions

CONSTANTS Procs, Listeners, None,
          Priorities,  \* of On: numbers, Normal is 0
          Budgets      \* of a run: how many <<additions, removals, firings>>

\* The event's own queue and that of the wildcard.
Names == {"event", "*"}

EventAssumption == Priorities \subseteq Nat /\ None \notin Procs

VARIABLES
    enableLock, mutex,
    listeners,   \* em.listeners: per name the array and length, length 0 when not in the map
    arrays,      \* the arrays, each with its cells up to its capacity
    aborted,     \* the flag of the event, which all firings share
    frame,       \* FireEvent of each goroutine
    adds, removes, fires  \* that are left

vars == <<enableLock, mutex, listeners, arrays, aborted, frame, adds, removes, fires>>

Item(l, p) == [l |-> l, p |-> p]
NoItem == [l |-> None, p |-> 0]
NoFrame == [at |-> "out", arr |-> 0, len |-> 0, i |-> 0, called |-> <<>>, expect |-> <<>>]

Init ==
    /\ enableLock \in BOOLEAN /\ mutex = None
    /\ listeners = [n \in Names |-> [arr |-> 0, len |-> 0]] /\ arrays = <<>>
    /\ aborted = FALSE /\ frame = [g \in Procs |-> NoFrame]
    /\ \E b \in Budgets : adds = b[1] /\ removes = b[2] /\ fires = b[3]

----------------------------------------------------------------------------
Items(q) == IF q.len = 0 THEN <<>> ELSE SubSeq(arrays[q.arr], 1, q.len)
\* append to the first len cells: into the array while it has room, else into a new one of
\* twice the size (up to 256 items; what it grows by later makes no difference here).
append(cells, len, item) ==
    IF len < Len(cells) THEN [cells EXCEPT ![len + 1] = item]
    ELSE IF len = 0 THEN Append(cells, item)
    ELSE Append(cells, item) \o [i \in 1 .. len - 1 |-> NoItem]

Push(ls, as, n, item) ==
    LET q == ls[n]
        a == IF q.len = 0 THEN <<>> ELSE as[q.arr]
    IN IF q.len < Len(a)
       THEN <<[ls EXCEPT ![n] = [arr |-> q.arr, len |-> q.len + 1]], [as EXCEPT ![q.arr] = append(a, q.len, item)]>>
       ELSE <<[ls EXCEPT ![n] = [arr |-> Len(as) + 1, len |-> q.len + 1]], Append(as, append(a, q.len, item))>>

\* On: addListenerItem.
On(n, l, p) ==
    /\ adds > 0 /\ adds' = adds - 1
    /\ LET r == Push(listeners, arrays, n, Item(l, p)) IN listeners' = r[1] /\ arrays' = r[2]
    /\ UNCHANGED <<enableLock, mutex, aborted, frame, removes, fires>>
\* AddSubscriber with a listener for each name: every item is a pointer to the one loop
\* variable, which in the end is the last of them.
AddSubscriber(l) ==
    /\ adds > 0 /\ adds' = adds - 1
    /\ LET r == Push(listeners, arrays, "event", Item(l, 0))
           t == Push(r[1], r[2], "*", Item(l, 0))
       IN listeners' = t[1] /\ arrays' = t[2]
    /\ UNCHANGED <<enableLock, mutex, aborted, frame, removes, fires>>

\* ListenerQueue.Remove: the items of other listeners are appended to a new slice.
Kept(s, l) ==
    LET newItems[k \in 0 .. Len(s)] ==
            IF k = 0 THEN [cells |-> <<>>, len |-> 0]
            ELSE IF s[k].l = l THEN newItems[k - 1]
            ELSE [cells |-> append(newItems[k - 1].cells, newItems[k - 1].len, s[k]),
                  len |-> newItems[k - 1].len + 1]
    IN newItems[Len(s)]

\* Mutant: Remove shifts the items in the array.
WithoutInPlace(q, l, as) ==
    LET r == Kept(Items(q), l)
    IN IF r.len = 0 THEN <<[arr |-> 0, len |-> 0], as>>
       ELSE <<[q EXCEPT !.len = r.len], [as EXCEPT ![q.arr] = SubSeq(r.cells, 1, r.len) \o SubSeq(@, r.len + 1, Len(@))]>>

\* RemoveListener: each queue named gets a new slice without l; an empty one leaves the map.
Without(q, l, as) ==
    LET r == Kept(Items(q), l)
    IN IF r.len = 0 THEN <<[arr |-> 0, len |-> 0], as>>
       ELSE <<[arr |-> Len(as) + 1, len |-> r.len], Append(as, r.cells)>>
RemoveListener(names, l) ==
    /\ removes > 0 /\ removes' = removes - 1
    /\ LET r == IF "event" \in names THEN Without(listeners["event"], l, arrays) ELSE <<listeners["event"], arrays>>
           t == IF "*" \in names THEN Without(listeners["*"], l, r[2]) ELSE <<listeners["*"], r[2]>>
       IN listeners' = [n \in Names |-> IF n = "event" THEN r[1] ELSE t[1]] /\ arrays' = t[2]
    /\ UNCHANGED <<enableLock, mutex, aborted, frame, adds, fires>>
\* RemoveListeners(name); Reset does it for every name.
RemoveListeners(names) ==
    /\ removes > 0 /\ removes' = removes - 1
    /\ listeners' = [n \in Names |-> IF n \in names THEN [arr |-> 0, len |-> 0] ELSE listeners[n]]
    /\ UNCHANGED <<enableLock, mutex, arrays, aborted, frame, adds, fires>>

----------------------------------------------------------------------------
\* FireEvent: the lock, Abort(false), and the slice of the event's queue.
Start(g, at, q) ==
    [frame[g] EXCEPT !.at = at, !.arr = q.arr, !.len = q.len, !.i = 0, !.called = <<>>, !.expect = Items(q)]

FireEvent(g) ==
    /\ frame[g].at = "out" /\ fires > 0 /\ fires' = fires - 1
    /\ enableLock => mutex = None
    /\ mutex' = IF enableLock THEN g ELSE None
    /\ aborted' = FALSE
    /\ frame' = [frame EXCEPT ![g] = Start(g, "event", listeners["event"])]
    /\ UNCHANGED <<enableLock, listeners, arrays, adds, removes>>

\* Fire, and AsyncFire, AwaitFire and FireBatch with an event, which do not ask first.
HasListeners(n) == listeners[n].len > 0
Fire(g) == (HasListeners("event") \/ HasListeners("*")) /\ FireEvent(g)
AsyncFire(g) == FireEvent(g)

Return(g) ==
    /\ frame' = [frame EXCEPT ![g] = NoFrame]
    /\ mutex' = IF mutex = g THEN None ELSE mutex

\* Listener.Handle of the next item; the result is "ok", "error", or "abort": e.Abort(true).
Handle(g, result) ==
    LET f == frame[g] IN
    /\ f.at \in Names /\ f.i < f.len
    /\ aborted' = (aborted \/ result = "abort")
    /\ IF result = "error" \/ aborted'
       THEN Return(g)
       ELSE /\ frame' = [frame EXCEPT ![g].i = @ + 1,
                                      ![g].called = Append(@, arrays[f.arr][f.i + 1])]
            /\ UNCHANGED mutex
    /\ UNCHANGED <<enableLock, listeners, arrays, adds, removes, fires>>

\* Sort: sort.Sort of the slice in place, High before Low, unless it is sorted; the order of
\* equals is not promised.
ByPriority(s) == \A j, k \in DOMAIN s : j < k => s[j].p >= s[k].p
Sort(s) ==
    {t \in {[k \in DOMAIN s |-> s[swaps[k]]] : swaps \in Bijection(DOMAIN s, DOMAIN s)} :
        ByPriority(t) /\ (ByPriority(s) => t = s)}
\* The event's own listeners are done: the wildcard queue is sorted and walked.
Wildcard(g) ==
    LET f == frame[g]  q == listeners["*"] IN
    /\ f.at = "event" /\ f.i = f.len
    /\ \E s \in Sort(Items(q)) :
        /\ arrays' = IF q.len = 0 THEN arrays
                     ELSE [arrays EXCEPT ![q.arr] = s \o SubSeq(@, q.len + 1, Len(@))]
        /\ frame' = [frame EXCEPT ![g] = [Start(g, "*", q) EXCEPT !.expect = s]]
    /\ UNCHANGED <<enableLock, mutex, listeners, aborted, adds, removes, fires>>
Done(g) ==
    /\ frame[g].at = "*" /\ frame[g].i = frame[g].len /\ Return(g)
    /\ UNCHANGED <<enableLock, listeners, arrays, aborted, adds, removes, fires>>

Next ==
    \/ \E g \in Procs :
        \/ Fire(g) \/ AsyncFire(g) \/ Wildcard(g) \/ Done(g)
        \/ \E r \in {"ok", "error", "abort"} : Handle(g, r)
    \/ \E l \in Listeners :
        \/ On("event", l, 0) \/ \E p \in Priorities : On("*", l, p)
        \/ AddSubscriber(l)
        \/ \E names \in {{"event"}, {"*"}, Names} : RemoveListener(names, l)
    \/ \E names \in {{"event"}, {"*"}, Names} : RemoveListeners(names)
Spec == Init /\ [][Next]_vars

----------------------------------------------------------------------------
AnItem == [l : Listeners \cup {None}, p : Nat]
Cells == Seq(AnItem)
Frames == [at : Names \cup {"out"}, arr : Nat, len : Nat, i : Nat, called : Cells, expect : Cells]

TypeOK ==
    /\ enableLock \in BOOLEAN /\ aborted \in BOOLEAN /\ mutex \in Procs \cup {None}
    /\ listeners \in [Names -> [arr : Nat, len : Nat]] /\ arrays \in Seq(Cells)
    /\ frame \in [Procs -> Frames]

Begins(s, t) == Len(s) <= Len(t) /\ \A k \in 1..Len(s) : s[k] = t[k]
Firing(g) == frame[g].at # "out"
\* A firing calls the listeners the queue had when it came to it, in the order of
\* registration, each once, whatever is added or removed meanwhile.
FiresSnapshot ==
    \A g \in Procs : frame[g].at = "event" => Begins(frame[g].called, frame[g].expect)

\* With EnableLock the same holds for the wildcard's listeners, by priority: no other
\* firing sorts the array under the one that walks it.
WildcardByPriority ==
    \A g \in Procs :
        enableLock /\ frame[g].at = "*" =>
            /\ Begins(frame[g].called, frame[g].expect)
            /\ ByPriority(frame[g].called)

\* With EnableLock a listener that aborts the event ends the firing it was called by: no
\* other firing takes the flag back.
AbortEndsFiring == enableLock /\ aborted => \A g \in Procs : ~Firing(g)

(***************************************************************************)
(* event: a firing calls the listeners that were there when it began,      *)
(* those of the wildcard by priority, and none once it is aborted, while   *)
(* others add, remove and fire.                                            *)
(***************************************************************************)
FiringIsSnapshot == TypeOK /\ FiresSnapshot /\ WildcardByPriority /\ AbortEndsFiring
=============================================================================
