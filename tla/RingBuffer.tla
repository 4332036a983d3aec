----------------------------- MODULE RingBuffer -----------------------------
(***************************************************************************)
(* util/mem/ring: a buffer of the last Size values and the streams that    *)
(* follow it.  Put holds the lock while it sends to every stream, and      *)
(* waits there for a stream that is full and not stopped.  An entry is its *)
(* number, which is also its time stamp.                                   *)
(***************************************************************************)
EXTENDS Naturals, Sequences, SequencesExt, FiniteSetsExt

CONSTANTS Size, StreamCap,  \* New(Size); 128 in the code
          Streams, MaxPuts

VARIABLES
    vals,      \* b.vals
    puts,      \* values put so far
    todo,      \* streams the Put that holds the lock has still to serve
    streams,   \* b.streams
    entries,   \* the channel of each stream
    stop,      \* its Stop channel is closed
    closed,    \* its Entries channel is closed
    from,      \* puts when it was made
    read       \* what its reader has received

vars == <<vals, puts, todo, streams, entries, stop, closed, from, read>>
streamVars == <<entries, stop, closed, from, read>>

Init ==
    /\ vals = <<>> /\ puts = 0 /\ todo = {} /\ streams = {}
    /\ entries = [s \in Streams |-> <<>>] /\ stop = [s \in Streams |-> FALSE]
    /\ closed = [s \in Streams |-> FALSE] /\ from = [s \in Streams |-> MaxPuts + 1]
    /\ read = [s \in Streams |-> <<>>]

Locked == todo # {}

\* Put: append, trim, and the streams to serve.
Put ==
    /\ ~Locked /\ puts < MaxPuts /\ puts' = puts + 1 /\ todo' = streams
    /\ LET new == Append(vals, puts') IN vals' = IF Len(new) > Size THEN Tail(new) ELSE new
    /\ UNCHANGED <<streams, streamVars>>

\* One round of the loop over the streams, in any order: a stopped stream is removed, or
\* the entry sent; a select with both ready takes either.
Dismiss(s) ==
    /\ s \in todo /\ stop[s] /\ todo' = todo \ {s}
    /\ streams' = streams \ {s} /\ closed' = [closed EXCEPT ![s] = TRUE]
    /\ UNCHANGED <<vals, puts, entries, stop, from, read>>

\* Mutant: an entry is dropped when the channel is full.
ServeOrDrop(s) ==
    /\ s \in todo /\ todo' = todo \ {s}
    /\ entries' = IF Len(entries[s]) < StreamCap THEN [entries EXCEPT ![s] = Append(@, puts)] ELSE entries
    /\ UNCHANGED <<vals, puts, streams, stop, closed, from, read>>

Serve(s) ==
    /\ s \in todo /\ Len(entries[s]) < StreamCap /\ todo' = todo \ {s}
    /\ entries' = [entries EXCEPT ![s] = Append(@, puts)]
    /\ UNCHANGED <<vals, puts, streams, stop, closed, from, read>>

Stream(s) ==
    /\ ~Locked /\ from[s] > puts + 1 /\ streams' = streams \cup {s}
    /\ from' = [from EXCEPT ![s] = puts + 1]
    /\ UNCHANGED <<vals, puts, todo, entries, stop, closed, read>>

\* The reader of a stream receives, or closes Stop and goes away.
Read(s) ==
    /\ entries[s] # <<>> /\ ~stop[s]
    /\ read' = [read EXCEPT ![s] = Append(@, Head(entries[s]))]
    /\ entries' = [entries EXCEPT ![s] = Tail(@)]
    /\ UNCHANGED <<vals, puts, todo, streams, stop, closed, from>>
Stop(s) ==
    /\ s \in streams /\ ~stop[s] /\ stop' = [stop EXCEPT ![s] = TRUE]
    /\ UNCHANGED <<vals, puts, todo, streams, entries, closed, from, read>>

\* Get(n) and Since(t), under the read lock.
Get(n) == LET m == IF n > Len(vals) THEN Len(vals) ELSE n IN SubSeq(vals, Len(vals) - m + 1, Len(vals))
Later(t) == {i \in DOMAIN vals : vals[i] > t}
Since(t) ==
    IF t = 0 THEN vals
    ELSE IF t > puts \/ Later(t) = {} THEN <<>> ELSE SubSeq(vals, Min(Later(t)), Len(vals))

ServeStep == \E s \in Streams : Dismiss(s) \/ Serve(s)
Next ==
    \/ Put \/ ServeStep
    \/ \E s \in Streams : Stream(s) \/ Read(s) \/ Stop(s)

\* Put runs, and the reader of a stream reads until it closes Stop.
Fairness == WF_vars(ServeStep) /\ \A s \in Streams : WF_vars(Read(s))
Spec == Init /\ [][Next]_vars /\ Fairness

----------------------------------------------------------------------------
TypeOK ==
    /\ todo \subseteq streams /\ streams \subseteq Streams
    /\ \A s \in Streams : Len(entries[s]) <= StreamCap

Numbers(a, b) == [i \in 1 .. (IF a > b THEN 0 ELSE b - a + 1) |-> a + i - 1]
\* Get returns the last values, oldest first, and Since exactly the ones kept that are later.
LastValues ==
    /\ \A n \in 0 .. Size + 1 : Get(n) = Numbers(puts + 1 - Len(Get(n)), puts)
    /\ \A n \in 0 .. Size + 1 : Len(Get(n)) = IF puts < n \/ Size < n THEN Len(vals) ELSE n
    /\ Len(vals) = IF puts < Size THEN puts ELSE Size
    /\ \A t \in 0 .. MaxPuts : Since(t) = SelectSeq(vals, LAMBDA v : v > t)

\* A stream gets every value put after it was made, in order, none twice and none left
\* out, until it is stopped: what it read and what is waiting for it is one run of numbers
\* up to the last Put, or one less while that Put has not served it.
StreamHasNoGap ==
    \A s \in streams :
        read[s] \o entries[s] = Numbers(from[s], IF s \in todo THEN puts - 1 ELSE puts)

\* Put returns as long as the readers read or stop: a full stream holds it, and the lock,
\* only until then.
PutReturns == []<>~Locked
=============================================================================
