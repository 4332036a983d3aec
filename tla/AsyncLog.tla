------------------------------ MODULE AsyncLog ------------------------------
(***************************************************************************)
(* log/newlog: the output with an event pool.  Send holds the output's     *)
(* mutex and puts the event into the pool's queue, or writes it itself     *)
(* when asked to or when the queue stays full; process, on its own         *)
(* goroutine and without the mutex, moves events to a buffer and writes    *)
(* the buffer to output.file.  A rotation replaces output.file.            *)
(*                                                                         *)
(* An event has size 1.  An open file is its number; the renames of a      *)
(* rotation are those of LogRotate.                                        *)
(***************************************************************************)
EXTENDS Naturals, Sequences, SequencesExt, FiniteSets

CONSTANTS Senders, Events, None,
          PoolSize,    \* capacity of pool.queue
          BufferSize,  \* initial length of pool.buffer
          FileSize     \* events after which Send rotates

VARIABLES
    mu,        \* output.mu: its holder
    file,      \* output.file: None or the number of the open file
    opened,    \* files opened so far
    closed,    \* Close was called
    current,   \* output.current
    queue,     \* pool.queue
    buffer,    \* pool.buffer[:current]
    bufLen,    \* len(pool.buffer)
    pc, ev,    \* Send of each sender
    proc,      \* process: "select" or "write"
    handle,    \* output.file as persist read it
    next,      \* the event process appends after its write, None on a tick
    unsent, accepted, disk, lost,
    pooled     \* events queued, in order

vars == <<mu, file, opened, closed, current, queue, buffer, bufLen, pc, ev, proc, handle,
          next, unsent, accepted, disk, lost, pooled>>
outputVars == <<mu, file, opened, closed, current>>
poolVars == <<queue, buffer, bufLen>>
processVars == <<proc, handle, next>>

Init ==
    /\ mu = None /\ file = 1 /\ opened = 1 /\ closed = FALSE /\ current = 0
    /\ queue = <<>> /\ buffer = <<>> /\ bufLen = BufferSize
    /\ pc = [s \in Senders |-> "idle"] /\ ev = [s \in Senders |-> None]
    /\ proc = "select" /\ handle = None /\ next = None
    /\ unsent = Events /\ accepted = {} /\ disk = <<>> /\ lost = {} /\ pooled = <<>>

----------------------------------------------------------------------------
\* Send takes the mutex; with no file it returns output.err.
Send(s) ==
    /\ pc[s] = "idle" /\ mu = None /\ unsent # {}
    /\ LET e == CHOOSE x \in unsent : TRUE IN
       /\ unsent' = unsent \ {e}
       /\ IF file = None
          THEN UNCHANGED <<mu, pc, ev>>
          ELSE /\ mu' = s /\ ev' = [ev EXCEPT ![s] = e]
               /\ pc' = [pc EXCEPT ![s] = IF current >= FileSize THEN "roll" ELSE "put"]
    /\ UNCHANGED <<file, opened, closed, current, poolVars, processVars, accepted, disk, lost, pooled>>

\* rollRunOnce: close sets output.file to nil; the renames; openNew.
RollClose(s) ==
    /\ pc[s] = "roll" /\ file # None /\ file' = None
    /\ UNCHANGED <<mu, opened, closed, current, poolVars, pc, ev, processVars,
                   unsent, accepted, disk, lost, pooled>>
\* The directory cannot be read: nothing is rotated.
RollFails(s) ==
    /\ pc[s] = "roll" /\ file # None
    /\ current' = 0 /\ pc' = [pc EXCEPT ![s] = "put"]
    /\ UNCHANGED <<mu, file, opened, closed, poolVars, ev, processVars, unsent, accepted,
                   disk, lost, pooled>>
openNew(s) ==
    /\ pc[s] = "roll" /\ file = None
    /\ opened' = opened + 1 /\ file' = opened' /\ current' = 0
    /\ pc' = [pc EXCEPT ![s] = "put"]
    /\ UNCHANGED <<mu, closed, poolVars, ev, processVars, unsent, accepted, disk, lost, pooled>>

\* Closing the old file or opening the new one fails: there is no file.
openNewFails(s) ==
    /\ pc[s] = "roll" /\ file = None
    /\ opened' = opened + 1 /\ current' = 0 /\ pc' = [pc EXCEPT ![s] = "put"]
    /\ UNCHANGED <<mu, file, closed, poolVars, ev, processVars, unsent, accepted, disk, lost, pooled>>

Unlock(s) == mu' = None /\ pc' = [pc EXCEPT ![s] = "idle"] /\ ev' = [ev EXCEPT ![s] = None]
Count(s) == current' = current + 1 /\ accepted' = accepted \cup {ev[s]}

\* pool.enc: the select takes the queue when it has room, or a tick of encTimeout, which
\* Reset does not drain and may be an old one.
Enqueue(s) ==
    /\ pc[s] = "put" /\ Len(queue) < PoolSize
    /\ queue' = Append(queue, ev[s]) /\ pooled' = Append(pooled, ev[s]) /\ Count(s) /\ Unlock(s)
    /\ UNCHANGED <<file, opened, closed, buffer, bufLen, processVars, unsent, disk, lost>>
\* Forced, or timed out: written directly, which fails when there is no file.
WriteDirectly(s) ==
    /\ pc[s] = "put" /\ Unlock(s)
    /\ IF file = None THEN UNCHANGED <<disk, current, accepted>>
                      ELSE disk' = Append(disk, ev[s]) /\ Count(s)
    /\ UNCHANGED <<file, opened, closed, poolVars, processVars, unsent, lost, pooled>>

Close ==
    /\ mu = None /\ file # None /\ file' = None /\ closed' = TRUE
    /\ UNCHANGED <<mu, opened, current, poolVars, pc, ev, processVars,
                   unsent, accepted, disk, lost, pooled>>

----------------------------------------------------------------------------
\* process and pool.

Append1(b, e) == IF e = None THEN b ELSE Append(b, e)
\* pool.write with room for the event: len(buffer) shrinks to what was appended.
WriteToPool ==
    /\ proc = "select" /\ queue # <<>> /\ Len(buffer) + 1 <= bufLen
    /\ buffer' = Append(buffer, Head(queue)) /\ bufLen' = Len(buffer')
    /\ queue' = Tail(queue)
    /\ UNCHANGED <<outputVars, pc, ev, processVars, unsent, accepted, disk, lost, pooled>>

\* Mutant: the event is written before the buffer.
WritePersistsEventFirst ==
    /\ proc = "select" /\ queue # <<>> /\ Len(buffer) + 1 > bufLen
    /\ disk' = Append(disk, Head(queue)) /\ queue' = Tail(queue)
    /\ UNCHANGED <<outputVars, buffer, bufLen, pc, ev, processVars, unsent, accepted, lost, pooled>>

\* pool.write without room: persist first; it reads output.file without the mutex.
WritePersists ==
    /\ proc = "select" /\ queue # <<>> /\ Len(buffer) + 1 > bufLen
    /\ next' = Head(queue) /\ queue' = Tail(queue)
    /\ handle' = file /\ proc' = "write"
    /\ UNCHANGED <<outputVars, buffer, bufLen, pc, ev, unsent, accepted, disk, lost, pooled>>

\* The ticker: pool.flush.
flush ==
    /\ proc = "select" /\ buffer # <<>>
    /\ next' = None /\ handle' = file /\ proc' = "write"
    /\ UNCHANGED <<outputVars, poolVars, pc, ev, unsent, accepted, disk, lost, pooled>>

\* File.Write of the file that was read: it fails on a nil or closed file; the error is
\* dropped and the buffer reset all the same.
persist ==
    /\ proc = "write" /\ proc' = "select" /\ handle' = None /\ next' = None
    /\ IF handle # None /\ handle = file
       THEN disk' = disk \o buffer /\ UNCHANGED lost
       ELSE lost' = lost \cup ToSet(buffer) /\ UNCHANGED disk
    /\ buffer' = Append1(<<>>, next) /\ bufLen' = Len(buffer')
    /\ UNCHANGED <<outputVars, queue, pc, ev, unsent, accepted, pooled>>

Process == WriteToPool \/ WritePersists \/ flush \/ persist
SendStep(s) == RollClose(s) \/ RollFails(s) \/ openNew(s) \/ openNewFails(s) \/ Enqueue(s) \/ WriteDirectly(s)
Next == Process \/ Close \/ \E s \in Senders : Send(s) \/ SendStep(s)

\* process runs, the ticker ticks, and a Send that has the mutex goes on.
Fairness == WF_vars(Process) /\ \A s \in Senders : WF_vars(SendStep(s))
Spec == Init /\ [][Next]_vars /\ Fairness

----------------------------------------------------------------------------
TypeOK ==
    /\ mu \in Senders \cup {None} /\ file \in {None} \cup 1 .. opened
    /\ Len(queue) <= PoolSize /\ Len(buffer) <= bufLen /\ bufLen <= BufferSize
    /\ pc \in [Senders -> {"idle", "roll", "put"}]

Pending == queue \o Append1(buffer, next)
\* Every event Send accepted is in one place only, once: queued, buffered, in the hands
\* of process, on disk, or among those a write to a closed file lost.
NoEventTwice ==
    LET all == Pending \o disk \o SetToSeq(lost)
    IN ToSet(all) = accepted /\ Len(all) = Cardinality(accepted)

\* Without a rotation or Close every accepted event reaches the file: the flush interval
\* empties a buffer that no further event pushes out.
AcceptedIsWritten ==
    []<>((\A e \in accepted : e \in ToSet(disk)) \/ opened > 1 \/ closed)

\* Events that went through the pool reach the disk in the order they were queued, across
\* buffers, flushes and rotations; only a direct write overtakes them.
PoolKeepsOrder ==
    SelectSeq(disk, LAMBDA e : e \in ToSet(pooled)) = SelectSeq(pooled, LAMBDA e : e \in ToSet(disk))
=============================================================================
