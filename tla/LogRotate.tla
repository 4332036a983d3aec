----------------------------- MODULE LogRotate -----------------------------
(***************************************************************************)
(* log/log: the file output.  Send holds the output's mutex, rotates the   *)
(* files when the current one is full, and writes.  A rotation closes the  *)
(* file, renames the files from the highest sequence number down, and      *)
(* opens a new one; a step of it may fail, the process may die between two *)
(* steps, and an administrator may remove the current file.                *)
(*                                                                         *)
(* Events are numbered in the order of Send; a file is a sequence of them. *)
(***************************************************************************)
EXTENDS Integers, Sequences, Functions

CONSTANTS FileMaxNum,  \* DefaultFileMaxNum
          FileSize,    \* events that fill a file
          MaxEvents,   \* bound: events sent
          MaxFaults    \* bound: failed steps, removals and crashes

FilesAssumption == FileMaxNum \in Nat \ {0} /\ FileSize \in Nat \ {0} /\ MaxEvents \in Nat

VARIABLES
    files,    \* file with sequence number i, or Absent
    f,        \* output.f: "open", "nil", "unlinked" (its name is gone), "dead" (no process)
    pc,       \* step of Send: "idle", "roll", "write"
    seqs,     \* sequence numbers the rotation has still to move
    event,    \* events sent so far
    written,  \* the events written, in order
    faults,   \* failures so far
    broken    \* a rotation step failed, was cut short, or a file was removed

vars == <<files, f, pc, seqs, event, written, faults, broken>>

Absent == <<0>>
Names == 0 .. FileMaxNum - 1

Full == files[0] # Absent /\ Len(files[0]) >= FileSize

\* NewOutput opens the file, created if need be.
Init ==
    /\ files = [n \in Names |-> IF n = 0 THEN <<>> ELSE Absent]
    /\ f = "open" /\ pc = "idle" /\ seqs = {} /\ event = 0 /\ written = <<>>
    /\ faults = 0 /\ broken = FALSE

\* oldLogFiles: the files there are, sorted by descending sequence number.
oldLogFiles == {n \in Names : files[n] # Absent}

byFormatSequence(n) == n \in seqs /\ \A m \in seqs : m <= n

----------------------------------------------------------------------------
\* Send up to the write.  A file that disappeared is opened again; a full one is
\* rotated: the directory is read and the file closed.
Send ==
    /\ pc = "idle" /\ f \in {"open", "unlinked"} /\ event < MaxEvents
    /\ event' = event + 1
    /\ IF files[0] = Absent
       THEN /\ files' = [files EXCEPT ![0] = <<>>] /\ f' = "open"
            /\ pc' = "write" /\ UNCHANGED seqs
       ELSE /\ UNCHANGED files
            /\ IF Full THEN pc' = "roll" /\ seqs' = oldLogFiles /\ f' = "nil"
                       ELSE pc' = "write" /\ UNCHANGED <<seqs, f>>
    /\ UNCHANGED <<written, faults, broken>>
\* The directory cannot be read, or closing the file fails and leaves none: no file moves.
RollFails ==
    /\ pc = "idle" /\ f = "open" /\ event < MaxEvents /\ event' = event + 1
    /\ Full /\ faults < MaxFaults /\ faults' = faults + 1 /\ broken' = TRUE
    /\ pc' = "write" /\ f' \in {"open", "nil"}
    /\ UNCHANGED <<files, seqs, written>>

\* With no file Send returns the error of NewOutput, which is nil.
SendNoFile ==
    /\ pc = "idle" /\ f = "nil" /\ event < MaxEvents /\ event' = event + 1
    /\ UNCHANGED <<files, f, pc, seqs, written, faults, broken>>

\* Mutant: the file with the highest number is renamed to the lowest.
MovedWraps(n) == [files EXCEPT ![(n + 1) % FileMaxNum] = files[n], ![n] = Absent]

\* One turn of the loop of rollRunOnce: the oldest is removed, the others move up.
Moved(n) ==
    IF n + 1 >= FileMaxNum THEN [files EXCEPT ![n] = Absent]
    ELSE [files EXCEPT ![n + 1] = files[n], ![n] = Absent]
rollRunOnce ==
    /\ pc = "roll"
    /\ \E n \in seqs : byFormatSequence(n) /\ files' = Moved(n) /\ seqs' = seqs \ {n}
    /\ UNCHANGED <<f, pc, event, written, faults, broken>>
\* os.Remove or os.Rename fails: noted, and the loop goes on.
MoveFails ==
    /\ pc = "roll" /\ faults < MaxFaults /\ faults' = faults + 1 /\ broken' = TRUE
    /\ \E n \in seqs : byFormatSequence(n) /\ seqs' = seqs \ {n}
    /\ UNCHANGED <<files, f, pc, event, written>>

openNew ==
    /\ pc = "roll" /\ seqs = {}
    /\ files' = [files EXCEPT ![0] = IF @ = Absent THEN <<>> ELSE @]
    /\ f' = "open" /\ pc' = "write"
    /\ UNCHANGED <<seqs, event, written, faults, broken>>
openNewFails ==
    /\ pc = "roll" /\ seqs = {} /\ faults < MaxFaults
    /\ faults' = faults + 1 /\ broken' = TRUE /\ pc' = "write"
    /\ UNCHANGED <<files, f, seqs, event, written>>

\* The write, then the unlock.  A nil file refuses it, an unlinked one keeps it from sight.
Write ==
    /\ pc = "write" /\ pc' = "idle"
    /\ IF f = "open" THEN /\ files' = [files EXCEPT ![0] = Append(@, event)]
                          /\ written' = Append(written, event)
                     ELSE UNCHANGED <<files, written>>
    /\ UNCHANGED <<f, seqs, event, faults, broken>>

\* Close: flush and close.
Close ==
    /\ pc = "idle" /\ f \in {"open", "unlinked"} /\ faults < MaxFaults
    /\ faults' = faults + 1 /\ f' = "nil"
    /\ UNCHANGED <<files, pc, seqs, event, written, broken>>

----------------------------------------------------------------------------
\* Somebody removes the current file.
RemoveFile ==
    /\ faults < MaxFaults /\ f = "open" /\ files[0] # Absent
    /\ faults' = faults + 1 /\ broken' = TRUE
    /\ files' = [files EXCEPT ![0] = Absent] /\ f' = "unlinked"
    /\ UNCHANGED <<pc, seqs, event, written>>
Crash ==
    /\ faults < MaxFaults /\ f # "dead" /\ faults' = faults + 1
    /\ f' = "dead" /\ pc' = "idle" /\ seqs' = {} /\ broken' = (broken \/ pc = "roll")
    /\ UNCHANGED <<files, event, written>>
NewOutput ==
    /\ f = "dead" /\ f' = "open"
    /\ files' = [files EXCEPT ![0] = IF @ = Absent THEN <<>> ELSE @]
    /\ UNCHANGED <<pc, seqs, event, written, faults, broken>>

Next == Send \/ RollFails \/ SendNoFile \/ rollRunOnce \/ MoveFails \/ openNew \/ openNewFails \/ Write
            \/ Close \/ RemoveFile \/ Crash \/ NewOutput
Spec == Init /\ [][Next]_vars

----------------------------------------------------------------------------
\* What a reader finds in a file, which may be missing.
Lines(n) == IF files[n] = Absent THEN <<>> ELSE files[n]

TypeOK ==
    /\ f \in {"open", "nil", "unlinked", "dead"} /\ pc \in {"idle", "roll", "write"}
    /\ files \in [Names -> Seq(1 .. MaxEvents) \cup {Absent}] /\ seqs \subseteq Names
    /\ event \in 0 .. MaxEvents /\ written \in Seq(1 .. MaxEvents)

\* Read from the highest sequence number to the current file the log is in the order of
\* Send, without repetition, whatever failed and wherever the process died.
LogInOrder ==
    \A n \in Names :
        /\ \A i, j \in DOMAIN Lines(n) : i < j => Lines(n)[i] < Lines(n)[j]
        /\ \A m \in Names : m < n => \A x \in Range(Lines(n)), y \in Range(Lines(m)) : x < y

\* As long as nothing failed a rotation drops only the file with the highest sequence
\* number: an event that was written is in a file, or all files but the current one are
\* full of newer events.
NewestKept ==
    ~broken /\ seqs = {} =>
        \A e \in Range(written) :
            \/ \E n \in Names : e \in Range(Lines(n))
            \/ \A n \in Names \ {0} : Len(Lines(n)) = FileSize /\ \A x \in Range(Lines(n)) : e < x

\* No file grows past FileSize while rotations succeed.
FilesBounded == ~broken => \A n \in Names : Len(Lines(n)) <= FileSize
=============================================================================
