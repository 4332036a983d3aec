----------------------------- MODULE SlabBuffer -----------------------------
(***************************************************************************)
(* util/mem/SlabBuffer.go: a byte buffer with a read and a write position. *)
(* s.buf is a slice: the cells of its array, as many as its capacity, and  *)
(* its length.  Byte number n of the stream of writes has the value n      *)
(* modulo Modulus, which tells a misplaced byte; a byte outside            *)
(* s.buf[s.off:s.on] has the value Modulus.                                *)
(***************************************************************************)
EXTENDS Integers, Sequences

CONSTANTS InitSizes,        \* NewSlabBuffInit(n), NewSlabBuffInitAlign(n)
          BlockSize,        \* blockSize and defaultBufSize
          Writes, Reads,    \* lengths passed to Write and to Read and Next
          MaxCap, Modulus

VARIABLES cells, len, off, on, align,
          written,          \* bytes written, modulo Modulus
          unread,           \* ghost: the bytes written and not yet read or reset
          out               \* the result of the last call

vars == <<cells, len, off, on, align, written, unread, out>>

Cap == Len(cells)
\* i rounded down to blocks, one at least.
alignSize(i) == LET a == i - (i % BlockSize) IN IF a < BlockSize THEN BlockSize ELSE a
Zeros(n) == [i \in 1 .. n |-> Modulus]

Init ==
    /\ align \in BOOLEAN
    /\ \E n \in InitSizes : cells = Zeros(IF align THEN alignSize(n) ELSE n)
    /\ len = Len(cells) /\ off = 0 /\ on = 0
    /\ written = 0 /\ unread = <<>> /\ out = <<>>

----------------------------------------------------------------------------
\* A state of the slice and its positions.
Slab(c, l, f, o) == [cells |-> c, len |-> l, off |-> f, on |-> o]
This == Slab(cells, len, off, on)
reset(b) == Slab(b.cells, 0, 0, 0)

\* Mutant: one byte too many is taken to fit.
isEnoughLoose(n) == on + n <= len + 1

isEnough(n) == on + n <= len - 1
CanReSlice(b, n) == n <= Len(b.cells) - b.len
ReSlice(b, n) == [b EXCEPT !.len = @ + n]

\* The bytes s.buf[s.off:], followed by what was in the array c there.
Slide(b, c) ==
    LET m == b.len - b.off IN [i \in 1 .. Len(c) |-> IF i <= m THEN b.cells[b.off + i] ELSE c[i]]
grow(b0, n) ==
    LET m == b0.len - b0.off
        b == IF m = 0 /\ b0.off # 0 THEN reset(b0) ELSE b0
        c == Len(b.cells)
        size == IF align THEN alignSize(2 * c + n) ELSE 2 * c + n
        array == IF n <= (c \div 2) - m THEN b.cells ELSE Zeros(size)
    IN IF CanReSlice(b, n) THEN ReSlice(b, n)
       ELSE Slab(Slide(b, array), m + n, 0, IF b.on < b.off THEN 0 ELSE b.on - b.off)

Room(n) ==
    IF isEnough(n) THEN This
    ELSE IF CanReSlice(This, n) THEN ReSlice(This, n) ELSE grow(This, n)

Live(c, f, o) == [i \in DOMAIN c |-> IF i \in f + 1 .. o THEN c[i] ELSE Modulus]
Become(b) == cells' = Live(b.cells, b.off, b.on) /\ len' = b.len /\ off' = b.off /\ on' = b.on

\* Write: room, then copy to s.buf[s.on:], as much as its length takes.
Bytes(n) == [i \in 1 .. n |-> (written + i) % Modulus]
Write(n) ==
    LET b == Room(n)  count == IF n <= b.len - b.on THEN n ELSE b.len - b.on IN
    /\ Len(b.cells) <= MaxCap
    /\ Become([b EXCEPT !.cells = [i \in DOMAIN b.cells |->
                   IF i \in b.on + 1 .. b.on + count THEN Bytes(n)[i - b.on] ELSE b.cells[i]],
                        !.on = @ + count])
    /\ written' = (written + n) % Modulus /\ unread' = unread \o Bytes(n)
    /\ out' = <<count>> /\ UNCHANGED align

\* Read and Next; Read of an empty buffer resets it.
Take(n) == IF n < on - off THEN n ELSE on - off

Read(n) ==
    /\ IF on <= off
       THEN Become(reset(This)) /\ out' = <<>> /\ UNCHANGED unread
       ELSE /\ out' = SubSeq(cells, off + 1, off + Take(n))
            /\ unread' = SubSeq(unread, Len(out') + 1, Len(unread))
            /\ Become([This EXCEPT !.off = @ + Take(n)])
    /\ UNCHANGED <<align, written>>
nextBytes(n) ==
    /\ out' = SubSeq(cells, off + 1, off + Take(n))
    /\ unread' = SubSeq(unread, Len(out') + 1, Len(unread))
    /\ Become([This EXCEPT !.off = @ + Take(n)]) /\ UNCHANGED <<align, written>>

Reset ==
    /\ Become(reset(This)) /\ unread' = <<>> /\ out' = <<>> /\ UNCHANGED <<align, written>>
ResetOffOnUnSafe ==
    /\ Become([This EXCEPT !.off = 0, !.on = 0])
    /\ unread' = <<>> /\ out' = <<>> /\ UNCHANGED <<align, written>>

Next ==
    \/ \E n \in Writes : Write(n)
    \/ \E n \in Reads : Read(n) \/ nextBytes(n)
    \/ Reset \/ ResetOffOnUnSafe
Spec == Init /\ [][Next]_vars

----------------------------------------------------------------------------
TypeOK == /\ 0 <= off /\ off <= on /\ on <= len /\ len <= Cap /\ Cap <= MaxCap

\* BytesUnread is exactly what was written and not read: growing, sliding and reslicing
\* lose, repeat and move no byte, and Write never copies less than it was given.
UnreadIsWritten == SubSeq(cells, off + 1, on) = unread

\* Read and Next return the oldest unread bytes, in the order they were written.
ReadsInOrder ==
    [][\/ unread' = <<>>
       \/ \E n \in 0 .. Len(unread) :
            unread' = SubSeq(unread, n + 1, Len(unread)) /\ (n > 0 => out' = SubSeq(unread, 1, n))
       \/ \E n \in Writes : Len(unread') = Len(unread) + n /\ out' = <<n>>]_vars
=============================================================================
