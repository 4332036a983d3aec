---------------------------- MODULE NetlinkAttr ----------------------------
(***************************************************************************)
(* netlink-client: the attribute encoder and decoder.  An encoder collects *)
(* attributes and packs them with alignment padding; a decoder unpacks the *)
(* bytes and hands the attributes out one at a time with typed reads.      *)
(*                                                                         *)
(* A byte is a number below Base and a uint16 two of them, so its range    *)
(* scales with Base as 2^16 does with 256.                                 *)
(***************************************************************************)
EXTENDS Integers, Sequences, SequencesExt

CONSTANTS Base,      \* values of a byte (256 in the code)
          MaxAttrs,  \* bound: attributes encoded
          MaxData,   \* bound: length of raw data
          Types      \* attribute types used

VARIABLES phase,   \* "encode", "decode", "end"
          attrs,   \* AttributeEncoder.attrs
          aeErr,   \* AttributeEncoder.err
          bytes,   \* the encoded bytes
          encErr,  \* Encode returned an error
          dec,     \* AttributeDecoder.attrs
          i,       \* AttributeDecoder.i
          adErr,   \* AttributeDecoder.err
          out      \* values the caller read

vars == <<phase, attrs, aeErr, bytes, encErr, dec, i, adErr, out>>

nlaHeaderLen == 4
nlaAlign(n) == ((n + 3) \div 4) * 4

Uint16Wrap == Base * Base
PutUint16(v) == <<v % Base, v \div Base>>

\* Mutant: the bytes are read in the other order.
Uint16AtSwapped(b, k) == Base * b[k] + b[k + 1]

Uint16At(b, k) == b[k] + Base * b[k + 1]
Zeros(n) == [k \in 1 .. n |-> 0]
Data(n, v) == [k \in 1 .. n |-> v]

Attr(t, d) == [type |-> t, data |-> d]

\* Attribute.marshal into its slot: the length, the type, the data and padding.
\* The length is inferred as uint16(header + data).
LengthOf(a) == (nlaHeaderLen + Len(a.data)) % Uint16Wrap
marshal(a) == PutUint16(LengthOf(a)) \o PutUint16(a.type) \o a.data
                  \o Zeros(nlaAlign(Len(a.data)) - Len(a.data))
MarshalFails(as) == \E k \in DOMAIN as : LengthOf(as[k]) < nlaHeaderLen
MarshalAttributes(as) == FlattenSeq([k \in DOMAIN as |-> marshal(as[k])])

Bad == <<Attr(0, <<-1>>)>>
\* UnmarshalAttributes from offset k: stop at the end, fail on a length that is
\* too short or too large, skip a header of length 0.
UnmarshalAttributes(b) ==
    LET from[k \in 0 .. Len(b) + nlaHeaderLen] ==
          IF k >= Len(b) THEN <<>>
          ELSE IF Len(b) - k < nlaHeaderLen THEN Bad
          ELSE LET n == Uint16At(b, k + 1)
                   rest == from[k + nlaAlign(n)]
               IN IF n > Len(b) - k \/ n \in 1 .. nlaHeaderLen - 1 THEN Bad
                  ELSE IF n = 0 THEN from[k + nlaHeaderLen]
                  ELSE IF rest = Bad THEN Bad
                  ELSE <<Attr(Uint16At(b, k + 3), SubSeq(b, k + nlaHeaderLen + 1, k + n))>>
                           \o rest
    IN from[0]

\* nlenc.Bytes and nlenc.String: every trailing NUL is removed.
NullTerminated(s) == Append(s, 0)
TrimNull(b) == LET keep == {k \in DOMAIN b : b[k] # 0}
               IN IF keep = {} THEN <<>> ELSE SubSeq(b, 1, CHOOSE k \in keep : \A l \in keep : l <= k)

Init ==
    /\ phase = "encode" /\ attrs = <<>> /\ aeErr = FALSE /\ bytes = <<>> /\ encErr = FALSE
    /\ dec = <<>> /\ i = 0 /\ adErr = FALSE /\ out = <<>>

----------------------------------------------------------------------------
\* AttributeEncoder: Uint8, Uint16, Uint32 and Uint64 differ in the width.
Add(t, d) ==
    /\ phase = "encode" /\ Len(attrs) < MaxAttrs
    /\ attrs' = IF aeErr THEN attrs ELSE Append(attrs, Attr(t, d))
    /\ UNCHANGED <<phase, aeErr, bytes, encErr, dec, i, adErr, out>>
EncodeUint == \E t \in Types, w \in {1, 2, 4, 8} : Add(t, Data(w, 1))
EncodeString == \E t \in Types, n \in 0 .. MaxData - 1 : Add(t, NullTerminated(Data(n, 1)))
EncodeBytes == \E t \in Types, n \in 0 .. MaxData : Add(t, Data(n, 1))
\* Do: the callback fails.
EncodeDoFails ==
    /\ phase = "encode" /\ aeErr' = TRUE
    /\ UNCHANGED <<phase, attrs, bytes, encErr, dec, i, adErr, out>>

\* Encode, then NewAttributeDecoder on the bytes.
Encode ==
    /\ phase = "encode"
    /\ encErr' = (aeErr \/ MarshalFails(attrs))
    /\ IF encErr' THEN phase' = "end" /\ UNCHANGED <<bytes, dec>>
       ELSE /\ bytes' = MarshalAttributes(attrs)
            /\ dec' = UnmarshalAttributes(bytes')
            /\ phase' = IF dec' = Bad THEN "end" ELSE "decode"
    /\ UNCHANGED <<attrs, aeErr, i, adErr, out>>

----------------------------------------------------------------------------
\* AttributeDecoder.Next.
NextAttr ==
    /\ phase = "decode" /\ ~adErr /\ i' = i + 1
    /\ phase' = IF Len(dec) >= i + 1 THEN phase ELSE "end"
    /\ UNCHANGED <<attrs, aeErr, bytes, encErr, dec, adErr, out>>
NextAfterError ==
    /\ phase = "decode" /\ adErr /\ phase' = "end"
    /\ UNCHANGED <<attrs, aeErr, bytes, encErr, dec, i, adErr, out>>

Read(v, bad) ==
    /\ phase = "decode" /\ i \in DOMAIN dec /\ Len(out) < i
    /\ adErr' = (adErr \/ bad)
    /\ out' = IF adErr \/ bad THEN out ELSE Append(out, v)
    /\ UNCHANGED <<phase, attrs, aeErr, bytes, encErr, dec, i>>
\* Uint8 .. Uint64 want an exact length.
DecodeUint == \E w \in {1, 2, 4, 8} : i \in DOMAIN dec /\ Read(dec[i].data, Len(dec[i].data) # w)
DecodeString == i \in DOMAIN dec /\ Read(TrimNull(dec[i].data), FALSE)
DecodeBytes == i \in DOMAIN dec /\ Read(dec[i].data, FALSE)
DecodeDoFails == i \in DOMAIN dec /\ Read(<<>>, TRUE)

Next == EncodeUint \/ EncodeString \/ EncodeBytes \/ EncodeDoFails \/ Encode
            \/ NextAttr \/ NextAfterError
            \/ DecodeUint \/ DecodeString \/ DecodeBytes \/ DecodeDoFails
Spec == Init /\ [][Next]_vars

----------------------------------------------------------------------------
Fits(a) == nlaHeaderLen + Len(a.data) < Uint16Wrap

TypeOK ==
    /\ phase \in {"encode", "decode", "end"} /\ aeErr \in BOOLEAN /\ adErr \in BOOLEAN
    /\ Len(attrs) <= MaxAttrs /\ \A k \in DOMAIN bytes : bytes[k] \in 0 .. Base - 1

\* What was encoded is decoded again, attribute for attribute, whatever the mix of
\* lengths and padding, as long as every length fits its uint16.
RoundTrip ==
    phase # "encode" /\ ~encErr /\ (\A k \in DOMAIN attrs : Fits(attrs[k])) => dec = attrs

\* After the first decoding error no further value is handed out, and the error stays
\* (AttributeDecoder.Err returns the first error).
ErrorSticks == [][adErr => adErr' /\ out' = out]_vars
=============================================================================
