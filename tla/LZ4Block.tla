------------------------------ MODULE LZ4Block ------------------------------
(***************************************************************************)
(* The block codec of lz4 (writer.go, reader.go). Positions are Go's; byte *)
(* i of a slice s is s[i + 1]. The widths are scaled by mlMask, the        *)
(* largest number of half a byte: 15 in the code.                          *)
(***************************************************************************)
EXTENDS Loops

CONSTANTS mlMask,
          incompressible,   \* misses after which the encoder begins to skip (128)
          hashTableSize,    \* slots of the hash table
          MaxInputSize

Half == mlMask + 1
Byte == Half * Half             \* 256
minMatch == 4
NoRef == -1                     \* a slot with nothing in it (uninitHash)

ErrCorrupt == [err |-> TRUE, dst |-> <<>>]
Result(dst) == [err |-> FALSE, dst |-> dst]

CompressBound(n) == IF n > MaxInputSize THEN 0 ELSE n + n \div (Byte - 1) + 16 + 4

(* The size, least significant byte first. *)
PutUint32(n) == <<n % Byte, (n \div Byte) % Byte, (n \div (Byte * Byte)) % Byte, n \div (Byte * Byte * Byte)>>
Uint32(b) == b[1] + Byte * (b[2] + Byte * (b[3] + Byte * b[4]))

(* Mutant: a last byte of zero is left out. *)
PutLenShort(n) ==
  [i \in 1 .. n \div (Byte - 1) |-> Byte - 1] \o (IF n % (Byte - 1) = 0 THEN <<>> ELSE <<n % (Byte - 1)>>)

(* A length beyond what fits into half a byte: full bytes and a last one. *)
PutLen(n) == [i \in 1 .. n \div (Byte - 1) |-> Byte - 1] \o <<n % (Byte - 1)>>

writeLiterals(src, dst, length, mlLen, pos) ==
  LET code == IF length > mlMask - 1 THEN mlMask ELSE length
      ml == IF mlLen > mlMask - 1 THEN mlMask ELSE mlLen
  IN  dst \o <<code * Half + ml>> \o (IF code = mlMask THEN PutLen(length - mlMask) ELSE <<>>)
          \o SubSeq(src, pos + 1, pos + length)

Sequence(src, pos) == SubSeq(src, pos + 1, pos + minMatch)

(* Stands for the multiplicative hash: equal sequences share a slot. *)
Hash(seq) == (seq[1] + 2 * seq[2] + 3 * seq[3] + 5 * seq[4]) % hashTableSize

(* How far the match goes on behind its first bytes; the last five bytes   *)
(* of a block are literals.                                                *)
RECURSIVE MatchEnd(_, _, _)
MatchEnd(src, pos, ref) ==
  IF pos < Len(src) - 5 /\ src[pos + 1] = src[ref + 1] THEN MatchEnd(src, pos + 1, ref + 1) ELSE pos

(* No match: on by a step that grows with the misses since the anchor. *)
Miss(e) ==
  LET missed == e.pos - e.anchor > e.limit
      step == IF missed THEN e.step + 1 + e.step \div 4 ELSE e.step
  IN  [e EXCEPT !.limit = IF missed THEN 2 * @ ELSE @, !.step = step, !.pos = @ + step]

(* A match met while skipping: back to the first skipped position. *)
StepBack(e, hash, ref) == [e EXCEPT !.table[hash] = ref, !.pos = @ - (e.step - 1), !.step = 1]

Match(src, e, ref) ==
  LET anchor == e.pos + minMatch
      end == MatchEnd(src, anchor, ref + minMatch)
      back == e.pos - ref
      mlLen == end - anchor
      literals == writeLiterals(src, e.dst, e.pos - e.anchor, mlLen, e.anchor)
  IN  [e EXCEPT !.dst = literals \o <<back % Byte, (back \div Byte) % Byte>>
                        \o (IF mlLen > mlMask - 1 THEN PutLen(mlLen - mlMask) ELSE <<>>),
                !.pos = end, !.anchor = end, !.limit = incompressible]

RECURSIVE EncodeFrom(_, _)
EncodeFrom(src, e) ==
  LET hash == Hash(Sequence(src, e.pos))
      ref == e.table[hash]
      hashed == [e EXCEPT !.table[hash] = e.pos]
  IN  IF e.pos + 12 >= Len(src) THEN writeLiterals(src, e.dst, Len(src) - e.anchor, 0, e.anchor)
      ELSE IF ref = NoRef \/ e.pos - ref >= Byte * Byte \/ Sequence(src, ref) # Sequence(src, e.pos)
           THEN EncodeFrom(src, Miss(hashed))
      ELSE IF e.step > 1 THEN EncodeFrom(src, StepBack(hashed, hash, ref))
      ELSE EncodeFrom(src, Match(src, hashed, ref))

Encode(src, headSizeFirst) ==
  LET e == [dst |-> IF headSizeFirst THEN PutUint32(Len(src)) ELSE <<>>, table |-> [h \in 0 .. hashTableSize - 1 |-> NoRef],
            pos |-> 0, anchor |-> 0, step |-> 1, limit |-> incompressible]
      size == IF headSizeFirst THEN <<>> ELSE PutUint32(Len(src))
  IN  IF Len(src) >= MaxInputSize THEN ErrCorrupt ELSE Result(EncodeFrom(src, e) \o size)

----------------------------------------------------------------------------
(* The length read from position spos on, and the position behind it; no   *)
(* position when the input ends in it.                                     *)
RECURSIVE getLen(_, _, _)
getLen(src, spos, length) ==
  IF spos = Len(src) THEN [ok |-> FALSE, length |-> 0, spos |-> spos]
  ELSE IF src[spos + 1] = Byte - 1 THEN getLen(src, spos + 1, length + Byte - 1)
  ELSE [ok |-> TRUE, length |-> length + src[spos + 1], spos |-> spos + 1]
Length(src, half, spos) ==
  IF half = mlMask THEN getLen(src, spos, mlMask) ELSE [ok |-> TRUE, length |-> half, spos |-> spos]

(* length bytes from d.ref on to the end of what is decoded: one by one,   *)
(* so that a copy may run into itself.                                     *)
cp(d, length, decr) ==
  [d EXCEPT !.dst = For(@, 0, length - 1, LAMBDA t, i : [t EXCEPT ![d.dpos + i + 1] = t[d.ref + i + 1]]),
            !.dpos = @ + length, !.ref = @ + length - decr]

decr == <<0, 3, 2, 3>>

(* A reference of fewer than four bytes back is first spread over four. *)
Copy(d, back, length) ==
  LET from == [d EXCEPT !.ref = d.dpos - back]
      spread == IF back < 4 THEN cp(from, 4, decr[back + 1]) ELSE from
      rest == IF back < 4 THEN length ELSE length + 4
  IN  IF (back < 4 /\ d.dpos + 4 > Len(d.dst)) \/ spread.dpos + rest > Len(d.dst)
      THEN [ok |-> FALSE, d |-> d] ELSE [ok |-> TRUE, d |-> cp(spread, rest, 0)]

RECURSIVE DecodeFrom(_, _, _)
DecodeFrom(src, end, d) ==
  IF d.spos = Len(src) THEN Result(d.dst)
  ELSE LET code == src[d.spos + 1]
           lit == Length(src, code \div Half, d.spos + 1)
           copied == [d EXCEPT !.dst = For(@, 0, lit.length - 1, LAMBDA t, i : [t EXCEPT ![d.dpos + i + 1] = src[lit.spos + i + 1]]),
                               !.dpos = @ + lit.length]
           at == lit.spos + lit.length
           back == src[at + 1] + Byte * src[at + 2]
           ml == Length(src, code % Half, at + 2)
           match == Copy(copied, back, ml.length)
       IN  IF ~lit.ok \/ at > Len(src) \/ d.dpos + lit.length > Len(d.dst) THEN ErrCorrupt
           ELSE IF at = end THEN Result(copied.dst)
           ELSE IF at + 2 >= Len(src) THEN ErrCorrupt
           ELSE IF back > copied.dpos \/ ~ml.ok THEN ErrCorrupt
           ELSE IF ~match.ok THEN ErrCorrupt
           ELSE DecodeFrom(src, end, [match.d EXCEPT !.spos = ml.spos])

(* A caller's dst, which may be nil, is decoded into as it is when it is   *)
(* large enough.                                                           *)
Decode(dst, src, headSizeFirst) ==
  LET size == Uint32(IF headSizeFirst THEN SubSeq(src, 1, 4) ELSE SubSeq(src, Len(src) - 3, Len(src)))
      d == [dst |-> IF Len(dst) < size THEN [i \in 1 .. size |-> 0] ELSE SubSeq(dst, 1, size),
            dpos |-> 0, ref |-> 0, spos |-> IF headSizeFirst THEN 4 ELSE 0]
  IN  IF Len(src) < 4 THEN ErrCorrupt
      ELSE IF size = 0 THEN Result(<<>>)
      ELSE IF size > MaxInputSize THEN ErrCorrupt
      ELSE DecodeFrom(src, IF headSizeFirst THEN Len(src) ELSE Len(src) - 4, d)

----------------------------------------------------------------------------
(* Slices to decode n bytes into: none, one that is too short, a long one. *)
Into(n) == {<<>>, [i \in 1 .. n - 1 |-> Byte - 1], [i \in 1 .. n + 2 |-> Byte - 1]}

(* Reader.go, writer.go: through skipping, stepping back, overlapping      *)
(* copies and lengths of several bytes, what Decode returns is what Encode *)
(* was given, with the size first or last and whatever slice it is given   *)
(* to decode into; the block fits into CompressBound, so that Encode never *)
(* writes past dst; and of a block cut short Decode returns an error or    *)
(* the part that was left, behind which the slice decoded into shows: what *)
(* the caller had in it, or zeros if Decode made it.                       *)
RoundTrips(src) ==
  \A first \in BOOLEAN :
    /\ \A dst \in Into(Len(src)) : Decode(dst, Encode(src, first).dst, first) = Result(src)
    /\ Len(Encode(src, first).dst) <= CompressBound(Len(src))

CutShort(src) ==
  \A n \in 0 .. Len(Encode(src, TRUE).dst) - 1, dst \in Into(Len(src)) :
    LET r == Decode(dst, SubSeq(Encode(src, TRUE).dst, 1, n), TRUE)
        rest == IF Len(dst) < Len(src) THEN 0 ELSE Byte - 1
    IN  r.err \/ \E k \in 0 .. Len(src) : r.dst = SubSeq(src, 1, k) \o [i \in 1 .. Len(src) - k |-> rest]
=============================================================================
