-------------------------------- MODULE Bytes --------------------------------
(***************************************************************************)
(* Integers in buffers: src/src/core/endian.c and the cursor of            *)
(* src/src/core/bytes.c.  An integer of 2, 4 or 8 bytes is the sequence of *)
(* its bytes, the most significant first, so that no value is too wide.    *)
(* A cursor is a record [data, off]; a call returns the code, the cursor   *)
(* it leaves and, of a read, what it read.                                 *)
(***************************************************************************)
EXTENDS Integers, Sequences, SequencesExt

CONSTANTS
  LP_MAX,          \* the largest length a length byte can hold, 255 in the code
  LittleEndian     \* the host's byte order

ASSUME BytesAssumption == LP_MAX \in Nat /\ LittleEndian \in BOOLEAN

Widths == {2, 4, 8}

bswap(v) == Reverse(v)

\* Both directions are one function; the host's order decides what it does.
htobe(v) == IF LittleEndian THEN bswap(v) ELSE v
htole(v) == IF LittleEndian THEN v ELSE bswap(v)
betoh(v) == htobe(v)
letoh(v) == htole(v)

\* The unchecked accesses, at a 0-based offset.
be_get(data, off, n) == SubSeq(data, off + 1, off + n)
le_get(data, off, n) == Reverse(be_get(data, off, n))
be_put(data, off, v) ==
  [i \in 1..Len(data) |-> IF i \in (off + 1)..(off + Len(v)) THEN v[i - off] ELSE data[i]]
le_put(data, off, v) == be_put(data, off, Reverse(v))
be_peek(data, off, n) == be_get(data, off, n)
-----------------------------------------------------------------------------
(* The cursor.                                                             *)

cursor_init(buf) == [data |-> buf, off |-> 0]
cursor_remaining(c) == IF c.off >= Len(c.data) THEN 0 ELSE Len(c.data) - c.off
cursor_has(c, n) == cursor_remaining(c) >= n
cursor_reset(c) == [c EXCEPT !.off = 0]

Gives(c, got, n) == [rc |-> "OK", cursor |-> [c EXCEPT !.off = @ + n], got |-> got]
Fails(c, rc) == [rc |-> rc, cursor |-> c, got |-> <<>>]

bytes_get_be(c, n) ==
  IF ~cursor_has(c, n) THEN Fails(c, "BUFFER_TOO_SMALL") ELSE Gives(c, be_get(c.data, c.off, n), n)
bytes_get_le(c, n) ==
  IF ~cursor_has(c, n) THEN Fails(c, "BUFFER_TOO_SMALL") ELSE Gives(c, le_get(c.data, c.off, n), n)

\* Raw bytes, copied or in place, and bytes passed over.
bytes_get(c, n) ==
  IF ~cursor_has(c, n) THEN Fails(c, "BUFFER_TOO_SMALL")
  ELSE Gives(c, SubSeq(c.data, c.off + 1, c.off + n), n)
bytes_get_slice(c, n) == bytes_get(c, n)
bytes_skip(c, n) ==
  IF ~cursor_has(c, n) THEN Fails(c, "BUFFER_TOO_SMALL") ELSE Gives(c, <<>>, n)

\* A length byte and that many bytes, into dst_cap bytes; nothing is taken
\* unless all of it is.
bytes_get_lp8(c, dst_cap, max) ==
  IF ~cursor_has(c, 1) THEN Fails(c, "BUFFER_TOO_SMALL")
  ELSE LET payload == c.data[c.off + 1]
       IN  IF payload > max THEN Fails(c, "OUT_OF_RANGE")
           ELSE IF ~cursor_has(c, 1 + payload) \/ (payload > 0 /\ dst_cap < payload)
                THEN Fails(c, "BUFFER_TOO_SMALL")
           ELSE Gives(c, SubSeq(c.data, c.off + 2, c.off + 1 + payload), 1 + payload)

\* One byte of the destination is for the NUL.
bytes_get_lp8_str(c, dst_cap, max) ==
  IF dst_cap < 1 THEN Fails(c, "BUFFER_TOO_SMALL") ELSE bytes_get_lp8(c, dst_cap - 1, max)

Takes(c, bytes) ==
  IF ~cursor_has(c, Len(bytes)) THEN Fails(c, "BUFFER_TOO_SMALL")
  ELSE Gives([c EXCEPT !.data = be_put(@, c.off, bytes)], <<>>, Len(bytes))

bytes_put_be(c, v) == Takes(c, v)
bytes_put_le(c, v) ==
  IF ~cursor_has(c, Len(v)) THEN Fails(c, "BUFFER_TOO_SMALL")
  ELSE Gives([c EXCEPT !.data = le_put(@, c.off, v)], <<>>, Len(v))
bytes_put(c, src) == Takes(c, src)
bytes_put_zero(c, n) == Takes(c, [i \in 1..n |-> 0])

\* Fault: the length byte is put before the payload is known to fit.
LengthFirst(c, src) ==
  IF Len(src) > LP_MAX THEN Fails(c, "OUT_OF_RANGE")
  ELSE LET length == Takes(c, <<Len(src)>>)
       IN  IF length.rc = "OK" THEN Takes(length.cursor, src) ELSE length

bytes_put_lp8(c, src) ==
  IF Len(src) > LP_MAX THEN Fails(c, "OUT_OF_RANGE") ELSE Takes(c, <<Len(src)>> \o src)
bytes_put_lp8_str(c, s) == bytes_put_lp8(c, s)
-----------------------------------------------------------------------------
bytes_is_zero(s) == \A i \in 1..Len(s) : s[i] = 0

\* Reads every byte whatever differs first.
bytes_equal_ct(a, b) ==
  FoldLeft(LAMBDA diff, i : diff \/ a[i] # b[i], FALSE, [i \in 1..Len(a) |-> i]) = FALSE
=============================================================================
