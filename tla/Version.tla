------------------------------- MODULE Version -------------------------------
(***************************************************************************)
(* The library's version: src/src/api/version.c.  A version is its three   *)
(* numbers, its code the bytes of them side by side.                       *)
(***************************************************************************)
EXTENDS Text, Bitwise

\* The bytes of a version side by side; a part above 255 runs into the next.
version_code(v) == ((v[1] * 65536) | (v[2] * 256)) | v[3]

version_parse(s) ==
  LET bare == IF s # <<>> /\ s[1] \in {86, 118} THEN Tail(s) ELSE s
      part == [i \in 1..Len(Fields(bare, DOT)) |-> parse_u32(Fields(bare, DOT)[i])]
      \* a missing minor or patch number is zero
      full == [i \in 1..3 |-> IF i <= Len(part) THEN part[i] ELSE 0]
  IN  IF Len(part) > 3 \/ \E i \in 1..Len(part) : part[i] = Refused THEN 0
      ELSE version_code(full)

version_compare(a, b) == IF a < b THEN -1 ELSE IF a > b THEN 1 ELSE 0

\* Appending stops silently at the end of the buffer.
ver_append(buf, buflen, text) == SubSeq(buf \o text, 1, Least(Len(buf \o text), buflen - 1))

Numbers(v) ==
  Digits(v[1], 10) \o <<DOT>> \o Digits(v[2], 10) \o <<DOT>> \o Digits(v[3], 10)

\* The four strings, built on first use and the same whoever builds them.
ver_build_strings(v, commit, platform, type) ==
  [about  |-> ver_append(<<88, 117, 114, 121, SPACE>>, 96,
                Numbers(v) \o <<SPACE, 40>> \o platform \o <<44, SPACE>> \o type \o <<41>>),
   tag    |-> ver_append(<<88, 117, 114, 121, 47>>, 32, Numbers(v)),
   full   |-> ver_append(Numbers(v), 64,
                IF commit = "unknown" THEN <<>> ELSE <<PLUS>> \o commit),
   prefix |-> ver_append(<<120, 117, 114, 121, COLON, 118>>, 32, Numbers(v) \o <<COLON>>)]

version_self_check(runtime, header) ==
  /\ version_code(runtime) = version_code(header)
  /\ version_parse(Numbers(header)) # 0
  /\ version_parse(Numbers(header)) = version_code(header)
=============================================================================
