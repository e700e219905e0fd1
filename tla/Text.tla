-------------------------------- MODULE Text --------------------------------
(***************************************************************************)
(* Numbers and words as text: the formatters and strict parsers of         *)
(* src/src/api/xury.c and the log lines of src/src/core/log.c.  A text is  *)
(* a sequence of ASCII codes without its NUL.  A call with a NULL argument *)
(* returns at the head of its function and is left out, unless NULL means  *)
(* something to it.  Integers have the widths of the constants, so that    *)
(* overflow happens on small ones; "too big" stands for                    *)
(* XURY_ERR_OUT_OF_RANGE.                                                  *)
(***************************************************************************)
EXTENDS Integers, Sequences, FiniteSets, SequencesExt

CONSTANTS
  UINT_MAX,        \* the largest uint32_t
  HexWidth,        \* the hexadecimal digits of the largest uint64_t, 16 in the code
  XURY_LOG_LINE_MAX

ASSUME TextAssumption ==
  /\ UINT_MAX \in Nat /\ UINT_MAX % 2 = 1
  /\ HexWidth \in 1..16 /\ 16^HexWidth > UINT_MAX
  /\ XURY_LOG_LINE_MAX \in Nat \ {0}

INT_MAX == UINT_MAX \div 2

Least(a, b) == IF a < b THEN a ELSE b
Most(a, b)  == IF a > b THEN a ELSE b

MINUS == 45  PLUS == 43  DOT == 46  COLON == 58  SPACE == 32
IsDigit(c) == c \in 48..57
Digit(d)   == IF d < 10 THEN 48 + d ELSE 87 + d
IsUpper(c) == c \in 65..90
Lower(c)   == IF IsUpper(c) THEN c + 32 ELSE c
-----------------------------------------------------------------------------
(* Writing: what a number looks like, and what a buffer keeps of a text.   *)

\* The remainders of n's quotients by the base, the last one first.
Digits(n, base) ==
  LET quotient[k \in 0..(n + 1)] == IF k = 0 THEN n ELSE quotient[k - 1] \div base
      w == CHOOSE w \in 1..(n + 1) : quotient[w] = 0 /\ (w > 1 => quotient[w - 1] # 0)
  IN  [i \in 1..w |-> Digit(quotient[w - i] % base)]

\* What the formatters of xury.c do with the characters they produce: the
\* buffer keeps what fits before its NUL and the caller is told how long
\* the whole would have been.
Written(text, buflen) ==
  [need |-> Len(text), kept |-> SubSeq(text, 1, Least(Len(text), Most(buflen - 1, 0)))]

\* Fault: the caller is told the length of what was kept.
KeptOnly(v, buflen) ==
  [need |-> Len(Written(Digits(v, 10), buflen).kept), kept |-> Written(Digits(v, 10), buflen).kept]

fmt_u32(v, buflen) == Written(Digits(v, 10), buflen)
fmt_u64(v, buflen) == Written(Digits(v, 10), buflen)

\* The magnitude goes through a buffer of eleven (of twenty-one) characters,
\* which hold a number of the width.
ASSUME DigitsAssumption == Len(Digits(UINT_MAX, 10)) <= 10

fmt_i32(v, buflen) ==
  IF v >= 0 THEN fmt_u32(v, buflen)
  ELSE Written(<<MINUS>> \o fmt_u32(-v, 11).kept, buflen)
fmt_i64(v, buflen) ==
  IF v >= 0 THEN fmt_u64(v, buflen)
  ELSE Written(<<MINUS>> \o fmt_u64(-v, 21).kept, buflen)

fmt_hex_common(v, width, buflen) ==
  LET zeros == Least(Most(width - Len(Digits(v, 16)), 0), 16)
  IN  Written([i \in 1..zeros |-> 48] \o Digits(v, 16), buflen)
fmt_hex(v, buflen) == fmt_hex_common(v, 0, buflen)
fmt_hex64_pad(v, width, buflen) == fmt_hex_common(v, Most(1, Least(width, 16)), buflen)

fmt_hex_bytes(bytes, buflen) ==
  Written([i \in 1..(2 * Len(bytes)) |->
             Digit(IF i % 2 = 1 THEN bytes[(i + 1) \div 2] \div 16 ELSE bytes[i \div 2] % 16)],
          buflen)
-----------------------------------------------------------------------------
(* Words.                                                                  *)

str_copy(src, dstlen) == Written(src, dstlen)
str_lower(s) == [i \in 1..Len(s) |-> Lower(s[i])]
str_upper(s) == [i \in 1..Len(s) |-> IF s[i] \in 97..122 THEN s[i] - 32 ELSE s[i]]
str_eq_ci(a, b) == str_lower(a) = str_lower(b)
str_starts_with(s, prefix) == IsPrefix(prefix, s)
str_ends_with(s, suffix) == IsSuffix(suffix, s)

Blank == {9, 10, 11, 12, 13, SPACE}
str_trim(s) ==
  LET ink == {i \in 1..Len(s) : s[i] \notin Blank}
  IN  IF ink = {} THEN <<>> ELSE SubSeq(s, Min(ink), Max(ink))

clamp_u32(v, lo, hi) == IF lo > hi \/ v < lo THEN lo ELSE Least(v, hi)
round_up_u32(v, m) ==
  IF m = 0 \/ v % m = 0 THEN v ELSE (v + (m - (v % m))) % (UINT_MAX + 1)
\* align is a power of two, so that clearing the mask rounds down.
align_ptr(p, align) == IF align = 0 THEN p ELSE ((p + align - 1) \div align) * align
-----------------------------------------------------------------------------
(* Strict parsing.  A parse is "too big", malformed, or a value.           *)

Refused == -1

\* One more digit of an unsigned number whose largest value is max.
NextDigit(v, c, max) ==
  IF v = Refused \/ ~IsDigit(c) \/ v > (max - (c - 48)) \div 10 THEN Refused
  ELSE v * 10 + (c - 48)

Unsigned(s, max) ==
  LET value[i \in 0..Len(s)] == IF i = 0 THEN 0 ELSE NextDigit(value[i - 1], s[i], max)
  IN  IF s = <<>> THEN Refused ELSE value[Len(s)]

parse_u32(s) == Unsigned(s, UINT_MAX)
parse_u64(s) == Unsigned(s, 16^HexWidth - 1)

parse_i32(s) ==
  LET neg == s # <<>> /\ s[1] = MINUS
      mag == IF s # <<>> /\ s[1] \in {MINUS, PLUS} THEN parse_u32(Tail(s)) ELSE parse_u32(s)
      ok  == mag # Refused /\ mag <= (IF neg THEN INT_MAX + 1 ELSE INT_MAX)
  IN  [ok |-> ok, value |-> IF ~ok THEN 0 ELSE IF neg THEN -mag ELSE mag]

True  == {<<49>>, <<116, 114, 117, 101>>, <<121, 101, 115>>, <<111, 110>>}
False == {<<48>>, <<102, 97, 108, 115, 101>>, <<110, 111>>, <<111, 102, 102>>}
parse_bool(s) ==
  IF \E w \in True : str_eq_ci(s, w) THEN "true"
  ELSE IF \E w \in False : str_eq_ci(s, w) THEN "false" ELSE "inval"

\* "123", "123ms", "5s", "2m".
UnitOf(unit) ==
  CASE unit \in {<<>>, <<109, 115>>} -> 1
    [] unit = <<115>> -> 1000
    [] unit = <<109>> -> 60000
    [] OTHER -> 0

parse_duration_ms(s) ==
  LET n    == Cardinality({i \in 1..Len(s) : \A j \in 1..i : IsDigit(s[j])})
      v    == parse_u32(SubSeq(s, 1, n))
      mult == UnitOf(str_lower(SubSeq(s, n + 1, Len(s))))
  IN  IF v = Refused \/ mult = 0 THEN Refused
      ELSE IF v > UINT_MAX \div mult THEN Refused ELSE v * mult
-----------------------------------------------------------------------------
(* Log lines.  A format is a sequence of directives, each with its own     *)
(* argument; the line is what they expand to, cut at the line's length.    *)

putc_at(line, buflen, text) == Written(line \o text, buflen)

log_fmt_u64(v, buflen) == putc_at(<<>>, buflen, Digits(v, 10))
log_fmt_i64(v, buflen) ==
  IF v < 0 THEN putc_at(<<MINUS>>, buflen, Digits(-v, 10)) ELSE log_fmt_u64(v, buflen)
log_fmt_hex(v, buflen) == putc_at(<<>>, buflen, Digits(v, 16))

put_str(s) == IF s = "NULL" THEN <<40, 110, 117, 108, 108, 41>> ELSE s

\* The digits pass through a buffer of HexWidth characters, which the NUL
\* shares with them.
fmt_pointer(p) ==
  IF p = 0 THEN <<40, 110, 105, 108, 41>>
  ELSE <<48, 120>> \o log_fmt_hex(p, HexWidth).kept

\* The text of a directive: a character, "%%", a conversion with its
\* argument, an unknown conversion (echoed), or a '%' that ends the format.
Expansion(d) ==
  CASE d.conv = "char" -> <<d.arg>>
    [] d.conv \in {"%%", "end"} -> <<37>>
    [] d.conv = "s" -> put_str(d.arg)
    [] d.conv = "d" -> log_fmt_i64(d.arg, 32).kept
    [] d.conv = "u" -> log_fmt_u64(d.arg, 32).kept
    [] d.conv = "x" -> log_fmt_hex(d.arg, 32).kept
    [] d.conv = "p" -> fmt_pointer(d.arg)
    [] OTHER -> d.arg

format_into(format, buflen) ==
  putc_at(<<>>, buflen, FlattenSeq([i \in 1..Len(format) |-> Expansion(format[i])]))

log_line(format) == format_into(format, XURY_LOG_LINE_MAX).kept

log_fmt_errno(tag, errno, buflen) ==
  putc_at(tag, buflen,
          IF errno = 0 THEN <<>>
          ELSE <<32, 40, 101, 114, 114, 110, 111, 61>> \o log_fmt_i64(errno, 16).kept \o <<41>>)

\* s between the occurrences of a separator: one more character opens a
\* field or goes into the last one.
NextField(fields, c, sep) ==
  IF c = sep THEN Append(fields, <<>>)
  ELSE [fields EXCEPT ![Len(fields)] = Append(fields[Len(fields)], c)]

Fields(s, sep) ==
  LET upto[i \in 0..Len(s)] == IF i = 0 THEN <<<<>>>> ELSE NextField(upto[i - 1], s[i], sep)
  IN  upto[Len(s)]
=============================================================================
