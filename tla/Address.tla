------------------------------- MODULE Address -------------------------------
(***************************************************************************)
(* Addresses, endpoints and peer identifiers: src/src/api/types.c.  An     *)
(* address is a sequence of 4 or 16 bytes, an endpoint a record            *)
(* [family, ip, port] whose ip is text, a peer identifier a sequence of    *)
(* PEER_ID_SIZE bytes (32 in the code).                                    *)
(***************************************************************************)
EXTENDS Text

CONSTANTS PEER_ID_SIZE, ENDPOINT_IP_MAX

ASSUME AddressAssumption == PEER_ID_SIZE \in Nat /\ ENDPOINT_IP_MAX \in Nat /\ ENDPOINT_IP_MAX >= 46

\* The code's order of families: UNSPEC, INET, INET6.
family_addr_len == <<0, 4, 16>>
UNSPEC == 1  INET == 2  INET6 == 3

FamilyNames == [ipv4 |-> INET, inet |-> INET, four |-> INET,
                ipv6 |-> INET6, inet6 |-> INET6, six |-> INET6]
family_from_name(name) == IF name \in DOMAIN FamilyNames THEN FamilyNames[name] ELSE UNSPEC
family_name(family) == CASE family = INET -> "ipv4" [] family = INET6 -> "ipv6" [] OTHER -> "unspec"

OPEN == 91  CLOSE == 93
UINT16_MAX == 65535
-----------------------------------------------------------------------------
(* Parsing.  <<>> is the address of a text that is none.                   *)

\* "0" is an octet and "01" is not.
ipv4_octet(t) ==
  IF t = <<>> \/ (Len(t) > 1 /\ t[1] = 48) THEN Refused ELSE Unsigned(t, 255)

ipv4_parse(s) ==
  LET f == Fields(s, DOT)
      octet == [i \in 1..Len(f) |-> ipv4_octet(f[i])]
  IN  IF Len(f) # 4 \/ \E i \in 1..Len(f) : octet[i] = Refused THEN <<>> ELSE octet

hex_value(c) == CASE IsDigit(c) -> c - 48 [] Lower(c) \in 97..102 -> Lower(c) - 87 [] OTHER -> -1

ipv6_group(t) ==
  IF Len(t) \notin 1..4 \/ \E i \in 1..Len(t) : hex_value(t[i]) < 0 THEN Refused
  ELSE LET value[i \in 0..Len(t)] == IF i = 0 THEN 0 ELSE value[i - 1] * 16 + hex_value(t[i])
       IN  value[Len(t)]

\* An empty field between two colons is a run of zero groups; there is at
\* most one, and at an end of the text the two colons leave two of them.
ipv6_parse(s) ==
  LET f     == Fields(s, COLON)
      n     == Len(f)
      empty == {i \in 1..n : f[i] = <<>>}
      group == [i \in 1..n |-> ipv6_group(f[i])]
      whole == empty = {} /\ n = 8
      run   == /\ \/ n = 3 /\ empty = 1..3
                  \/ n > 2 /\ empty \in {{1, 2}, {n - 1, n}}
                  \/ \E i \in 2..(n - 1) : empty = {i}
               /\ n - Cardinality(empty) < 8
      value(k) == IF whole \/ k < Min(empty) THEN group[k]
                  ELSE IF k > 8 - (n - Max(empty)) THEN group[n - (8 - k)] ELSE 0
      byte(i) == IF i % 2 = 1 THEN value((i + 1) \div 2) \div 256 ELSE value(i \div 2) % 256
  IN  IF (~whole /\ ~run) \/ \E i \in (1..n) \ empty : group[i] = Refused THEN <<>>
      ELSE [i \in 1..16 |-> byte(i)]

\* IPv4 first; the family is the length of the address found.
parse_ip(s) == IF ipv4_parse(s) # <<>> THEN ipv4_parse(s) ELSE ipv6_parse(s)
FamilyOf(addr) == CASE Len(addr) = 4 -> INET [] Len(addr) = 16 -> INET6 [] OTHER -> UNSPEC
-----------------------------------------------------------------------------
(* Formatting into a buffer: at is the position the code counts to, text   *)
(* what the buffer holds.  A separator is counted whether or not it fits;  *)
(* of a number only the characters that fit are counted.                   *)

Empty == [at |-> 0, text |-> <<>>]
Room(out, buflen) == Most(buflen - 1 - out.at, 0)

Separator(out, buflen, c) ==
  [at |-> out.at + 1, text |-> IF Room(out, buflen) > 0 THEN out.text \o <<c>> ELSE out.text]

Number(out, buflen, digits) ==
  LET n == Least(Len(digits), Room(out, buflen))
  IN  [at |-> out.at + n, text |-> out.text \o SubSeq(digits, 1, n)]

ipv4_format(addr, buflen) ==
  LET Octet(out, i) == Number(IF i = 1 THEN out ELSE Separator(out, buflen, DOT),
                              buflen, Digits(addr[i], 10))
      upto[i \in 0..4] == IF i = 0 THEN Empty ELSE Octet(upto[i - 1], i)
  IN  upto[4]

\* The first of the longest runs of two or more zero groups; none is 0..-1.
ZeroRun(group) ==
  LET Run(a, b) == a < b /\ \A k \in a..b : group[k] = 0
      lengths == {q[2] - q[1] : q \in {r \in (1..8) \X (1..8) : Run(r[1], r[2])}}
  IN  IF lengths = {} THEN 0..-1
      ELSE LET a == Min({a \in 1..8 : a + Max(lengths) <= 8 /\ Run(a, a + Max(lengths))})
           IN  a..(a + Max(lengths))

ipv6_format(addr, buflen) ==
  LET group == [k \in 1..8 |-> addr[2 * k - 1] * 256 + addr[2 * k]]
      run   == ZeroRun(group)
      Colon(out) == Separator(out, buflen, COLON)
      Group(out, k) ==
        IF k \in run THEN IF k - 1 \in run THEN out ELSE Colon(Colon(out))
        ELSE Number(IF k = 1 \/ k - 1 \in run THEN out ELSE Colon(out),
                    buflen, Digits(group[k], 16))
      upto[k \in 0..8] == IF k = 0 THEN Empty ELSE Group(upto[k - 1], k)
  IN  upto[8]

format_ip(family, addr, buflen) ==
  LET out == IF family = INET THEN ipv4_format(addr, buflen) ELSE ipv6_format(addr, buflen)
  IN  CASE buflen = 0 -> [rc |-> "INVAL", text |-> <<>>]
        [] family = UNSPEC \/ Len(addr) # family_addr_len[family] -> [rc |-> "BAD_FAMILY", text |-> <<>>]
        [] OTHER -> [rc   |-> IF out.at + 1 > buflen THEN "BUFFER_TOO_SMALL" ELSE "OK",
                     text |-> out.text]
-----------------------------------------------------------------------------
(* Endpoints.                                                              *)

endpoint_set_ip(ep, addr) ==
  [ep EXCEPT !.ip = format_ip(FamilyOf(addr), addr, ENDPOINT_IP_MAX).text, !.family = FamilyOf(addr)]

\* The endpoint is left alone when its text is not an address of its family.
endpoint_canonicalize(ep) ==
  LET addr == parse_ip(ep.ip)
  IN  IF ep.family = UNSPEC \/ addr = <<>> \/ FamilyOf(addr) # ep.family THEN ep
      ELSE endpoint_set_ip(ep, addr)

endpoint_valid(ep) == ep.family # UNSPEC /\ parse_ip(ep.ip) # <<>>

\* The address, or <<>>; the family of the text need not be the endpoint's.
endpoint_to_bytes(ep) == IF ep.family = UNSPEC THEN <<>> ELSE parse_ip(ep.ip)

endpoint_is_loopback(ep) ==
  LET a == endpoint_to_bytes(ep)
  IN  \/ Len(a) = 4 /\ a[1] = 127
      \/ a = [i \in 1..16 |-> IF i = 16 THEN 1 ELSE 0]
endpoint_is_link_local(ep) ==
  LET a == endpoint_to_bytes(ep)
  IN  \/ Len(a) = 4 /\ a[1] = 169 /\ a[2] = 254
      \/ Len(a) = 16 /\ a[1] = 254 /\ a[2] \in 128..191
endpoint_is_multicast(ep) ==
  LET a == endpoint_to_bytes(ep)
  IN  \/ Len(a) = 4 /\ a[1] \in 224..239
      \/ Len(a) = 16 /\ a[1] = 255
endpoint_is_private(ep) ==
  LET a == endpoint_to_bytes(ep)
  IN  \/ /\ Len(a) = 4
         /\ \/ a[1] = 10
            \/ a[1] = 172 /\ a[2] \in 16..31
            \/ a[1] = 192 /\ a[2] = 168
      \/ Len(a) = 16 /\ a[1] \in 252..253
endpoint_is_global_v6(ep) ==
  LET a == endpoint_to_bytes(ep) IN Len(a) = 16 /\ a[1] \in 32..63

\* Fault: the hash is fed the text of the address.
HashOfText(ep) == <<ep.family>> \o ep.ip \o <<ep.port % 256, ep.port \div 256>>

\* FNV-1a is a function of the bytes it is fed, which stand for it.
endpoint_hash(ep) ==
  LET a == endpoint_to_bytes(ep)
  IN  <<ep.family>> \o (IF a # <<>> THEN a ELSE ep.ip) \o <<ep.port % 256, ep.port \div 256>>

\* memcmp and strcmp of two sequences of codes: -1, 0 or 1.
Compared(s, t) ==
  LET n == Least(Len(s), Len(t))
      differ == {i \in 1..n : s[i] # t[i]}
  IN  IF differ # {} THEN IF s[Min(differ)] < t[Min(differ)] THEN -1 ELSE 1
      ELSE IF Len(s) = Len(t) THEN 0 ELSE IF Len(s) < Len(t) THEN -1 ELSE 1

\* Family, then address bytes, or the texts when a side has no bytes of the
\* other's length, then port.
endpoint_compare(a, b) ==
  LET x == endpoint_to_bytes(a)  y == endpoint_to_bytes(b)
      address == IF x # <<>> /\ Len(x) = Len(y) THEN Compared(x, y) ELSE Compared(a.ip, b.ip)
  IN  IF a.family # b.family THEN Compared(<<a.family>>, <<b.family>>)
      ELSE IF address # 0 THEN address ELSE Compared(<<a.port>>, <<b.port>>)

endpoint_clear == [family |-> UNSPEC, ip |-> <<>>, port |-> 0]
endpoint_equal(a, b) == a = b

endpoint_to_string(ep, buflen) ==
  LET v6   == ep.family = INET6
      host == IF v6 THEN <<OPEN>> \o ep.ip \o <<CLOSE>> ELSE ep.ip
      text == host \o <<COLON>> \o Digits(ep.port, 10)
  IN  IF buflen = 0 THEN [rc |-> "INVAL", text |-> <<>>]
      ELSE IF ep.family = UNSPEC THEN [rc |-> "BAD_ENDPOINT", text |-> <<>>]
      ELSE IF Len(text) + 1 > buflen THEN [rc |-> "BUFFER_TOO_SMALL", text |-> <<>>]
      ELSE [rc |-> "OK", text |-> text]

\* The host ends at the first ']' or, without brackets, at the first ':'.
endpoint_from_string(s) ==
  LET v6     == s # <<>> /\ s[1] = OPEN
      ends   == {i \in 1..Len(s) : s[i] = IF v6 THEN CLOSE ELSE COLON}
      end    == Min(ends)
      ip     == SubSeq(s, IF v6 THEN 2 ELSE 1, end - 1)
      digits == SubSeq(s, IF v6 THEN end + 2 ELSE end + 1, Len(s))
      port   == Unsigned(digits, UINT16_MAX)
      family == IF v6 THEN INET6 ELSE INET
      Fails(rc) == [rc |-> rc, ep |-> endpoint_clear]
  IN  CASE ends = {} \/ (v6 /\ (end = Len(s) \/ s[end + 1] # COLON)) -> Fails("BAD_ENDPOINT")
        [] ip = <<>> \/ Len(ip) >= ENDPOINT_IP_MAX -> Fails("BAD_ENDPOINT")
        [] port = Refused -> Fails("BAD_PORT")
        [] parse_ip(ip) = <<>> -> Fails("BAD_ENDPOINT")
        [] FamilyOf(parse_ip(ip)) # family -> Fails("BAD_FAMILY")
        [] OTHER -> [rc |-> "OK", ep |-> [family |-> family, ip |-> ip, port |-> port]]
-----------------------------------------------------------------------------
(* Peer identifiers.                                                       *)

peer_id_hash(id) == id
peer_id_compare(a, b) == Compared(a, b)
peer_id_equal(a, b) == a = b
peer_id_is_zero(id) == \A i \in 1..PEER_ID_SIZE : id[i] = 0

peer_id_to_string(id, buflen) ==
  IF buflen < PEER_ID_SIZE * 2 + 1 THEN [rc |-> "BUFFER_TOO_SMALL", text |-> <<>>]
  ELSE [rc |-> "OK", text |-> fmt_hex_bytes(id, buflen).kept]

peer_id_from_string(s) ==
  LET bare == IF Len(s) >= 2 /\ s[1] = 48 /\ Lower(s[2]) = 120 THEN SubSeq(s, 3, Len(s)) ELSE s
  IN  IF Len(bare) # PEER_ID_SIZE * 2 \/ \E i \in 1..Len(bare) : hex_value(bare[i]) < 0
      THEN <<>>
      ELSE [i \in 1..PEER_ID_SIZE |-> hex_value(bare[2 * i - 1]) * 16 + hex_value(bare[2 * i])]

\* Not wired to the random source.
peer_id_random == "NOT_IMPLEMENTED"
=============================================================================
