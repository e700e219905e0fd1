-------------------------------- MODULE MCApi --------------------------------
(* Small inputs for every tool, and the facts about the library's pure       *)
(* functions that need no session.                                           *)
EXTENDS Api, Memory, Version

S == INSTANCE Sock WITH UINT32_MAX <- UINT_MAX

ToolsAll == {"text", "order", "context", "buffer", "config", "ports"}

\* Address bytes around the cases of the formatter: no run of zero groups,
\* one at either end or in the middle, two equal ones, and only zeros.
V6(groups) == [i \in 1..16 |-> IF i % 2 = 1 THEN groups[(i + 1) \div 2] \div 256
                               ELSE groups[i \div 2] % 256]
Addresses ==
  {<<0, 0, 0, 0>>, <<127, 0, 0, 1>>, <<192, 168, 10, 255>>,
   V6(<<0, 0, 0, 0, 0, 0, 0, 0>>), V6(<<0, 0, 0, 0, 0, 0, 0, 1>>),
   V6(<<65152, 0, 0, 0, 0, 0, 0, 0>>), V6(<<8193, 3512, 0, 0, 1, 0, 0, 1>>),
   V6(<<8193, 0, 3, 4, 5, 6, 7, 4660>>), V6(<<1, 2, 3, 4, 5, 6, 7, 8>>)}
Endpoint(addr, port) == [endpoint_set_ip(endpoint_clear, addr) EXCEPT !.port = port]
Endpoints == {Endpoint(a, p) : a \in Addresses, p \in {0, 9, 65535}}

Values1 ==
  {[kind |-> "u32", value |-> v] : v \in {0, 9, 10, 4095, UINT_MAX}}
  \cup {[kind |-> "i32", value |-> v] : v \in {-INT_MAX - 1, -1, 0, 1, INT_MAX}}
  \cup {[kind |-> "mask", value |-> v] :
          v \in {{}, {"IPV6"}, {"UPGRADE", "BIRTHDAY"}, {"NATPMP", "PCP", "MIRROR"}, Weapons}}
  \cup {[kind |-> "peer", value |-> v] : v \in {<<0, 0>>, <<1, 171>>, <<255, 16>>}}
  \cup {[kind |-> "endpoint", value |-> v] : v \in Endpoints}
Lengths1 == (0..16) \cup {17, 18, 24, 47, 48, 64, 80}

\* Endpoints of three addresses, and some a host may have filled in: another
\* spelling of an address, no address, and an address of the other family.
Loopback == V6(<<0, 0, 0, 0, 0, 0, 0, 1>>)
Compareds1 ==
  {Endpoint(a, p) : a \in {<<9, 0, 0, 1>>, <<10, 0, 0, 1>>, Loopback}, p \in {1, 256}}
  \cup {[family |-> INET6, ip |-> <<48, COLON, COLON, 49>>, port |-> 1],
        [family |-> INET6, ip |-> <<57>>, port |-> 1],
        [family |-> INET, ip |-> <<>>, port |-> 1],
        [family |-> INET, ip |-> <<COLON, COLON, 49>>, port |-> 1],
        endpoint_clear}

Labels1 == {<<1>>, <<2>>, <<1, 2, 3, 4>>}

Fields1 ==
  {[kind |-> "be", bytes |-> <<1, 2>>], [kind |-> "le", bytes |-> <<3, 4>>],
   [kind |-> "lp8", bytes |-> <<>>], [kind |-> "lp8", bytes |-> <<5>>],
   [kind |-> "lp8", bytes |-> <<5, 6, 7>>],
   [kind |-> "lp8", bytes |-> <<5, 6, 7, 8>>],
   [kind |-> "raw", bytes |-> <<9>>], [kind |-> "zero", bytes |-> <<0, 0>>]}

Numbers1(n) ==
  {[m \in NumberNames |-> IF m = n THEN v ELSE 0] :
     v \in {Bounds[n][1] - 1, Bounds[n][1], Bounds[n][2], Bounds[n][2] + 1}}
Configs1 ==
  LET Cfg(version, weapons, flags, numbers, iface, alloc) ==
        [version |-> version, strategy |-> "AUTO", weapons |-> weapons, flags |-> flags,
         numbers |-> numbers, iface |-> iface, port |-> 0, allocator |-> alloc, storage |-> {}]
      some == [n \in NumberNames |-> 0]
      masks == {{}, {"BIRTHDAY"}, {"HOLE", "UPGRADE"}, {"UPNP"}, Weapons, {"LAN", NoWeapon}}
      flags == {{}, Flags, Flags \ {"relay"}, Flags \ {"sweet_aggressive"}, {"strike", "sweet"}}
  IN  {Cfg(v, w, f, some, "eth0", {}) : v \in {0, 1, 2}, w \in masks, f \in flags}
      \cup {Cfg(1, {"HOLE"}, {}, n, "eth0", Allocator) : n \in UNION {Numbers1(n) : n \in NumberNames}}
      \cup {Cfg(1, {}, {}, some, "unterminated", {}), Cfg(1, {}, {}, some, "eth0", {"malloc"})}

cfg1 == [variance |-> 1, tolerance |-> 10, min_samples |-> 3]
-----------------------------------------------------------------------------
(* A bounded draw is uniform: as many accepted numbers give one remainder    *)
(* as another.                                                               *)
ASSUME DrawsAreUniform ==
  \A bound \in 1..15 : \A r, q \in 0..(bound - 1) :
    LET Gives1(x) == Cardinality({v \in 0..(RejectFrom(bound) - 1) : rand_fast_below(bound, <<v>>) = x})
    IN  Gives1(r) = Gives1(q)

(* An array is granted as a whole or refused, whatever its size multiplies   *)
(* to.                                                                       *)
ASSUME ArraysAreWhole ==
  \A count, size \in 0..31 :
    LET got == mem_alloc_array(NoStats, count, size, TRUE)
    IN  got.rc = "OK" => got.block = count * size /\ got.stats.live = count * size

(* Walking a mask from each weapon to the next visits its weapons once each, *)
(* in priority order.                                                        *)
ASSUME MasksAreWalked ==
  \A mask \in SUBSET {"IPV6", "PCP", "RELAY", "BIRTHDAY"} :
    LET walk[k \in 0..5] ==
          IF k = 0 THEN [weapon |-> NoWeapon, mask |-> mask]
          ELSE mask_next(walk[k-1].mask, walk[k-1].weapon)
    IN  [k \in 1..mask_count(mask) |-> walk[k].weapon] = InPriority(mask)

(* The socket layer and the library translate an errno to one code.          *)
ASSUME TablesAgree == \A e \in S!Errnos : err_from_errno(e) = S!sock_errno_to_xury[e]

(* An expected errno is translated there and back.                           *)
ASSUME ErrnosReturn ==
  \A e \in {"ERANGE", "ENOMEM", "ETIMEDOUT", "EAGAIN", "EPIPE", "EADDRINUSE", "EAFNOSUPPORT"} :
    err_to_errno(err_from_errno(e)) = e

(* A version's own string parses to its code, up to 255 a part.              *)
ASSUME VersionsParse ==
  \A v \in {<<0, 0, 1>>, <<1, 2, 3>>, <<10, 255, 0>>} : version_self_check(v, v)

(* The host's byte order cancels out.                                        *)
ASSUME OrderCancels ==
  \A v \in {<<1, 2>>, <<1, 2, 3, 4>>} : betoh(htobe(v)) = v /\ letoh(htole(v)) = v
    /\ htobe(v) = bswap(htole(v))

(* An address has one scope at most, and an endpoint's canonical text is the *)
(* same address, canonical already.                                          *)
ASSUME ScopesAreDisjoint ==
  \A ep \in Endpoints :
    Cardinality({k \in 1..5 : <<endpoint_is_loopback(ep), endpoint_is_link_local(ep),
       endpoint_is_multicast(ep), endpoint_is_private(ep), endpoint_is_global_v6(ep)>>[k]}) <= 1
ASSUME CanonicalIsStable ==
  \A ep \in Compareds1 :
    LET canonical == endpoint_canonicalize(ep)
    IN  /\ endpoint_canonicalize(canonical) = canonical
        /\ endpoint_compare(ep, canonical) = 0

(* "100ms", "5s" and "2M" are durations; "3m" is more than a uint32_t of     *)
(* this instance holds, and "5x", "s" and "" are none.                       *)
ASSUME DurationsParse ==
  /\ parse_duration_ms(<<49, 48, 48, 109, 115>>) = 100
  /\ parse_duration_ms(<<53, 115>>) = 5000
  /\ parse_duration_ms(<<50, 77>>) = 120000
  /\ \A s \in {<<51, 109>>, <<53, 120>>, <<115>>, <<>>} : parse_duration_ms(s) = Refused

(* A log line never outgrows its buffer, and the error context is what the   *)
(* innermost frames are called.                                              *)
ASSUME LinesFit ==
  \A v \in {0, -1, INT_MAX, -INT_MAX - 1} :
    LET format == <<[conv |-> "char", arg |-> 101], [conv |-> "d", arg |-> v],
                    [conv |-> "x", arg |-> INT_MAX], [conv |-> "p", arg |-> 0],
                    [conv |-> "s", arg |-> "NULL"], [conv |-> "end", arg |-> 0]>>
    IN  Len(log_line(format)) = Least(XURY_LOG_LINE_MAX - 1, format_into(format, 1).need)
ASSUME ContextReads ==
  LET stack == err_push_context(err_push_context(<<>>, <<1>>), <<2>>)
  IN  /\ err_context_at(stack, 0) = <<1>> /\ err_context_at(stack, 2) = "NULL"
      /\ err_context_format(stack, 9).kept = <<1, SPACE, MINUS, 62, SPACE, 2>>
=============================================================================
