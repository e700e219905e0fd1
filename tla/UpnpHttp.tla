------------------------------ MODULE UpnpHttp ------------------------------
(***************************************************************************)
(* HTTP as the UPnP weapon reads it (src/weapons/upnp_http.c).  A response *)
(* on the wire is a sequence of units: a status line, header lines, line   *)
(* ends, and the units of the body.  Buffers are counted in units.         *)
(***************************************************************************)
EXTENDS Sock, UpnpXml

CONSTANTS HTTP_HDR_CAP    \* the room for a response's headers

ASSUME UpnpHttpAssumption == HTTP_HDR_CAP \in Nat \ {0}

CRLF == [kind |-> "crlf"]
StatusLine(n) == [kind |-> "status", value |-> n]
Header(name, value) == [kind |-> "header", name |-> name, value |-> value]

HeaderLines(r) ==
  (IF r.length = -1 THEN <<>> ELSE <<Header("content-length", r.length), CRLF>>) \o
  (IF r.coding = "plain" THEN <<>> ELSE <<Header("transfer-encoding", r.coding), CRLF>>)

Wire(r) == <<StatusLine(r.status), CRLF>> \o HeaderLines(r) \o <<CRLF>> \o r.body

\* read_headers has seen the end of the headers once two line ends follow
\* one another, wherever the stream was cut into receives.
HeadersEnd(buf) ==
  FirstOf({i \in 1..Len(buf) - 1 : buf[i] = CRLF /\ buf[i + 1] = CRLF})

body_off(buf) == HeadersEnd(buf) + 2

\* find_header_value: the first header line of that name.
find_header_value(buf, name) ==
  LET named == {i \in 1..HeadersEnd(buf) : buf[i].kind = "header" /\ buf[i].name = name}
  IN IF named = {} THEN <<>> ELSE <<buf[Min(named)].value>>

Failure(rc) == [rc |-> rc, status |-> 0, body |-> <<>>, truncated |-> FALSE]

\* The status line, no chunked coding; then a declared length, but for the
\* two statuses that have no body.
parse_status_and_headers(buf) ==
  IF buf[1].kind # "status" THEN "BAD_ENDPOINT"
  ELSE IF find_header_value(buf, "transfer-encoding") = <<"chunked">> THEN "NOT_SUPPORTED"
  ELSE "OK"

parse_dec(value) == IF value = <<>> THEN -1 ELSE value[1]

\* What is known once the headers are in: an end, or a body of so many
\* units to read.
Known(buf) ==
  LET rc     == parse_status_and_headers(buf)
      length == parse_dec(find_header_value(buf, "content-length"))
  IN IF rc # "OK" THEN Failure(rc)
     ELSE IF length # -1 THEN [rc |-> "MORE", status |-> buf[1].value, length |-> length]
     ELSE IF buf[1].value \in {204, 304} THEN [Failure("OK") EXCEPT !.status = buf[1].value]
     ELSE Failure("BAD_ENDPOINT")

\* read_body: what came along with the headers is the body's beginning, as
\* far as the declared length goes.
Already(buf, length) ==
  LET rest == SubSeq(buf, body_off(buf), Len(buf))
  IN SubSeq(rest, 1, Min({Len(rest), length}))

\* Fault: what came along with the headers is forgotten.
Forgotten(buf, length, cap) == <<>>
BodySoFar(buf, length, cap) ==
  SubSeq(Already(buf, length), 1, Min({Len(Already(buf, length)), cap}))

\* How many units the next receive may bring; 0: the body is read.
Wanted(got, length, cap) == Min({length, cap}) - Len(got)

BodyRead(status, got, length) ==
  [rc |-> "OK", status |-> status, body |-> got, truncated |-> Len(got) < length]
-----------------------------------------------------------------------------
\* What a reader of the response should make of it: reference definition.
Meant(r, cap) ==
  IF r.coding = "chunked" THEN Failure("NOT_SUPPORTED")
  ELSE IF r.length = -1
  THEN IF r.status \in {204, 304} THEN [Failure("OK") EXCEPT !.status = r.status]
       ELSE Failure("BAD_ENDPOINT")
  ELSE IF Len(r.body) < Min({r.length, cap}) THEN Failure("BAD_ENDPOINT")
  ELSE [rc |-> "OK", status |-> r.status, truncated |-> r.length > cap,
        body |-> SubSeq(r.body, 1, Min({r.length, cap}))]
=============================================================================
