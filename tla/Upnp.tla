-------------------------------- MODULE Upnp --------------------------------
(***************************************************************************)
(* The UPnP weapon (src/weapons/upnp.c): search for a gateway by SSDP, get *)
(* its description over HTTP, find the service to ask, and post            *)
(* AddPortMapping to it.  Calls follow one another.                        *)
(*                                                                         *)
(* The network and the gateway are external: anyone may answer a search;   *)
(* the stream of an HTTP response comes in pieces cut anywhere, and may    *)
(* stall, be reset or be closed at any point; the gateway may take a       *)
(* mapping and its answer be lost.                                         *)
(***************************************************************************)
EXTENDS UpnpHttp

CONSTANTS Peers,          \* the peer endpoints given, [family, ip, port]
          LocalPorts,     \* the local ports given, 0 for none
          Replies,        \* what may answer a search: sequences of lines
          Gateways,       \* the lists of services a gateway may offer
          Lengths,        \* by how much a declared length may be wrong
          Statuses,       \* the statuses of responses
          UPNP_DESC_CAP, UPNP_SOAP_CAP, CONTROL_CAP,    \* buffers, in units
          SSDP_MX, SLICE, UPNP_HTTP_TIMEOUT,            \* times, in units
          MaxCalls, MaxReplies, Slop                    \* bounds of the model

\* What a gateway's description says of a service.
Services == [type : STRING, form : STRING, path : STRING]

ASSUME UpnpAssumption ==
  /\ LocalPorts \subseteq Nat /\ Lengths \subseteq Int /\ Statuses \subseteq Int
  /\ Gateways \subseteq Seq(Services)
  /\ UPNP_DESC_CAP \in Nat /\ UPNP_SOAP_CAP \in Nat /\ CONTROL_CAP \in Nat \ {0}
  /\ SSDP_MX \in Nat /\ SLICE \in Nat \ {0} /\ UPNP_HTTP_TIMEOUT \in Nat \ {0}
  /\ MaxCalls \in Nat /\ MaxReplies \in Nat /\ Slop \in Nat

VARIABLES
  pc,        \* "idle", "search", "listen", "hear", "connect", "connecting",
             \* "send", "headers", "body"
  calls,     \* how many calls have begun
  call,      \* what was asked for: peer, port
  end,       \* how the last call ended
  now,       \* time since the search, or the current wait, began
  since,     \* when the current wait began
  replies,   \* how many answers the search has had
  url,       \* where the description is: ep, path
  step,      \* the exchange under way: "get" or "post"
  target,    \* the service to post to: type, path
  unsent,    \* units of the request still to be sent
  buf,       \* the header buffer
  got,       \* the body read so far
  head,      \* what the headers said, once they are in
  outcome,   \* how the last exchange ended
  gateway,   \* the services the gateway offers
  response,  \* the response the gateway is giving, or None
  stream,    \* what of it has still to come
  closed,    \* "open", "closed" or "reset": how the stream ends
  trouble,   \* history: did the network or the gateway spoil the exchange
  mapped     \* the mappings the gateway has made

clock == <<now, since>>
asked == <<calls, call>>
reading == <<buf, got, head>>
remote == <<response, stream, closed, trouble>>
vars == <<pc, asked, end, clock, replies, url, step, target, unsent, reading, outcome,
          gateway, remote, mapped>>

None == [kind |-> "none"]
Line(name, value) == [name |-> name, value |-> value]
BlankLine == Line("", "")
-----------------------------------------------------------------------------
(* What is read out of a reply, a URL and a description.                   *)

\* The first header line of that name before the first blank line.
ssdp_find_header(reply, name) ==
  LET blank == FirstOf({i \in 1..Len(reply) : reply[i] = BlankLine})
      last  == IF blank = 0 THEN Len(reply) ELSE blank - 1
      named == {i \in 1..last : reply[i].name = name}
  IN IF named = {} THEN None ELSE reply[Min(named)].value

\* A LOCATION that fits and says http; other replies are dropped.
UsableLocation(location) ==
  location # None /\ location.size = "fits" /\ location.scheme = "http"

\* The parts must fit and the port be one; a host that is no address is
\* found out when the socket is connected.
parse_location_url(location) ==
  IF \/ location.host \in {"", "too long"} \/ location.path = "too long"
     \/ location.port \notin {-1} \cup 0..65535
  THEN None
  ELSE [ep   |-> [family |-> "inet", ip |-> location.host,
                  port   |-> IF location.port = -1 THEN 80 ELSE location.port],
        path |-> IF location.path = "" THEN "/" ELSE location.path]

UPNP_SERVICE_TYPES == <<"WANIPConnection:1", "WANIPConnection:2", "WANPPPConnection:1">>
Url(form, path) == [kind |-> "url", name |-> path, form |-> form]

\* A relative path, or the path of an absolute URL; no other form.
control_path(control) ==
  IF control.form \in {"path", "absolute"} THEN control.name ELSE "none"

\* The first of the types that stands anywhere in the document, and the
\* first control URL of the document, whichever service that is of.
extract_service_info(doc) ==
  LET named == {i \in 1..3 : \E k \in 1..Len(doc) : doc[k] = Text(UPNP_SERVICE_TYPES[i])}
      found == xml_find_str(doc, "controlURL", CONTROL_CAP)
  IN IF named = {} \/ found.rc # "OK" \/ found.text = <<>> THEN None
     ELSE [type |-> UPNP_SERVICE_TYPES[Min(named)], path |-> control_path(found.text[1])]

\* The SOAP request as the gateway reads it: the port is mapped to the
\* address the caller gave as its peer's.
build_add_port_mapping(peer, port) == [client |-> peer.ip, port |-> port]
build_soapaction(type) == type

\* A fault with status 200 is a fault; one the buffer cut off goes unseen.
\* Fault: only the status is looked at.
StatusOnly(result) == result.rc = "OK" /\ result.status = 200
Accepted(result) ==
  result.rc = "OK" /\ result.status = 200 /\ ~xml_present(result.body, "UPnPError")

GoodDescription(result) ==
  result.rc = "OK" /\ result.status = 200 /\ ~result.truncated /\ result.body # <<>>
-----------------------------------------------------------------------------
NoRead == buf' = <<>> /\ got' = <<>> /\ head' = None
NoStream == response' = None /\ stream' = <<>> /\ closed' = "open" /\ trouble' = FALSE

Init ==
  /\ pc = "idle" /\ calls = 0 /\ call = None /\ end = [rc |-> "OK", success |-> FALSE]
  /\ now = 0 /\ since = 0 /\ replies = 0 /\ url = None /\ step = "get" /\ target = None
  /\ unsent = 0 /\ buf = <<>> /\ got = <<>> /\ head = None /\ outcome = None
  /\ gateway \in Gateways
  /\ response = None /\ stream = <<>> /\ closed = "open" /\ trouble = FALSE /\ mapped = {}

\* Refused as an argument, or not applicable; else the search begins.
Begin ==
  /\ pc = "idle" /\ calls < MaxCalls
  /\ calls' = calls + 1
  /\ \E peer \in Peers, port \in LocalPorts, upnp_available \in BOOLEAN :
       IF peer.family # "inet" \/ peer.ip = "" \/ peer.port = 0
       THEN end' = [rc |-> "INVAL", success |-> FALSE] /\ UNCHANGED <<pc, call>>
       ELSE IF ~upnp_available \/ port = 0
       THEN end' = [rc |-> "OK", success |-> FALSE] /\ UNCHANGED <<pc, call>>
       ELSE /\ end' = [rc |-> "running", success |-> FALSE]
            /\ pc' = "search" /\ call' = [peer |-> peer, port |-> port]
  /\ outcome' = None
  /\ UNCHANGED <<clock, replies, url, step, target, unsent, reading, gateway, remote, mapped>>

\* Every way out closes the socket and reports no error.
Finish(success) ==
  /\ pc' = "idle" /\ call' = None /\ end' = [rc |-> "OK", success |-> success]
  /\ now' = 0 /\ since' = 0 /\ replies' = 0 /\ url' = None /\ step' = "get" /\ target' = None
  /\ unsent' = 0 /\ NoRead /\ NoStream
-----------------------------------------------------------------------------
(* SSDP discovery.                                                         *)

Wildcard == [family |-> "inet", ip |-> "inet", port |-> 0]
Multicast == [family |-> "inet", ip |-> "inet", port |-> 1900]

ssdp_discover ==
  /\ pc = "search"
  /\ \E a \in [{"socket", "fcntl", "bind", "sendto"} -> {"ok", "ENOMEM"}], short \in BOOLEAN :
       IF /\ sock_create("inet", a.socket, a.fcntl) = "OK"
          /\ sock_bind(Wildcard, a.bind) = "OK"
          /\ sock_sendto(Multicast, a.sendto, short) = "OK"
       THEN /\ pc' = "listen"
            /\ UNCHANGED <<call, end, clock, replies, url, step, target, unsent, reading, remote>>
       ELSE Finish(FALSE)
  /\ UNCHANGED <<calls, outcome, gateway, mapped>>

\* Fault: the deadline is missed when it is slept past.
EqualOnly == now = SSDP_MX
SearchOver == now >= SSDP_MX

SearchEnds ==
  /\ pc = "listen"
  /\ SearchOver
  /\ Finish(FALSE)
  /\ UNCHANGED <<calls, outcome, gateway, mapped>>

Slice == Min({SLICE, SSDP_MX - now})

Listen ==
  /\ pc = "listen"
  /\ ~SearchOver
  /\ pc' = "hear" /\ since' = now
  /\ UNCHANGED <<asked, end, now, replies, url, step, target, unsent, reading, outcome, gateway,
                 remote, mapped>>

\* A reply comes: the first usable one ends the search.
Hear ==
  /\ pc = "hear" /\ replies < MaxReplies
  /\ \E reply \in Replies :
       LET location == ssdp_find_header(reply, "location")
       IN IF ~UsableLocation(location)
          THEN /\ pc' = "listen" /\ replies' = replies + 1
               /\ UNCHANGED <<call, end, clock, url, step, target, unsent, reading, remote>>
          ELSE IF parse_location_url(location) = None THEN Finish(FALSE)
          ELSE /\ pc' = "connect" /\ url' = parse_location_url(location)
               /\ now' = 0 /\ since' = 0 /\ replies' = 0
               /\ UNCHANGED <<call, end, step, target, unsent, reading, remote>>
  /\ UNCHANGED <<calls, outcome, gateway, mapped>>

HearsNothing ==
  /\ pc = "hear"
  /\ SelectReturns(SLICE, since, now, FALSE) \/ now >= SSDP_MX
  /\ pc' = "listen"
  /\ UNCHANGED <<asked, end, clock, replies, url, step, target, unsent, reading, outcome, gateway,
                 remote, mapped>>

HearFails ==
  /\ pc = "hear"
  /\ Finish(FALSE)
  /\ UNCHANGED <<calls, outcome, gateway, mapped>>
-----------------------------------------------------------------------------
(* An exchange: connect, send, read the headers, read the body.            *)

\* How many sends a request may take.
RequestUnits == 2

tcp_connect ==
  /\ pc = "connect"
  /\ \E a \in [{"socket", "fcntl", "connect"} -> {"ok", "ECONNREFUSED", "EINPROGRESS"}] :
       LET rc == IF sock_create("inet", a.socket, a.fcntl) # "OK" THEN "IO"
                 ELSE sock_connect(url.ep, a.connect)
       IN IF rc \notin {"OK", "WOULD_BLOCK"} THEN Finish(FALSE)
          ELSE /\ pc' = IF rc = "OK" THEN "send" ELSE "connecting"
               /\ unsent' = RequestUnits /\ now' = 0 /\ since' = 0
               /\ UNCHANGED <<call, end, replies, url, step, target, reading, remote>>
  /\ UNCHANGED <<calls, outcome, gateway, mapped>>

Connected ==
  /\ pc = "connecting"
  /\ \E select \in {"ready"} \cup (IF now >= UPNP_HTTP_TIMEOUT THEN {"timed out"} ELSE {}),
        so_error \in {"ok", "ECONNREFUSED"} :
       IF sock_wait_writable(UPNP_HTTP_TIMEOUT, select, so_error) # "OK" THEN Finish(FALSE)
       ELSE /\ pc' = "send" /\ now' = 0
            /\ UNCHANGED <<call, end, since, replies, url, step, target, unsent, reading, remote>>
  /\ UNCHANGED <<calls, outcome, gateway, mapped>>

\* The exchange ends: after the GET the service is found and asked.
Exchanged(result) ==
  /\ outcome' = result
  /\ LET service == extract_service_info(result.body)
     IN IF step = "post" THEN Finish(Accepted(result))
        ELSE IF ~GoodDescription(result) \/ service = None THEN Finish(FALSE)
        ELSE IF service.path = "none" THEN Finish(FALSE)
        ELSE /\ pc' = "connect" /\ step' = "post" /\ target' = service
             /\ now' = 0 /\ since' = 0 /\ unsent' = 0 /\ NoRead /\ NoStream
             /\ UNCHANGED <<call, end, replies, url>>

\* A short write is gone on with; a full send buffer is an error.
send_all ==
  /\ pc = "send"
  /\ \/ \E n \in 1..unsent :
          /\ sock_send("ok", n < unsent) \in {"OK", "PARTIAL_WRITE"}
          /\ unsent' = unsent - n
          /\ pc' = IF n = unsent THEN "headers" ELSE "send"
          /\ UNCHANGED <<call, end, clock, replies, url, step, target, reading, outcome, remote>>
     \/ \E errno \in {"EAGAIN", "EPIPE"} : Exchanged(Failure(sock_send(errno, FALSE)))
  /\ UNCHANGED <<calls, gateway, mapped>>

BodyCap == IF step = "get" THEN UPNP_DESC_CAP ELSE UPNP_SOAP_CAP

\* What has come is looked at from the start: a piece may end anywhere.
read_headers ==
  /\ pc = "headers" /\ stream # <<>>
  /\ \E n \in 1..Min({Len(stream), HTTP_HDR_CAP - Len(buf)}) :
       LET all   == buf \o SubSeq(stream, 1, n)
           known == Known(all)
           first == BodySoFar(all, known.length, BodyCap)
       IN IF HeadersEnd(all) = 0
          THEN IF Len(all) = HTTP_HDR_CAP THEN Exchanged(Failure("BAD_ENDPOINT"))
               ELSE /\ buf' = all /\ stream' = SubSeq(stream, n + 1, Len(stream)) /\ now' = 0
                    /\ UNCHANGED <<pc, call, end, since, replies, url, step, target, unsent,
                                   got, head, outcome, response, closed, trouble>>
          ELSE IF known.rc # "MORE" THEN Exchanged(known)
          ELSE IF Wanted(first, known.length, BodyCap) = 0
          THEN Exchanged(BodyRead(known.status, first, known.length))
          ELSE /\ pc' = "body" /\ buf' = <<>> /\ got' = first /\ head' = known /\ now' = 0
               /\ stream' = SubSeq(stream, n + 1, Len(stream))
               /\ UNCHANGED <<call, end, since, replies, url, step, target, unsent, outcome,
                              response, closed, trouble>>
  /\ UNCHANGED <<calls, gateway, mapped>>

read_body ==
  /\ pc = "body" /\ stream # <<>>
  /\ \E n \in 1..Min({Len(stream), Wanted(got, head.length, BodyCap)}) :
       LET all == got \o SubSeq(stream, 1, n)
       IN IF Wanted(all, head.length, BodyCap) = 0
          THEN Exchanged(BodyRead(head.status, all, head.length))
          ELSE /\ got' = all /\ stream' = SubSeq(stream, n + 1, Len(stream)) /\ now' = 0
               /\ UNCHANGED <<pc, call, end, since, replies, url, step, target, unsent, buf,
                              head, outcome, response, closed, trouble>>
  /\ UNCHANGED <<calls, gateway, mapped>>

\* A receive that brings nothing ends the exchange: closed, reset, or no
\* unit in the time of one receive.
\* Fault: a receive that times out is tried again.
TriedAgain ==
  /\ pc \in {"headers", "body"} /\ SelectReturns(UPNP_HTTP_TIMEOUT, since, now, FALSE)
  /\ now' = 0
  /\ UNCHANGED <<pc, asked, end, since, replies, url, step, target, unsent, reading, outcome,
                 gateway, remote, mapped>>
ReceiveFails ==
  /\ pc \in {"headers", "body"}
  /\ LET reset == sock_recv(UPNP_HTTP_TIMEOUT, "ready", "ECONNRESET", 0)
         over  == sock_recv(UPNP_HTTP_TIMEOUT, "ready", "ok", 0)
         late  == sock_recv(UPNP_HTTP_TIMEOUT, "timed out", "ok", 0)
     IN \/ closed = "reset" /\ Exchanged(Failure(reset))
        \/ /\ closed = "closed" /\ stream = <<>>
           /\ Exchanged(Failure(IF over = "SOCKET_CLOSED" THEN "BAD_ENDPOINT" ELSE over))
        \/ /\ SelectReturns(UPNP_HTTP_TIMEOUT, since, now, FALSE)
           /\ Exchanged(Failure(late))
  /\ UNCHANGED <<calls, gateway, mapped>>
-----------------------------------------------------------------------------
(* The gateway and the network.                                            *)

ServiceElement(s) ==
  <<Tag("start", "service"), Text(s.type), Tag("start", "controlURL"), Url(s.form, s.path),
    Tag("end", "controlURL"), Tag("end", "service")>>
Description(services) ==
  [k \in 1..6 * Len(services) |->
     ServiceElement(services[((k - 1) \div 6) + 1])[((k - 1) % 6) + 1]]

OkBody == <<Tag("empty", "AddPortMappingResponse")>>
FaultBody == <<Tag("start", "UPnPError"), Tag("end", "UPnPError")>>
Broken == [kind |-> "broken"]
BrokenBody == <<Tag("start", "root"), Broken>>

\* What stands for a refusal: a fault, one in an envelope the buffer may not
\* hold, one that breaks off, or nothing.
InEnvelope == <<Tag("start", "Fault"), Tag("start", "UPnPError"), Tag("end", "UPnPError")>>
Denials == {FaultBody, InEnvelope, <<Tag("start", "UPnPError"), Broken>>, <<>>}

\* A response as a gateway means it: length is what it declares, -1 for no
\* declaration.
Bodies == {Description(services) : services \in Gateways} \cup {OkBody, BrokenBody} \cup Denials
Responses ==
  [status : Int, length : {-1} \cup Nat, coding : {"plain", "chunked"}, body : Bodies]

\* A response with that body, its length declared, declared wrong or not,
\* or chunked.
Whole(body, status) == [status |-> status, coding |-> "plain", body |-> body, length |-> Len(body)]
Answers(body) ==
  {[Whole(body, status) EXCEPT !.length = n] :
     status \in Statuses, n \in {-1} \cup {Max({0, Len(body) + d}) : d \in Lengths}}
  \cup {[Whole(body, 200) EXCEPT !.coding = "chunked"]}

\* A gateway takes the mapping at the service it is for and says so, or it
\* does not and answers with a refusal of some kind, rightly declared or not.
Offered == \E i \in DOMAIN gateway : gateway[i].type = target.type /\ gateway[i].path = target.path

Gives(r) == response' = r /\ stream' = Wire(r) /\ UNCHANGED <<closed, trouble>>

Serve ==
  /\ pc = "headers" /\ response = None
  /\ \/ /\ step = "get"
        /\ \E r \in Answers(Description(gateway)) \cup {Whole(BrokenBody, 200)} : Gives(r)
        /\ UNCHANGED mapped
     \/ /\ step = "post" /\ Offered
        /\ mapped' = mapped \cup {[at |-> calls, soap |-> build_add_port_mapping(call.peer, call.port)]}
        /\ \E r \in Answers(OkBody) : Gives(r)
     \/ /\ step = "post"
        /\ \E body \in Denials : \E r \in Answers(body) \cup {Whole(body, 500)} : Gives(r)
        /\ UNCHANGED mapped
  /\ UNCHANGED <<pc, asked, end, clock, replies, url, step, target, unsent, reading, outcome,
                 gateway>>

\* The stream ends: after the response, or before it is all out.
Breaks ==
  /\ pc \in {"headers", "body"} /\ response # None /\ closed = "open"
  /\ \/ closed' = "closed" /\ stream' \in {stream, <<>>}
     \/ closed' = "reset" /\ stream' = <<>>
  /\ trouble' = (trouble \/ closed' = "reset" \/ (stream # <<>> /\ stream' = <<>>))
  /\ UNCHANGED <<pc, asked, end, clock, replies, url, step, target, unsent, reading, outcome,
                 gateway, response, mapped>>

\* How far a wait may take the clock; it may be late for the search's
\* deadline, the only one that is looked at after a wait.
Limit == IF pc = "hear" THEN Min({since + SLICE, SSDP_MX}) + Slop ELSE UPNP_HTTP_TIMEOUT
Waiting == pc \in {"hear", "connecting", "headers", "body"}

\* The clock moves while a call waits; a gateway that lets a receive run out
\* of time has spoilt the exchange.
Tick ==
  /\ Waiting /\ now < Limit
  /\ now' = now + 1
  /\ trouble' = (trouble \/ (pc \in {"headers", "body"} /\ now' >= UPNP_HTTP_TIMEOUT))
  /\ UNCHANGED <<pc, asked, end, since, replies, url, step, target, unsent, reading, outcome,
                 gateway, response, stream, closed, mapped>>

Stop == pc = "idle" /\ UNCHANGED vars

Work ==
  \/ ssdp_discover \/ SearchEnds \/ Listen \/ HearsNothing
  \/ tcp_connect \/ Connected \/ send_all \/ read_headers \/ read_body \/ ReceiveFails
Next == Begin \/ Work \/ Hear \/ HearFails \/ Serve \/ Breaks \/ Tick \/ Stop

\* A running thread runs on, and time passes; nothing is assumed of the net.
Spec == Init /\ [][Next]_vars /\ WF_vars(Work) /\ WF_vars(Tick)
-----------------------------------------------------------------------------
Exchanging == pc \in {"send", "headers", "body"}

TypeOK ==
  /\ pc \in {"idle", "search", "listen", "hear", "connect", "connecting", "send", "headers", "body"}
  /\ calls \in 0..MaxCalls /\ replies \in 0..MaxReplies
  /\ now \in Nat /\ since \in 0..now /\ unsent \in 0..RequestUnits
  /\ step \in {"get", "post"} /\ closed \in {"open", "closed", "reset"} /\ trouble \in BOOLEAN
  /\ pc = "idle" <=> call = None
  /\ Len(buf) < HTTP_HDR_CAP /\ Len(got) <= BodyCap
  /\ (buf # <<>> => pc = "headers") /\ (head # None => pc = "body")
  /\ response \in Responses \cup {None} /\ (response # None => pc \in {"headers", "body"})

\* Headers that do not fit in their buffer.
Overlong(r) == HeadersEnd(Wire(r)) + 1 > HTTP_HDR_CAP

\* What an exchange makes of a response is what the response says, however
\* the stream was cut into receives: a body read is the body that was sent
\* (or its beginning, and marked so), and an exchange fails only on a
\* response that is none, on headers too long, or when the network or the
\* gateway has spoilt it (upnp_http.c's read_headers, read_body).
ResponseIsRead ==
  [][response # None /\ outcome' # outcome =>
       LET meant == Meant(response, BodyCap)
       IN \/ outcome' = meant
          \/ outcome'.rc # "OK" /\ (meant.rc # "OK" \/ trouble \/ Overlong(response))]_vars

\* What the buffer holds of a response neither refuses by its status nor has
\* a fault in it that can be read.
Undenied(r) ==
  LET meant == Meant(r, UPNP_SOAP_CAP)
  IN meant.rc = "OK" /\ r.status = 200 /\ ~xml_present(meant.body, "UPnPError")

\* A success stands on an answer to this call's own post, and no fault that
\* can be read in it is overlooked or lost where the stream was cut
\* (upnp.c:928-939).  Behind it is a mapping made in this call for the port
\* the caller gave, or a refusal in which no fault can be read.
MappedNow == \E m \in mapped : m.at = calls /\ m.soap.port = call.port
AnsweredNow ==
  /\ step = "post" /\ response # None /\ Undenied(response)
  /\ MappedNow \/ response.body \in Denials
SuccessIsUndenied == [][call # None /\ end'.success /\ ~end.success => AnsweredNow]_vars

\* How long the rest of a call may take.  No receive waits longer than the
\* timeout and each that brings something leaves less to be received, so a
\* call is bounded, though by far more than one timeout: a gateway may send
\* unit by unit.
Waits(n) == UPNP_HTTP_TIMEOUT * n
Exchange(cap) == Waits(1 + HTTP_HDR_CAP + cap)
Later == IF step = "get" THEN Exchange(UPNP_SOAP_CAP) ELSE 0
Left ==
  CASE pc = "idle"       -> 0
    [] pc \in {"search", "listen", "hear"} ->
         SSDP_MX + Slop - now + Exchange(UPNP_DESC_CAP) + Exchange(UPNP_SOAP_CAP)
    [] pc = "connect"    -> Exchange(BodyCap) + Later
    [] pc = "connecting" -> Exchange(BodyCap) - now + Later
    [] pc = "send"       -> Waits(HTTP_HDR_CAP + BodyCap) + Later
    [] pc = "headers"    -> Waits(HTTP_HDR_CAP - Len(buf) + BodyCap) - now + Later
    [] pc = "body"       -> Waits(BodyCap - Len(got)) - now + Later

\* Every execution is one of WeaponPromise, whatever the gateway does to
\* draw it out; the evidence is an answer to this call's post in which no
\* fault can be read.
Promise == INSTANCE WeaponPromise WITH
  Budgets  <- {SSDP_MX + Slop + Exchange(UPNP_DESC_CAP) + Exchange(UPNP_SOAP_CAP)},
  clock    <- now,
  running  <- pc # "idle",
  left     <- Left,
  evidence <- pc # "idle" /\ AnsweredNow,
  won      <- end.success

KeepsPromise == Promise!Spec

\* A call ends, however slowly a gateway drips its answer: each receive
\* starts its timeout again, but a response is read to a bounded length.
Terminates == pc = "search" ~> pc = "idle"

\* upnp.c:664-667: the service asked is asked at its own control URL.
ControlOfTheService ==
  pc = "connect" /\ step = "post" => Offered
=============================================================================
