-------------------------------- MODULE Sock --------------------------------
(***************************************************************************)
(* The socket layer: src/src/core/sock.c over src/platform/posix/sock.c.   *)
(* A call on a socket is the code the layer makes of what the system       *)
(* answered: "ok", an errno, or, of select, "ready" or "timed out".        *)
(* Sockets do not block, so a caller waits in select only; between a       *)
(* select that says "ready" and the receive that follows anything may      *)
(* happen.  The callers' modules choose the system's answers and let time  *)
(* pass; these operators say what a caller then sees.                      *)
(***************************************************************************)
EXTENDS Integers

CONSTANT UINT32_MAX      \* the timeout that stands for "forever"

ASSUME SockAssumption == UINT32_MAX \in Nat \ {0}

\* The errnos the system's answers are drawn from, and the codes they get.
sock_errno_to_xury ==
  [EINVAL |-> "INVAL", ENOMEM |-> "NOMEM", EACCES |-> "PERMISSION", EPERM |-> "PERMISSION",
   EADDRINUSE |-> "ADDR_IN_USE", EADDRNOTAVAIL |-> "ADDR_NOT_AVAILABLE",
   EAFNOSUPPORT |-> "BAD_FAMILY", EPROTONOSUPPORT |-> "NOT_SUPPORTED",
   ENETUNREACH |-> "NET_UNREACHABLE", ENETDOWN |-> "NET_UNREACHABLE",
   EHOSTUNREACH |-> "HOST_UNREACHABLE", ECONNREFUSED |-> "CONNECTION_REFUSED",
   ECONNRESET |-> "CONNECTION_RESET", ETIMEDOUT |-> "TIMEOUT", EAGAIN |-> "WOULD_BLOCK",
   EINPROGRESS |-> "WOULD_BLOCK", EMSGSIZE |-> "MSG_TOO_LARGE", ENOTCONN |-> "NOT_CONNECTED",
   EPIPE |-> "SOCKET_CLOSED", EINTR |-> "IO", EMFILE |-> "IO"]
Errnos == DOMAIN sock_errno_to_xury

Code(answer) == IF answer \in Errnos THEN sock_errno_to_xury[answer] ELSE "OK"

\* An endpoint is [family, ip, port]; ip is the family its text parses in,
\* or "none" for text that parses in neither.
Families == {"inet", "inet6"}

ep_to_sockaddr(ep) ==
  IF ep.family \notin Families THEN "BAD_FAMILY"
  ELSE IF ep.ip # ep.family THEN "BAD_ENDPOINT" ELSE "OK"

sockaddr_to_ep(family) == IF family \in Families THEN "OK" ELSE "BAD_FAMILY"
-----------------------------------------------------------------------------
(* src/platform/posix/sock.c.                                              *)

\* fcntl runs on the socket socket() made; when it fails the socket is
\* closed again, so an error always means that there is no socket.
platform_sock_create(family, socket, fcntl) ==
  IF family \notin Families THEN "BAD_FAMILY"
  ELSE IF socket \in Errnos THEN Code(socket) ELSE Code(fcntl)

platform_sock_bind(ep, bind) ==
  IF ep_to_sockaddr(ep) # "OK" THEN ep_to_sockaddr(ep) ELSE Code(bind)

platform_sock_local(getsockname, family) ==
  IF getsockname \in Errnos THEN Code(getsockname) ELSE sockaddr_to_ep(family)

platform_sock_sendto(ep, sendto) ==
  IF ep_to_sockaddr(ep) # "OK" THEN ep_to_sockaddr(ep) ELSE Code(sendto)

\* Does the select inside a receive return, started at since?  With a
\* timeout of 0 there is none; with UINT32_MAX only the socket ends it.
SelectReturns(timeout, since, now, ready) ==
  \/ timeout = 0 \/ ready
  \/ timeout # UINT32_MAX /\ now >= since + timeout

platform_sock_recvfrom(timeout, select, recvfrom, family) ==
  IF timeout > 0 /\ select \in Errnos THEN Code(select)
  ELSE IF timeout > 0 /\ select = "timed out" THEN "TIMEOUT"
  ELSE IF recvfrom \in Errnos THEN Code(recvfrom)
  ELSE sockaddr_to_ep(family)

platform_sock_send(send) == Code(send)

\* No bytes is how a stream says that the peer has closed it.
platform_sock_recv(timeout, select, recv, bytes) ==
  IF timeout > 0 /\ select \in Errnos THEN Code(select)
  ELSE IF timeout > 0 /\ select = "timed out" THEN "TIMEOUT"
  ELSE IF recv \in Errnos THEN Code(recv)
  ELSE IF bytes = 0 THEN "SOCKET_CLOSED" ELSE "OK"

platform_sock_connect(ep, connect) ==
  IF ep_to_sockaddr(ep) # "OK" THEN ep_to_sockaddr(ep) ELSE Code(connect)

\* Only a bounded wait asks how the connection went: without a bound, a
\* refused one passes for a connection.
platform_sock_wait_writable(timeout, select, so_error) ==
  IF select \in Errnos THEN Code(select)
  ELSE IF timeout = UINT32_MAX THEN "OK"
  ELSE IF select = "timed out" THEN "TIMEOUT" ELSE Code(so_error)
-----------------------------------------------------------------------------
(* src/src/core/sock.c: the same calls, with short writes made errors.     *)

sock_create(family, socket, fcntl) ==
  IF family \notin Families THEN "BAD_FAMILY" ELSE platform_sock_create(family, socket, fcntl)

sock_bind(ep, bind) ==
  IF ep.family \notin Families THEN "BAD_FAMILY" ELSE platform_sock_bind(ep, bind)

sock_local(getsockname, family) == platform_sock_local(getsockname, family)

\* short: the system took fewer bytes than it was given.
sock_sendto(ep, sendto, short) ==
  LET rc == platform_sock_sendto(ep, sendto)
  IN IF ep.family \notin Families THEN "BAD_FAMILY"
     ELSE IF rc = "OK" /\ short THEN "PARTIAL_WRITE" ELSE rc

sock_recvfrom(timeout, select, recvfrom, family) ==
  platform_sock_recvfrom(timeout, select, recvfrom, family)

sock_send(send, short) ==
  LET rc == platform_sock_send(send) IN IF rc = "OK" /\ short THEN "PARTIAL_WRITE" ELSE rc

sock_recv(timeout, select, recv, bytes) == platform_sock_recv(timeout, select, recv, bytes)

sock_connect(ep, connect) ==
  IF ep.family \notin Families THEN "BAD_FAMILY" ELSE platform_sock_connect(ep, connect)

sock_wait_writable(timeout, select, so_error) ==
  platform_sock_wait_writable(timeout, select, so_error)
=============================================================================
