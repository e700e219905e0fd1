------------------------------- MODULE Errors -------------------------------
(***************************************************************************)
(* Error codes: src/src/api/err.c.  The table as the sets of codes that    *)
(* share a column's value, the translations between errno and codes, and   *)
(* the per-thread stack of labels that says where an error happened.       *)
(***************************************************************************)
EXTENDS Text

CONSTANTS
  MAX_DEPTH,       \* XURY_ERR_CONTEXT_MAX_DEPTH, 8 in the code
  MAX_LEN          \* XURY_ERR_CONTEXT_MAX_LEN, 32 in the code

ASSUME ErrorsAssumption == MAX_DEPTH \in Nat \ {0} /\ MAX_LEN \in Nat \ {0}

\* g_err_table, the first half: by class.
GeneralErrors  == {"FAIL", "UNKNOWN", "NOT_IMPLEMENTED", "NOT_SUPPORTED", "INTERNAL",
                   "CANCELLED", "ABORTED", "WOULD_BLOCK"}
ArgumentErrors == {"INVAL", "NULL_PTR", "OUT_OF_RANGE", "BAD_ENDPOINT", "BAD_FAMILY",
                   "BAD_PORT", "BAD_PEER_ID", "BUFFER_TOO_SMALL"}
MemoryErrors   == {"NOMEM", "OVERFLOW"}
NetworkErrors  == {"IO", "TIMEOUT", "CONNECTION_REFUSED", "CONNECTION_RESET",
                   "HOST_UNREACHABLE", "NET_UNREACHABLE", "ADDR_IN_USE",
                   "ADDR_NOT_AVAILABLE", "PERMISSION", "NO_ROUTE", "MSG_TOO_LARGE",
                   "SOCKET_CLOSED", "PARTIAL_WRITE"}
NatErrors      == {"NO_METHOD", "NO_UPNP", "NO_NATPMP", "NO_PCP", "NO_IPV6", "NO_MAPPING",
                   "MAPPING_EXISTS", "PUNCH_FAIL", "PREDICT_FAIL", "BIRTHDAY_FAIL",
                   "SYMMETRIC_NAT", "PUBLIC_IP_UNKNOWN"}
CgnatErrors    == {"CGNAT_DETECTED", "CGNAT_STRICT", "CGNAT_UNPREDICTABLE"}
PeerErrors     == {"NO_PEER", "PEER_UNREACHABLE", "MIRROR_FAIL", "MIRROR_BAD_RESPONSE",
                   "RELAY_REFUSED", "RELAY_FAIL", "UPGRADE_FAIL"}
PlatformErrors == {"PLATFORM_INIT", "PLATFORM_NOT_READY", "PLATFORM_UNSUPPORTED",
                   "PERMISSION_DENIED", "ANDROID_JNI", "JNI_DETACHED"}
StateErrors    == {"NOT_READY", "ALREADY_STARTED", "ALREADY_STOPPED", "BUSY", "SHUTDOWN",
                   "SCAN_IN_PROGRESS", "CONNECT_IN_PROGRESS", "NOT_CONNECTED"}
ResearchErrors == {"NOT_CALIBRATED"}

err_table == {"OK"} \cup GeneralErrors \cup ArgumentErrors \cup MemoryErrors \cup NetworkErrors
             \cup NatErrors \cup CgnatErrors \cup PeerErrors \cup PlatformErrors
             \cup StateErrors \cup ResearchErrors

\* The retryable and fatal columns.  A code outside the table is neither.
Retryable ==
  {"FAIL", "CANCELLED", "WOULD_BLOCK", "NOMEM", "NO_MAPPING", "PUNCH_FAIL", "PREDICT_FAIL",
   "BIRTHDAY_FAIL", "PUBLIC_IP_UNKNOWN", "NO_PEER", "PEER_UNREACHABLE", "MIRROR_FAIL",
   "RELAY_FAIL", "UPGRADE_FAIL", "PLATFORM_NOT_READY", "JNI_DETACHED", "NOT_READY", "BUSY",
   "SCAN_IN_PROGRESS", "CONNECT_IN_PROGRESS"}
  \cup (NetworkErrors \ {"PERMISSION", "MSG_TOO_LARGE", "SOCKET_CLOSED"})
Fatal == {"INTERNAL", "PLATFORM_INIT", "PLATFORM_NOT_READY", "PLATFORM_UNSUPPORTED"}

err_class(rc) ==
  CASE rc = "OK" -> "ok"
    [] rc \in GeneralErrors -> "general"   [] rc \in ArgumentErrors -> "argument"
    [] rc \in MemoryErrors -> "memory"     [] rc \in NetworkErrors -> "network"
    [] rc \in NatErrors -> "nat"           [] rc \in CgnatErrors -> "cgnat"
    [] rc \in PeerErrors -> "peer"         [] rc \in PlatformErrors -> "platform"
    [] rc \in StateErrors -> "state"       [] rc \in ResearchErrors -> "research"
    [] OTHER -> "unknown"

err_is_retryable(rc) == rc \in err_table /\ rc \in Retryable
err_is_fatal(rc) == rc \in err_table /\ rc \in Fatal
err_is_benign(rc) == rc \in {"TIMEOUT", "PUNCH_FAIL", "PREDICT_FAIL", "NO_MAPPING",
                             "CANCELLED", "WOULD_BLOCK"}
-----------------------------------------------------------------------------
(* errno and codes.                                                        *)

Translated ==
  [EINVAL |-> "INVAL", ERANGE |-> "OUT_OF_RANGE", ENOMEM |-> "NOMEM",
   EOVERFLOW |-> "OVERFLOW", ECONNREFUSED |-> "CONNECTION_REFUSED",
   ECONNRESET |-> "CONNECTION_RESET", ECONNABORTED |-> "CONNECTION_RESET",
   EHOSTUNREACH |-> "HOST_UNREACHABLE", ENETUNREACH |-> "NET_UNREACHABLE",
   ENETDOWN |-> "NET_UNREACHABLE", ENETRESET |-> "CONNECTION_RESET",
   EHOSTDOWN |-> "HOST_UNREACHABLE", ENOTCONN |-> "NOT_CONNECTED",
   EISCONN |-> "ALREADY_STARTED", EPIPE |-> "SOCKET_CLOSED", EADDRINUSE |-> "ADDR_IN_USE",
   EADDRNOTAVAIL |-> "ADDR_NOT_AVAILABLE", EAFNOSUPPORT |-> "BAD_FAMILY",
   EPROTONOSUPPORT |-> "NOT_SUPPORTED", ETIMEDOUT |-> "TIMEOUT", EAGAIN |-> "WOULD_BLOCK",
   EINPROGRESS |-> "WOULD_BLOCK", EALREADY |-> "BUSY", EMSGSIZE |-> "MSG_TOO_LARGE",
   ENOBUFS |-> "IO", ENOTSUP |-> "NOT_SUPPORTED", ENOENT |-> "NO_ROUTE",
   EACCES |-> "PERMISSION", EPERM |-> "PERMISSION"]

err_from_errno(errno) ==
  IF errno = "none" THEN "OK" ELSE IF errno \in DOMAIN Translated THEN Translated[errno] ELSE "IO"

err_to_errno(rc) ==
  CASE rc = "OK" -> "none"
    [] rc \in {"INVAL", "NULL_PTR", "BAD_ENDPOINT", "BAD_PORT", "BAD_PEER_ID"} -> "EINVAL"
    [] rc = "OUT_OF_RANGE" -> "ERANGE"         [] rc = "BAD_FAMILY" -> "EAFNOSUPPORT"
    [] rc = "BUFFER_TOO_SMALL" -> "ENOSPC"     [] rc = "NOMEM" -> "ENOMEM"
    [] rc = "OVERFLOW" -> "EOVERFLOW"          [] rc = "TIMEOUT" -> "ETIMEDOUT"
    [] rc = "CONNECTION_REFUSED" -> "ECONNREFUSED"
    [] rc = "CONNECTION_RESET" -> "ECONNRESET"
    [] rc = "HOST_UNREACHABLE" -> "EHOSTUNREACH"
    [] rc = "NET_UNREACHABLE" -> "ENETUNREACH" [] rc = "ADDR_IN_USE" -> "EADDRINUSE"
    [] rc = "ADDR_NOT_AVAILABLE" -> "EADDRNOTAVAIL"
    [] rc = "PERMISSION" -> "EACCES"           [] rc = "NO_ROUTE" -> "ENOENT"
    [] rc = "MSG_TOO_LARGE" -> "EMSGSIZE"      [] rc = "SOCKET_CLOSED" -> "EPIPE"
    [] rc = "WOULD_BLOCK" -> "EAGAIN"          [] rc = "NOT_CONNECTED" -> "ENOTCONN"
    [] rc = "BUSY" -> "EALREADY"
    [] OTHER -> "EIO"
-----------------------------------------------------------------------------
(* The context stack: a sequence of labels, the oldest first.              *)

\* Fault: a full stack keeps its oldest labels.
KeepsOldest(stack, label) ==
  IF Len(stack) >= MAX_DEPTH THEN stack
  ELSE Append(stack, SubSeq(label, 1, Least(Len(label), MAX_LEN - 1)))

\* Pushing on a full stack drops the oldest label; a label is cut.
err_push_context(stack, label) ==
  Append(IF Len(stack) >= MAX_DEPTH THEN Tail(stack) ELSE stack,
         SubSeq(label, 1, Least(Len(label), MAX_LEN - 1)))
err_pop_context(stack) == IF stack = <<>> THEN stack ELSE SubSeq(stack, 1, Len(stack) - 1)
err_clear_context == <<>>

\* Counted from 0; there is none beyond the depth.
err_context_at(stack, d) == IF d >= Len(stack) THEN "NULL" ELSE stack[d + 1]

\* The labels joined by " -> ".
err_context_format(stack, buflen) ==
  Written(FlattenSeq([i \in 1..Len(stack) |->
            (IF i > 1 THEN <<SPACE, MINUS, 62, SPACE>> ELSE <<>>) \o stack[i]]), buflen)
=============================================================================
