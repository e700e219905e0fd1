--------------------------------- MODULE Api ---------------------------------
(***************************************************************************)
(* A program that uses the library's tools, one of them at a time: it      *)
(* writes a value as text and reads the text back, compares endpoints,     *)
(* keeps the error context, fills and reads a buffer, prepares a           *)
(* configuration, or hands in the ports a NAT gave it one by one.  The     *)
(* tools share no state, so that a behaviour is a session with one tool.   *)
(***************************************************************************)
EXTENDS Address, Errors, Config, Bytes, NatMath, WeaponMask

CONSTANTS
  Tools,           \* the tools this instance uses
  Values,          \* what is written as text: records [kind, value]
  Lengths,         \* the lengths of the buffers written into
  Compareds,       \* the endpoints that are compared
  Labels, FramesMax,
  Fields8,         \* what goes into a buffer: records [kind, bytes]
  BufferSizes,
  Configs,         \* the configurations handed in
  PortsMax, cfg    \* the ports of a NAT, and how they are classified

\* An endpoint whose text is an address of its family.
Proper(ep) == FamilyOf(parse_ip(ep.ip)) = ep.family

\* The values there are of each kind.
Writable(v) ==
  \/ v.kind = "u32" /\ v.value \in 0..UINT_MAX
  \/ v.kind = "i32" /\ v.value \in (-INT_MAX - 1)..INT_MAX
  \/ v.kind = "mask" /\ v.value \in SUBSET Weapons
  \/ v.kind = "peer" /\ v.value \in [1..PEER_ID_SIZE -> 0..255]
  \/ /\ v.kind = "endpoint"
     /\ v.value \in [family : {INET, INET6}, ip : Seq(Nat), port : 0..UINT16_MAX]
     /\ Len(v.value.ip) < ENDPOINT_IP_MAX /\ Proper(v.value)

ASSUME ApiAssumption ==
  /\ (\A v \in Values : Writable(v)) /\ Lengths \subseteq Nat
  /\ Labels \subseteq Seq(Nat)
  /\ Fields8 \subseteq [kind : {"be", "le", "lp8", "raw", "zero"}, bytes : Seq(Nat)]
  /\ \A f \in Fields8 : f.kind = "zero" => bytes_is_zero(f.bytes)
  /\ BufferSizes \subseteq Nat
  /\ Configs \subseteq Configurations
  /\ Compareds \subseteq [family : {UNSPEC, INET, INET6}, ip : Seq(Nat), port : Nat]
  /\ PortsMax \in 0..MAX_SAMPLES
  /\ cfg \in [variance : Nat, tolerance : Nat, min_samples : Nat \ {0, 1}]

VARIABLES
  tool,
  given,           \* what the program handed in
  held,            \* what the library made of it
  told,            \* what the last calls returned
  phase            \* "filling" until the program asks for an answer

sessionVars == <<tool, given, held, told, phase>>

Start(t) ==
  CASE t = "buffer" -> {cursor_init([i \in 1..n |-> 0]) : n \in BufferSizes}
    [] OTHER -> {<<>>}

SessionInit ==
  /\ tool \in Tools
  /\ given = <<>>
  /\ held \in Start(tool)
  /\ told = <<>>
  /\ phase = "filling"
-----------------------------------------------------------------------------
(* Text.                                                                   *)

Outcome(written, buflen) == [whole |-> written.need < buflen, text |-> written.kept]
Coded(result) == [whole |-> result.rc = "OK", text |-> result.text]

WriteOf(v, buflen) ==
  CASE v.kind = "u32"      -> Outcome(fmt_u32(v.value, buflen), buflen)
    [] v.kind = "i32"      -> Outcome(fmt_i32(v.value, buflen), buflen)
    [] v.kind = "mask"     -> Outcome(mask_format(v.value, buflen), buflen)
    [] v.kind = "peer"     -> Coded(peer_id_to_string(v.value, buflen))
    [] v.kind = "endpoint" -> Coded(endpoint_to_string(v.value, buflen))

ReadOf(kind, text) ==
  CASE kind = "u32"      -> parse_u32(text)
    [] kind = "i32"      -> parse_i32(text).value
    [] kind = "mask"     -> mask_from_string(text).mask
    [] kind = "peer"     -> peer_id_from_string(text)
    [] kind = "endpoint" -> endpoint_from_string(text).ep

Write ==
  /\ tool = "text" /\ phase = "filling"
  /\ \E v \in Values, n \in Lengths :
       /\ given' = v
       /\ held' = WriteOf(v, n)
       /\ phase' = "written"
  /\ UNCHANGED <<tool, told>>

Read ==
  /\ tool = "text" /\ phase = "written"
  /\ told' = ReadOf(given.kind, held.text)
  /\ phase' = "answered"
  /\ UNCHANGED <<tool, given, held>>

Compare ==
  /\ tool = "order" /\ phase = "filling"
  /\ \E a, b, c \in Compareds :
       /\ given' = <<a, b, c>>
       /\ told' = [i \in 1..3 |-> [j \in 1..3 |-> endpoint_compare(given'[i], given'[j])]]
  /\ phase' = "answered"
  /\ UNCHANGED <<tool, held>>
-----------------------------------------------------------------------------
(* The error context: given is every frame the program is in.              *)

Push ==
  /\ tool = "context" /\ Len(given) < FramesMax
  /\ \E label \in Labels :
       /\ given' = Append(given, label)
       /\ held' = err_push_context(held, label)
  /\ UNCHANGED <<tool, told, phase>>

Pop ==
  /\ tool = "context" /\ given # <<>>
  /\ given' = SubSeq(given, 1, Len(given) - 1)
  /\ held' = err_pop_context(held)
  /\ UNCHANGED <<tool, told, phase>>

Clear ==
  /\ tool = "context" /\ given # <<>>
  /\ given' = <<>> /\ held' = err_clear_context
  /\ UNCHANGED <<tool, told, phase>>
-----------------------------------------------------------------------------
(* The cursor: given is what went in, told what has come out since the     *)
(* cursor was reset.                                                       *)

PutOf(c, f) ==
  CASE f.kind = "be"   -> bytes_put_be(c, f.bytes)
    [] f.kind = "le"   -> bytes_put_le(c, f.bytes)
    [] f.kind = "lp8"  -> bytes_put_lp8(c, f.bytes)
    [] f.kind = "raw"  -> bytes_put(c, f.bytes)
    [] f.kind = "zero" -> bytes_put_zero(c, Len(f.bytes))

\* A length-prefixed field goes into room bytes; the others are as long as
\* the program says.
GetOf(c, f, room) ==
  CASE f.kind = "be"  -> bytes_get_be(c, Len(f.bytes))
    [] f.kind = "le"  -> bytes_get_le(c, Len(f.bytes))
    [] f.kind = "lp8" -> bytes_get_lp8(c, room, LP_MAX)
    [] OTHER -> bytes_get(c, Len(f.bytes))

Put ==
  /\ tool = "buffer" /\ phase = "filling"
  /\ \E f \in Fields8 :
       LET put == PutOf(held, f)
       IN  /\ held' = put.cursor
           /\ given' = IF put.rc = "OK" THEN Append(given, f) ELSE given
  /\ UNCHANGED <<tool, told, phase>>

Rewind ==
  /\ tool = "buffer" /\ phase = "filling"
  /\ held' = cursor_reset(held) /\ phase' = "answered"
  /\ UNCHANGED <<tool, given, told>>

\* The room may be one byte short; the program then asks again.
Get ==
  /\ tool = "buffer" /\ phase = "answered" /\ Len(told) < Len(given)
  /\ \E short \in BOOLEAN :
       LET f == given[Len(told) + 1]
           got == GetOf(held, f, Len(f.bytes) - (IF short THEN 1 ELSE 0))
       IN  /\ short => Len(f.bytes) > 0
           /\ held' = got.cursor
           /\ told' = IF short /\ got.rc # "OK" THEN told ELSE Append(told, got.got)
  /\ UNCHANGED <<tool, given, phase>>
-----------------------------------------------------------------------------
Prepare ==
  /\ tool = "config" /\ phase = "filling"
  /\ \E c \in Configs :
       /\ config_validate(c)
       /\ given' = c
       /\ held' = Prepared(c)
       /\ told' = config_fingerprint(held')
  /\ phase' = "answered"
  /\ UNCHANGED tool

Observe ==
  /\ tool = "ports" /\ Len(given) < PortsMax
  /\ \E port \in 1..PORT_MAX : given' = Append(given, port)
  /\ held' = classify_port_pattern(given', cfg)
  /\ told' = [next |-> math_predict_next(given'), rising |-> math_is_monotonic(given')]
  /\ UNCHANGED <<tool, phase>>

SessionNext ==
  \/ Write \/ Read
  \/ Compare
  \/ Push \/ Pop \/ Clear
  \/ Put \/ Rewind \/ Get
  \/ Prepare
  \/ Observe

Session == SessionInit /\ [][SessionNext]_sessionVars
-----------------------------------------------------------------------------
(* A value whose text was written whole is read back as it was, and one    *)
(* whose text did not fit is never reported as written: numbers, masks,    *)
(* peer identifiers and endpoints, against every length of buffer.         *)
WrittenIsReadBack ==
  tool = "text" /\ phase = "answered" /\ held.whole => told = given.value

(* Comparison of endpoints is an order that agrees with the hash: its two  *)
(* directions are opposite, endpoints that compare equal have one hash,    *)
(* and, among endpoints whose text is an address of their family, it is    *)
(* transitive, and two compare equal just when they are equal, text and    *)
(* all, once they are made canonical (as they are given they need not be:  *)
(* "0::1" is not "::1").  A sorted list or a hash table of endpoints rests *)
(* on it.                                                                  *)
OrderAgreesWithHash ==
  tool = "order" /\ phase = "answered" =>
    /\ \A i, j \in 1..3 :
         /\ told[i][j] = -told[j][i]
         /\ told[i][j] = 0 => endpoint_hash(given[i]) = endpoint_hash(given[j])
         /\ Proper(given[i]) /\ Proper(given[j]) =>
              (told[i][j] = 0 <=> endpoint_equal(endpoint_canonicalize(given[i]),
                                                 endpoint_canonicalize(given[j])))
    /\ (\A i \in 1..3 : Proper(given[i])) /\ told[1][2] <= 0 /\ told[2][3] <= 0
         => told[1][3] <= 0 /\ (told[1][3] = 0 => told[1][2] = 0 /\ told[2][3] = 0)

(* The context stack holds the innermost frames of the program, in their   *)
(* order and cut to their length, whatever was pushed on it when it was    *)
(* full: an error never names a frame that has been left.                  *)
Cut(label) == SubSeq(label, 1, Least(Len(label), MAX_LEN - 1))
StackHoldsInnermost ==
  tool = "context" =>
    /\ Len(held) <= MAX_DEPTH
    /\ IsSuffix(held, [i \in 1..Len(given) |-> Cut(given[i])])

(* What the puts that succeeded put into a buffer comes out of it again in *)
(* order, whatever failed in between: a put that does not fit and a get    *)
(* without room leave the cursor and the bytes as they were.               *)
BufferIsReadBack ==
  tool = "buffer" /\ phase = "answered" =>
    \A i \in 1..Len(told) : told[i] = given[i].bytes

(* A configuration that validates and is then prepared still validates,    *)
(* its features fit each other whatever order they were switched off in,   *)
(* and preparing it again changes nothing, its fingerprint included,       *)
(* unless it is left without a weapon.                                     *)
PreparedIsValid ==
  tool = "config" /\ phase = "answered" =>
    /\ Sound(held)
    /\ held.weapons # {} => config_fingerprint(Prepared(held)) = told

(* A NAT that gives ports at equal steps, up or down, is never called      *)
(* random and its next port is predicted, by the classifier and by the     *)
(* regression alike; the prediction stays within the ports there are.      *)
Linear(ports) == \A i \in 2..(Len(ports) - 1) : ports[i+1] - ports[i] = ports[i] - ports[i-1]
LinearIsPredicted ==
  tool = "ports" /\ Len(given) >= cfg.min_samples /\ Linear(given) =>
    /\ held.pattern \in {"sequential", "fixed_step"}
    /\ held.predicted = Clamped(2 * given[Len(given)] - given[Len(given) - 1])
    /\ held.predicted = told.next
=============================================================================
