----------------------------- MODULE UpnpProofs -----------------------------
(***************************************************************************)
(* Proofs about Upnp for every gateway, network and size of buffer: its    *)
(* type invariant, that an exchange makes of a response what the response  *)
(* says however the stream was cut, and that a success stands on an answer *)
(* to this call's post in which no fault can be read.                      *)
(***************************************************************************)
EXTENDS Upnp, SequenceTheorems, TLAPS

LEMMA MinIs ==
  ASSUME NEW S, S \subseteq Int, NEW m \in S, \A n \in S : m <= n
  PROVE  Min(S) = m
<1>1. PICK k : k = Min(S) OBVIOUS
<1>2. k \in S /\ \A n \in S : k <= n BY <1>1 DEF Min
<1>3. k \in Int /\ m \in Int /\ k <= m /\ m <= k BY <1>2
<1>4. k = m BY <1>3
<1> QED BY <1>1, <1>4

LEMMA MinOfOne ==
  ASSUME NEW k \in Int
  PROVE  Min({k}) = k
<1>1. PICK S : S = {k} OBVIOUS
<1>2. S \subseteq Int /\ k \in S /\ \A n \in S : k <= n BY <1>1
<1>3. Min(S) = k BY <1>2, MinIs
<1> QED BY <1>1, <1>3

LEMMA MinOfTwo ==
  ASSUME NEW a \in Int, NEW b \in Int
  PROVE  Min({a, b}) = IF a <= b THEN a ELSE b
<1>1. CASE a <= b BY <1>1, MinIs
<1>2. CASE ~(a <= b) BY <1>2, MinIs
<1> QED BY <1>1, <1>2

LEMMA MaxOfTwo ==
  ASSUME NEW a \in Int, NEW b \in Int
  PROVE  Max({a, b}) = IF a <= b THEN b ELSE a
BY DEF Max

LEMMA SomethingIsNotNone ==
  /\ \A a, b : [peer |-> a, port |-> b] # None
  /\ \A r \in Responses : r # None
  /\ \A a, b, c : [rc |-> a, status |-> b, length |-> c] # None
BY DEF None, Responses

-----------------------------------------------------------------------------
(* What comes before a response's body.                                    *)

Front(r) == <<StatusLine(r.status), CRLF>> \o HeaderLines(r) \o <<CRLF>>
Length(r) == Header("content-length", r.length)
Coding(r) == Header("transfer-encoding", r.coding)
Units(r) ==
  {StatusLine(r.status), CRLF, Length(r), Coding(r)} \cup {r.body[i] : i \in 1..Len(r.body)}

\* Sequences of a response's units, put together.
LEMMA Joined ==
  ASSUME NEW S, NEW s \in Seq(S), NEW t \in Seq(S)
  PROVE  /\ s \o t \in Seq(S) /\ Len(s \o t) = Len(s) + Len(t)
         /\ \A i \in 1..Len(s) : (s \o t)[i] = s[i]
         /\ \A i \in 1..Len(t) : (s \o t)[Len(s) + i] = t[i]
<1>1. /\ s \o t \in Seq(S) /\ Len(s \o t) = Len(s) + Len(t)
      /\ \A i \in 1..(Len(s) + Len(t)) :
           (s \o t)[i] = IF i <= Len(s) THEN s[i] ELSE t[i - Len(s)]
  BY ConcatProperties
<1>2. Len(s) \in Nat /\ Len(t) \in Nat OBVIOUS
<1>3. ASSUME NEW i \in 1..Len(t) PROVE (s \o t)[Len(s) + i] = t[i]
  <2>1. Len(s) + i \in 1..(Len(s) + Len(t)) /\ ~(Len(s) + i <= Len(s)) /\ (Len(s) + i) - Len(s) = i
    BY <1>2
  <2> QED BY <1>1, <2>1
<1>4. \A i \in 1..Len(s) : (s \o t)[i] = s[i] BY <1>1, <1>2
<1> QED BY <1>1, <1>3, <1>4

\* The units of a front, one by one.
LEMMA FrontFacts ==
  ASSUME NEW r \in Responses
  PROVE  LET f == Front(r)
         IN  /\ f \in Seq(Units(r)) /\ f[1] = StatusLine(r.status) /\ f[2] = CRLF
             /\ r.length = -1 /\ r.coding = "plain" => Len(f) = 3 /\ f[3] = CRLF
             /\ r.length # -1 /\ r.coding = "plain" =>
                  Len(f) = 5 /\ f[3] = Length(r) /\ f[4] = CRLF /\ f[5] = CRLF
             /\ r.length = -1 /\ r.coding # "plain" =>
                  Len(f) = 5 /\ f[3] = Coding(r) /\ f[4] = CRLF /\ f[5] = CRLF
             /\ r.length # -1 /\ r.coding # "plain" =>
                  /\ Len(f) = 7 /\ f[3] = Length(r) /\ f[4] = CRLF /\ f[5] = Coding(r)
                  /\ f[6] = CRLF /\ f[7] = CRLF
<1> DEFINE U == Units(r)
<1>1. PICK S, L, T : S = StatusLine(r.status) /\ L = Length(r) /\ T = Coding(r) OBVIOUS
<1>2. S \in U /\ CRLF \in U /\ L \in U /\ T \in U BY <1>1 DEF Units
<1> HIDE DEF U
<1>3. PICK two, ends, len, cod :
        two = <<S, CRLF>> /\ ends = <<CRLF>> /\ len = <<L, CRLF>> /\ cod = <<T, CRLF>>
  OBVIOUS
<1>4. /\ two \in Seq(U) /\ Len(two) = 2 /\ two[1] = S /\ two[2] = CRLF
      /\ ends \in Seq(U) /\ Len(ends) = 1 /\ ends[1] = CRLF
      /\ len \in Seq(U) /\ Len(len) = 2 /\ len[1] = L /\ len[2] = CRLF
      /\ cod \in Seq(U) /\ Len(cod) = 2 /\ cod[1] = T /\ cod[2] = CRLF
  BY <1>2, <1>3
<1>5. /\ <<>> \in Seq(U) /\ two \o <<>> = two /\ len \o <<>> = len
      /\ <<>> \o cod = cod /\ <<>> \o <<>> = <<>>
  BY <1>4, ConcatEmptySeq
<1>6. Front(r) = two \o ((IF r.length = -1 THEN <<>> ELSE len) \o
                         (IF r.coding = "plain" THEN <<>> ELSE cod)) \o ends
  BY <1>1, <1>3 DEF Front, HeaderLines, Length, Coding
<1>7. PICK f : f = Front(r) OBVIOUS
<1>8. ASSUME NEW s \in Seq(U), NEW t \in Seq(U), NEW st, st = s \o t
      PROVE  /\ st \in Seq(U) /\ Len(st) = Len(s) + Len(t)
             /\ \A i \in 1..Len(s) : st[i] = s[i]
             /\ \A i \in 1..Len(t) : st[Len(s) + i] = t[i]
  BY <1>8, Joined
<1>9. CASE r.length = -1 /\ r.coding = "plain"
  <2>1. f = two \o ends BY <1>5, <1>6, <1>7, <1>9
  <2>2. /\ f \in Seq(U) /\ Len(f) = 2 + 1 /\ \A i \in 1..2 : f[i] = two[i]
        /\ \A i \in 1..1 : f[2 + i] = ends[i]
    <3>1. two \in Seq(U) /\ ends \in Seq(U) BY <1>4
    <3>2. /\ f \in Seq(U) /\ Len(f) = Len(two) + Len(ends)
          /\ \A i \in 1..Len(two) : f[i] = two[i]
          /\ \A i \in 1..Len(ends) : f[Len(two) + i] = ends[i]
      BY <1>8, <2>1, <3>1
    <3> QED BY <1>4, <3>2
  <2> QED BY <1>1, <1>4, <1>7, <1>9, <2>2 DEF U
<1>10. CASE (r.length = -1) # (r.coding = "plain")
  <2>1. PICK h : h = IF r.length = -1 THEN cod ELSE len OBVIOUS
  <2>2. h \in Seq(U) /\ Len(h) = 2 /\ h[2] = CRLF /\ h[1] = (IF r.length = -1 THEN T ELSE L)
    BY <1>4, <2>1
  <2>3. f = (two \o h) \o ends BY <1>5, <1>6, <1>7, <1>10, <2>1
  <2>4. PICK g : g = two \o h OBVIOUS
  <2>5. /\ g \in Seq(U) /\ Len(g) = 2 + 2 /\ \A i \in 1..2 : g[i] = two[i]
        /\ \A i \in 1..2 : g[2 + i] = h[i]
    <3>1. two \in Seq(U) /\ h \in Seq(U) BY <1>4, <2>2
    <3>2. /\ g \in Seq(U) /\ Len(g) = Len(two) + Len(h)
          /\ \A i \in 1..Len(two) : g[i] = two[i]
          /\ \A i \in 1..Len(h) : g[Len(two) + i] = h[i]
      BY <1>8, <2>4, <3>1
    <3> QED BY <1>4, <2>2, <3>2
  <2>6. /\ g \in Seq(U) /\ Len(g) = 4 /\ g[1] = S /\ g[2] = CRLF /\ g[3] = h[1] /\ g[4] = CRLF
    BY <1>4, <2>2, <2>5
  <2>7. f = g \o ends BY <2>3, <2>4
  <2>8. /\ f \in Seq(U) /\ Len(f) = 4 + 1 /\ \A i \in 1..4 : f[i] = g[i]
        /\ \A i \in 1..1 : f[4 + i] = ends[i]
    <3>1. g \in Seq(U) /\ ends \in Seq(U) BY <1>4, <2>6
    <3>2. /\ f \in Seq(U) /\ Len(f) = Len(g) + Len(ends)
          /\ \A i \in 1..Len(g) : f[i] = g[i]
          /\ \A i \in 1..Len(ends) : f[Len(g) + i] = ends[i]
      BY <1>8, <2>7, <3>1
    <3> QED BY <1>4, <2>6, <3>2
  <2>9. /\ f \in Seq(U) /\ Len(f) = 5 /\ f[1] = S /\ f[2] = CRLF
        /\ f[3] = (IF r.length = -1 THEN T ELSE L) /\ f[4] = CRLF /\ f[5] = CRLF
    BY <1>4, <2>2, <2>6, <2>8
  <2> QED BY <1>1, <1>7, <1>10, <2>9 DEF U
<1>11. CASE r.length # -1 /\ r.coding # "plain"
  <2>1. f = (two \o (len \o cod)) \o ends BY <1>6, <1>7, <1>11
  <2>2. PICK h : h = len \o cod OBVIOUS
  <2>3. /\ h \in Seq(U) /\ Len(h) = 2 + 2 /\ \A i \in 1..2 : h[i] = len[i]
        /\ \A i \in 1..2 : h[2 + i] = cod[i]
    <3>1. len \in Seq(U) /\ cod \in Seq(U) BY <1>4
    <3>2. /\ h \in Seq(U) /\ Len(h) = Len(len) + Len(cod)
          /\ \A i \in 1..Len(len) : h[i] = len[i]
          /\ \A i \in 1..Len(cod) : h[Len(len) + i] = cod[i]
      BY <1>8, <2>2, <3>1
    <3> QED BY <1>4, <3>2
  <2>4. h \in Seq(U) /\ Len(h) = 4 /\ h[1] = L /\ h[2] = CRLF /\ h[3] = T /\ h[4] = CRLF
    BY <1>4, <2>3
  <2>5. PICK g : g = two \o h OBVIOUS
  <2>6. /\ g \in Seq(U) /\ Len(g) = 2 + 4 /\ \A i \in 1..2 : g[i] = two[i]
        /\ \A i \in 1..4 : g[2 + i] = h[i]
    <3>1. two \in Seq(U) /\ h \in Seq(U) BY <1>4, <2>4
    <3>2. /\ g \in Seq(U) /\ Len(g) = Len(two) + Len(h)
          /\ \A i \in 1..Len(two) : g[i] = two[i]
          /\ \A i \in 1..Len(h) : g[Len(two) + i] = h[i]
      BY <1>8, <2>5, <3>1
    <3> QED BY <1>4, <2>4, <3>2
  <2>7. /\ g \in Seq(U) /\ Len(g) = 6 /\ g[1] = S /\ g[2] = CRLF /\ g[3] = L
        /\ g[4] = CRLF /\ g[5] = T /\ g[6] = CRLF
    BY <1>4, <2>4, <2>6
  <2>8. f = g \o ends BY <2>1, <2>2, <2>5
  <2>9. /\ f \in Seq(U) /\ Len(f) = 6 + 1 /\ \A i \in 1..6 : f[i] = g[i]
        /\ \A i \in 1..1 : f[6 + i] = ends[i]
    <3>1. g \in Seq(U) /\ ends \in Seq(U) BY <1>4, <2>7
    <3>2. /\ f \in Seq(U) /\ Len(f) = Len(g) + Len(ends)
          /\ \A i \in 1..Len(g) : f[i] = g[i]
          /\ \A i \in 1..Len(ends) : f[Len(g) + i] = ends[i]
      BY <1>8, <2>8, <3>1
    <3> QED BY <1>4, <2>7, <3>2
  <2>10. /\ f \in Seq(U) /\ Len(f) = 7 /\ f[1] = S /\ f[2] = CRLF /\ f[3] = L
         /\ f[4] = CRLF /\ f[5] = T /\ f[6] = CRLF /\ f[7] = CRLF
    BY <1>4, <2>7, <2>9
  <2> QED BY <1>1, <1>7, <1>11, <2>10 DEF U
<1> QED BY <1>9, <1>10, <1>11

\* w is s and then t.
Splits(w, s, t) ==
  /\ Len(w) = Len(s) + Len(t)
  /\ \A i \in 1..Len(s) : w[i] = s[i]
  /\ \A i \in 1..Len(t) : w[Len(s) + i] = t[i]

LEMMA PieceFacts ==
  ASSUME NEW S, NEW s \in Seq(S), NEW m \in Nat, NEW n \in Nat, n <= Len(s)
  PROVE  /\ SubSeq(s, m + 1, n) \in Seq(S)
         /\ Len(SubSeq(s, m + 1, n)) = IF m <= n THEN n - m ELSE 0
         /\ \A i \in 1..(n - m) : SubSeq(s, m + 1, n)[i] = s[m + i]
<1>1. Len(s) \in Nat OBVIOUS
<1>2. \A i \in (m + 1)..n : s[i] \in S BY <1>1
<1>3. /\ SubSeq(s, m + 1, n) \in Seq(S)
      /\ Len(SubSeq(s, m + 1, n)) = IF m + 1 <= n THEN n - (m + 1) + 1 ELSE 0
      /\ \A i \in 1..(n - (m + 1) + 1) : SubSeq(s, m + 1, n)[i] = s[m + 1 + i - 1]
  BY <1>2, SubSeqProperties
<1>4. n - (m + 1) + 1 = n - m OBVIOUS
<1>5. Len(SubSeq(s, m + 1, n)) = IF m <= n THEN n - m ELSE 0 BY <1>3
<1>6. ASSUME NEW i \in 1..(n - m) PROVE SubSeq(s, m + 1, n)[i] = s[m + i]
  <2>1. m + 1 + i - 1 = m + i OBVIOUS
  <2> QED BY <1>3, <1>4, <2>1
<1> QED BY <1>3, <1>5, <1>6

\* A piece of what has still to come is taken.
LEMMA Taken ==
  ASSUME NEW S, NEW w \in Seq(S), NEW s \in Seq(S), NEW t \in Seq(S), Splits(w, s, t),
         NEW n \in 1..Len(t)
  PROVE  LET all  == s \o SubSeq(t, 1, n)
             left == SubSeq(t, n + 1, Len(t))
         IN  /\ all \in Seq(S) /\ left \in Seq(S) /\ Len(all) = Len(s) + n
             /\ Splits(w, all, left)
<1> DEFINE all  == s \o SubSeq(t, 1, n)
           left == SubSeq(t, n + 1, Len(t))
<1> SUFFICES /\ all \in Seq(S) /\ left \in Seq(S) /\ Len(all) = Len(s) + n
             /\ Splits(w, all, left)
  OBVIOUS
<1>0. all = s \o SubSeq(t, 1, n) /\ left = SubSeq(t, n + 1, Len(t)) OBVIOUS
<1> HIDE DEF all, left
<1>1. Len(w) \in Nat /\ Len(s) \in Nat /\ Len(t) \in Nat OBVIOUS
<1>2. PICK piece : piece = SubSeq(t, 1, n) OBVIOUS
<1>3. /\ piece \in Seq(S) /\ Len(piece) = n
      /\ \A i \in 1..n : piece[i] = t[i]
  <2>1. n \in Nat /\ n <= Len(t) BY <1>1
  <2>2. /\ SubSeq(t, 0 + 1, n) \in Seq(S)
        /\ Len(SubSeq(t, 0 + 1, n)) = IF 0 <= n THEN n - 0 ELSE 0
        /\ \A i \in 1..(n - 0) : SubSeq(t, 0 + 1, n)[i] = t[0 + i]
    BY <2>1, PieceFacts
  <2>3. piece = SubSeq(t, 0 + 1, n) BY <1>2
  <2> QED BY <2>1, <2>2, <2>3
<1>4. /\ left \in Seq(S) /\ Len(left) = Len(t) - n
      /\ \A i \in 1..(Len(t) - n) : left[i] = t[n + i]
  <2>1. n \in Nat /\ n <= Len(t) BY <1>1
  <2>2. /\ SubSeq(t, n + 1, Len(t)) \in Seq(S)
        /\ Len(SubSeq(t, n + 1, Len(t))) = IF n <= Len(t) THEN Len(t) - n ELSE 0
        /\ \A i \in 1..(Len(t) - n) : SubSeq(t, n + 1, Len(t))[i] = t[n + i]
    BY <1>1, <2>1, PieceFacts
  <2> QED BY <1>0, <2>1, <2>2
<1>5. /\ all \in Seq(S) /\ Len(all) = Len(s) + Len(piece)
      /\ \A i \in 1..Len(s) : all[i] = s[i]
      /\ \A i \in 1..Len(piece) : all[Len(s) + i] = piece[i]
  BY <1>0, <1>2, <1>3, Joined
<1>6. ASSUME NEW i \in 1..Len(all) PROVE w[i] = all[i]
  <2>1. CASE i <= Len(s) BY <1>1, <1>5, <2>1 DEF Splits
  <2>2. CASE ~(i <= Len(s))
    <3>1. i - Len(s) \in 1..n /\ i - Len(s) \in 1..Len(t) /\ Len(s) + (i - Len(s)) = i
      BY <1>1, <1>3, <1>5, <2>2
    <3>2. all[Len(s) + (i - Len(s))] = piece[i - Len(s)] BY <1>3, <1>5, <3>1
    <3>3. w[Len(s) + (i - Len(s))] = t[i - Len(s)] BY <3>1 DEF Splits
    <3> QED BY <1>3, <3>1, <3>2, <3>3
  <2> QED BY <2>1, <2>2
<1>7. ASSUME NEW i \in 1..Len(left) PROVE w[Len(all) + i] = left[i]
  <2>1. n + i \in 1..Len(t) /\ Len(all) + i = Len(s) + (n + i) BY <1>1, <1>3, <1>4, <1>5
  <2>2. w[Len(s) + (n + i)] = t[n + i] BY <2>1 DEF Splits
  <2> QED BY <1>4, <2>1, <2>2
<1>8. Len(w) = Len(all) + Len(left)
  <2>1. Len(w) = Len(s) + Len(t) BY DEF Splits
  <2>2. Len(all) = Len(s) + n /\ Len(left) = Len(t) - n BY <1>3, <1>4, <1>5
  <2>3. ASSUME NEW a \in Nat, NEW b \in Nat, NEW k \in Nat
        PROVE  a + b = (a + k) + (b - k)
    OBVIOUS
  <2>4. Len(s) + Len(t) = (Len(s) + n) + (Len(t) - n) BY <1>1, <2>3
  <2> QED BY <2>1, <2>2, <2>4
<1> QED BY <1>3, <1>4, <1>5, <1>6, <1>7, <1>8 DEF Splits
-----------------------------------------------------------------------------
(* A response on the wire.                                                 *)

\* Every body is a sequence, a description the elements of its services.
LEMMA BodyIsSequence ==
  ASSUME NEW b \in Bodies
  PROVE  Len(b) \in Nat /\ b \in Seq({b[i] : i \in 1..Len(b)})
<1>1. CASE b \in {OkBody, BrokenBody} \cup Denials
  <2>1. \/ b = <<>>
        \/ \E x : b = <<x>>
        \/ \E x, y : b = <<x, y>>
        \/ \E x, y, z : b = <<x, y, z>>
    BY <1>1 DEF OkBody, FaultBody, BrokenBody, InEnvelope, Denials
  <2>2. CASE b = <<>> BY <2>2
  <2>3. ASSUME NEW x, b = <<x>>
        PROVE  Len(b) \in Nat /\ b \in Seq({b[i] : i \in 1..Len(b)})
    BY <2>3
  <2>4. ASSUME NEW x, NEW y, b = <<x, y>>
        PROVE  Len(b) \in Nat /\ b \in Seq({b[i] : i \in 1..Len(b)})
    BY <2>4
  <2>5. ASSUME NEW x, NEW y, NEW z, b = <<x, y, z>>
        PROVE  Len(b) \in Nat /\ b \in Seq({b[i] : i \in 1..Len(b)})
    BY <2>5
  <2> QED BY <2>1, <2>2, <2>3, <2>4, <2>5
<1>2. ASSUME NEW services \in Gateways, b = Description(services)
      PROVE  Len(b) \in Nat /\ b \in Seq({b[i] : i \in 1..Len(b)})
  <2>1. Len(services) \in Nat BY UpnpAssumption
  <2>2. PICK n \in Nat : n = 6 * Len(services) BY <2>1
  <2> DEFINE e(k) == ServiceElement(services[((k - 1) \div 6) + 1])[((k - 1) % 6) + 1]
  <2>3. b = [k \in 1..n |-> e(k)] BY <1>2, <2>2 DEF Description
  <2> HIDE DEF e
  <2>4. PICK S : S = {e(k) : k \in 1..n} OBVIOUS
  <2>5. b \in Seq(S) /\ Len(b) = n BY <2>3, <2>4
  <2>6. \A k \in 1..n : b[k] = e(k) BY <2>3
  <2>7. {b[i] : i \in 1..Len(b)} = S BY <2>4, <2>5, <2>6
  <2> QED BY <2>5, <2>7
<1> QED BY <1>1, <1>2 DEF Bodies

LEMMA WireFacts ==
  ASSUME NEW r \in Responses
  PROVE  /\ Front(r) \in Seq(Units(r)) /\ r.body \in Seq(Units(r)) /\ Wire(r) \in Seq(Units(r))
         /\ Splits(Wire(r), Front(r), r.body)
<1>1. r.body \in Bodies BY DEF Responses
<1>2. r.body \in Seq({r.body[i] : i \in 1..Len(r.body)}) BY <1>1, BodyIsSequence
<1>3. {r.body[i] : i \in 1..Len(r.body)} \subseteq Units(r) BY DEF Units
<1>4. r.body \in Seq(Units(r)) BY <1>2, <1>3, SeqMonotonic
<1>5. Front(r) \in Seq(Units(r)) BY FrontFacts
<1>6. Wire(r) = Front(r) \o r.body BY DEF Wire, Front
<1>7. /\ Front(r) \o r.body \in Seq(Units(r))
      /\ Splits(Front(r) \o r.body, Front(r), r.body)
  BY <1>4, <1>5, Joined DEF Splits
<1> QED BY <1>4, <1>5, <1>6, <1>7

LEMMA UnitKinds ==
  /\ \A n : StatusLine(n).kind = "status" /\ StatusLine(n).value = n
  /\ CRLF.kind = "crlf"
  /\ \A r : /\ Length(r).kind = "header" /\ Length(r).name = "content-length"
            /\ Length(r).value = r.length
            /\ Coding(r).kind = "header" /\ Coding(r).name = "transfer-encoding"
            /\ Coding(r).value = r.coding
BY DEF StatusLine, CRLF, Length, Coding, Header

\* Where the headers stand, and that only the last two line ends follow one
\* another.
LEMMA FrontOrder ==
  ASSUME NEW r \in Responses
  PROVE  LET f == Front(r)
             n == Len(f)
         IN  /\ n \in {3, 5, 7} /\ f[1] = StatusLine(r.status) /\ f[n - 1] = CRLF /\ f[n] = CRLF
             /\ \A i \in 1..(n - 2) : ~(f[i] = CRLF /\ f[i + 1] = CRLF)
             /\ \A i \in 1..(n - 1) :
                  /\ f[i].kind = "header" /\ f[i].name = "content-length"
                       <=> r.length # -1 /\ i = 3
                  /\ f[i].kind = "header" /\ f[i].name = "transfer-encoding"
                       <=> r.coding # "plain" /\ i = (IF r.length = -1 THEN 3 ELSE 5)
             /\ r.length # -1 => f[3] = Length(r)
             /\ r.coding # "plain" => f[IF r.length = -1 THEN 3 ELSE 5] = Coding(r)
<1>1. PICK f : f = Front(r) OBVIOUS
<1>2. /\ StatusLine(r.status).kind = "status" /\ CRLF.kind = "crlf"
      /\ Length(r).kind = "header" /\ Length(r).name = "content-length"
      /\ Coding(r).kind = "header" /\ Coding(r).name = "transfer-encoding"
  BY UnitKinds
<1>3. f[1] = StatusLine(r.status) /\ f[2] = CRLF BY <1>1, FrontFacts
<1>4. CASE r.length = -1 /\ r.coding = "plain"
  <2>1. Len(f) = 3 /\ f[3] = CRLF BY <1>1, <1>4, FrontFacts
  <2> QED BY <1>1, <1>2, <1>3, <1>4, <2>1
<1>5. CASE r.length # -1 /\ r.coding = "plain"
  <2>1. Len(f) = 5 /\ f[3] = Length(r) /\ f[4] = CRLF /\ f[5] = CRLF
    BY <1>1, <1>5, FrontFacts
  <2> QED BY <1>1, <1>2, <1>3, <1>5, <2>1
<1>6. CASE r.length = -1 /\ r.coding # "plain"
  <2>1. Len(f) = 5 /\ f[3] = Coding(r) /\ f[4] = CRLF /\ f[5] = CRLF
    BY <1>1, <1>6, FrontFacts
  <2> QED BY <1>1, <1>2, <1>3, <1>6, <2>1
<1>7. CASE r.length # -1 /\ r.coding # "plain"
  <2>1. /\ Len(f) = 7 /\ f[3] = Length(r) /\ f[4] = CRLF /\ f[5] = Coding(r)
        /\ f[6] = CRLF /\ f[7] = CRLF
    BY <1>1, <1>7, FrontFacts
  <2> QED BY <1>1, <1>2, <1>3, <1>7, <2>1
<1> QED BY <1>4, <1>5, <1>6, <1>7

\* However much of a response is in, the end of its headers is seen when and
\* only when it is in, and where it is.
LEMMA HeadersAreSeen ==
  ASSUME NEW r \in Responses, NEW seen \in Seq(Units(r)), NEW rest \in Seq(Units(r)),
         Splits(Wire(r), seen, rest)
  PROVE  /\ HeadersEnd(seen) = IF Len(seen) < Len(Front(r)) THEN 0 ELSE Len(Front(r)) - 1
         /\ \A i \in 1..Len(seen) : i <= Len(Front(r)) => seen[i] = Front(r)[i]
<1>1. PICK f, n : f = Front(r) /\ n = Len(f) OBVIOUS
<1>2. /\ n \in {3, 5, 7} /\ f[n - 1] = CRLF /\ f[n] = CRLF
      /\ \A i \in 1..(n - 2) : ~(f[i] = CRLF /\ f[i + 1] = CRLF)
  BY <1>1, FrontOrder
<1>3. Len(seen) \in Nat OBVIOUS
<1>4. ASSUME NEW i \in 1..Len(seen), i <= n PROVE seen[i] = f[i]
  <2>1. i \in 1..Len(Front(r)) BY <1>1, <1>2, <1>4
  <2>2. Wire(r)[i] = f[i] BY <1>1, <2>1, WireFacts DEF Splits
  <2> QED BY <2>2 DEF Splits
<1> DEFINE P == {i \in 1..(Len(seen) - 1) : seen[i] = CRLF /\ seen[i + 1] = CRLF}
<1>5. HeadersEnd(seen) = FirstOf(P) BY DEF HeadersEnd
<1>6. ASSUME NEW i \in P PROVE i >= n - 1
  <2>1. i \in 1..Len(seen) /\ i + 1 \in 1..Len(seen) BY <1>3
  <2>2. CASE i <= n - 2
    <3>1. seen[i] = f[i] /\ seen[i + 1] = f[i + 1] /\ i \in 1..(n - 2) BY <1>2, <1>4, <2>1, <2>2
    <3> QED BY <1>2, <3>1
  <2> QED BY <1>2, <2>1, <2>2
<1>7. CASE Len(seen) < n
  <2>1. P = {} BY <1>2, <1>3, <1>6, <1>7
  <2> QED BY <1>1, <1>4, <1>5, <1>7, <2>1 DEF FirstOf
<1>8. CASE ~(Len(seen) < n)
  <2>1. n - 1 \in 1..(Len(seen) - 1) /\ n - 1 \in 1..Len(seen) /\ n \in 1..Len(seen) /\ (n - 1) + 1 = n
    BY <1>2, <1>3, <1>8
  <2>2. n - 1 \in P BY <1>2, <1>4, <2>1
  <2>3. P \subseteq Int BY <1>3
  <2> HIDE DEF P
  <2>4. Min(P) = n - 1 BY <1>6, <2>2, <2>3, MinIs
  <2>5. FirstOf(P) = n - 1 BY <2>2, <2>4 DEF FirstOf
  <2> QED BY <1>1, <1>4, <1>5, <1>8, <2>5
<1> QED BY <1>7, <1>8

\* What is known once the headers are in is what the response means, or the
\* length of a body to read.
LEMMA HeadersAreUnderstood ==
  ASSUME NEW r \in Responses, NEW seen \in Seq(Units(r)), NEW rest \in Seq(Units(r)),
         Splits(Wire(r), seen, rest), ~(Len(seen) < Len(Front(r)))
  PROVE  IF r.coding = "plain" /\ r.length # -1
         THEN Known(seen) = [rc |-> "MORE", status |-> r.status, length |-> r.length]
         ELSE Known(seen).rc # "MORE" /\ \A cap : Known(seen) = Meant(r, cap)
<1>1. PICK f, n : f = Front(r) /\ n = Len(f) OBVIOUS
<1>2. /\ n \in {3, 5, 7} /\ f[1] = StatusLine(r.status) /\ r.length \in Int
      /\ r.coding \in {"plain", "chunked"}
  <2>1. n \in {3, 5, 7} /\ f[1] = StatusLine(r.status) BY <1>1, FrontOrder
  <2>2. r.length \in Int /\ r.coding \in {"plain", "chunked"} BY DEF Responses
  <2> QED BY <2>1, <2>2
<1>3. /\ HeadersEnd(seen) = n - 1 /\ Len(seen) \in Nat
      /\ \A i \in 1..(n - 1) : seen[i] = f[i]
  <2>1. /\ HeadersEnd(seen) = IF Len(seen) < n THEN 0 ELSE n - 1
        /\ \A i \in 1..Len(seen) : i <= n => seen[i] = f[i]
    BY <1>1, HeadersAreSeen
  <2>2. Len(seen) \in Nat /\ ~(Len(seen) < n) BY <1>1
  <2>3. HeadersEnd(seen) = n - 1 BY <2>1, <2>2
  <2>4. \A i \in 1..(n - 1) : i \in 1..Len(seen) /\ i <= n BY <1>2, <2>2
  <2> QED BY <2>1, <2>2, <2>3, <2>4
<1>4. find_header_value(seen, "content-length") = IF r.length = -1 THEN <<>> ELSE <<r.length>>
  <2> DEFINE N == {i \in 1..(n - 1) : seen[i].kind = "header" /\ seen[i].name = "content-length"}
  <2>1. find_header_value(seen, "content-length") = IF N = {} THEN <<>> ELSE <<seen[Min(N)].value>>
    BY <1>3 DEF find_header_value
  <2>2. \A i \in 1..(n - 1) : i \in N <=> r.length # -1 /\ i = 3
    <3>1. \A i \in 1..(n - 1) : f[i].kind = "header" /\ f[i].name = "content-length"
                                  <=> r.length # -1 /\ i = 3
      BY <1>1, FrontOrder
    <3> QED BY <1>3, <3>1
  <2>3. CASE r.length = -1 BY <2>1, <2>2, <2>3
  <2>4. CASE r.length # -1
    <3>1. n # 3 /\ f[3] = Length(r)
      <4>1. CASE r.coding = "plain"
        <5>1. n = 5 /\ f[3] = Length(r) BY <1>1, <2>4, <4>1, FrontFacts
        <5> QED BY <5>1
      <4>2. CASE r.coding # "plain"
        <5>1. n = 7 /\ f[3] = Length(r) BY <1>1, <2>4, <4>2, FrontFacts
        <5> QED BY <5>1
      <4> QED BY <4>1, <4>2
    <3>2. 3 \in 1..(n - 1) BY <1>2, <3>1
    <3>3. N = {3} BY <2>2, <2>4, <3>2
    <3> HIDE DEF N
    <3>4. Min({3}) = 3 BY MinOfOne
    <3>5. seen[3] = Length(r) BY <1>3, <3>1, <3>2
    <3>6. seen[3].value = r.length BY <3>5, UnitKinds
    <3>7. N # {} /\ Min(N) = 3 BY <3>3, <3>4
    <3>8. find_header_value(seen, "content-length") = <<seen[3].value>> BY <2>1, <3>7
    <3> QED BY <2>4, <3>6, <3>8
  <2> QED BY <2>3, <2>4
<1>5. find_header_value(seen, "transfer-encoding") =
        IF r.coding = "plain" THEN <<>> ELSE <<r.coding>>
  <2> DEFINE N == {i \in 1..(n - 1) : seen[i].kind = "header" /\ seen[i].name = "transfer-encoding"}
             k == IF r.length = -1 THEN 3 ELSE 5
  <2>1. find_header_value(seen, "transfer-encoding") = IF N = {} THEN <<>> ELSE <<seen[Min(N)].value>>
    BY <1>3 DEF find_header_value
  <2>2. \A i \in 1..(n - 1) : i \in N <=> r.coding # "plain" /\ i = k
    <3>1. \A i \in 1..(n - 1) : f[i].kind = "header" /\ f[i].name = "transfer-encoding"
                                  <=> r.coding # "plain" /\ i = k
      BY <1>1, FrontOrder
    <3> QED BY <1>3, <3>1
  <2>3. CASE r.coding = "plain" BY <2>1, <2>2, <2>3
  <2>4. CASE r.coding # "plain"
    <3>1. k \in 1..(n - 1) /\ f[k] = Coding(r)
      <4>1. CASE r.length = -1
        <5>1. n = 5 /\ f[3] = Coding(r) BY <1>1, <2>4, <4>1, FrontFacts
        <5> QED BY <4>1, <5>1
      <4>2. CASE r.length # -1
        <5>1. n = 7 /\ f[5] = Coding(r) BY <1>1, <2>4, <4>2, FrontFacts
        <5> QED BY <4>2, <5>1
      <4> QED BY <4>1, <4>2
    <3>2. k \in Int OBVIOUS
    <3> HIDE DEF k
    <3>3. N = {k} BY <2>2, <2>4, <3>1
    <3> HIDE DEF N
    <3>4. Min({k}) = k BY <3>2, MinOfOne
    <3>5. seen[k] = Coding(r) BY <1>3, <3>1
    <3>6. seen[k].value = r.coding BY <3>5, UnitKinds
    <3>7. N # {} /\ Min(N) = k BY <3>3, <3>4
    <3>8. find_header_value(seen, "transfer-encoding") = <<seen[k].value>> BY <2>1, <3>7
    <3> QED BY <2>4, <3>6, <3>8
  <2> QED BY <2>3, <2>4
<1>6. seen[1].kind = "status" /\ seen[1].value = r.status
  <2>1. seen[1] = StatusLine(r.status) BY <1>2, <1>3
  <2>2. StatusLine(r.status).kind = "status" /\ StatusLine(r.status).value = r.status BY UnitKinds
  <2> QED BY <2>1, <2>2
<1>7. parse_status_and_headers(seen) = IF r.coding = "chunked" THEN "NOT_SUPPORTED" ELSE "OK"
  <2>1. CASE r.coding = "plain"
    <3>1. <<>> # <<"chunked">> OBVIOUS
    <3> QED BY <1>5, <1>6, <2>1, <3>1 DEF parse_status_and_headers
  <2>2. CASE r.coding = "chunked" BY <1>5, <1>6, <2>2 DEF parse_status_and_headers
  <2> QED BY <1>2, <2>1, <2>2
<1>8. parse_dec(find_header_value(seen, "content-length")) = r.length
  <2>1. <<r.length>> # <<>> /\ <<r.length>>[1] = r.length OBVIOUS
  <2> QED BY <1>2, <1>4, <2>1 DEF parse_dec
<1>9. Known(seen) =
        IF r.coding = "chunked" THEN Failure("NOT_SUPPORTED")
        ELSE IF r.length # -1 THEN [rc |-> "MORE", status |-> r.status, length |-> r.length]
        ELSE IF r.status \in {204, 304} THEN [Failure("OK") EXCEPT !.status = r.status]
        ELSE Failure("BAD_ENDPOINT")
  <2>1. CASE r.coding = "chunked" BY <1>7, <2>1 DEF Known
  <2>2. CASE r.coding = "plain" BY <1>6, <1>7, <1>8, <2>2 DEF Known
  <2> QED BY <1>2, <2>1, <2>2
<1>10. CASE r.coding = "plain" /\ r.length # -1 BY <1>9, <1>10
<1>11. CASE r.coding = "chunked"
  <2>1. Known(seen) = Failure("NOT_SUPPORTED") BY <1>9, <1>11
  <2> QED BY <1>11, <2>1 DEF Meant, Failure
<1>12. CASE r.coding = "plain" /\ r.length = -1
  <2>1. \A cap : Known(seen) = Meant(r, cap) BY <1>9, <1>12 DEF Meant
  <2>2. Known(seen).rc # "MORE" BY <1>9, <1>12 DEF Failure
  <2> QED BY <1>12, <2>1, <2>2
<1> QED BY <1>2, <1>10, <1>11, <1>12
-----------------------------------------------------------------------------
(* A response's body.                                                      *)

\* What came along with the headers is the body's beginning, no longer than
\* is wanted of it; if it is shorter, the rest of the body is to come.
LEMMA BodyIsFound ==
  ASSUME NEW r \in Responses, r.length \in Nat, NEW cap \in Nat,
         NEW seen \in Seq(Units(r)), NEW rest \in Seq(Units(r)),
         Splits(Wire(r), seen, rest), ~(Len(seen) < Len(Front(r)))
  PROVE  LET start == BodySoFar(seen, r.length, cap)
         IN  /\ start \in Seq(Units(r)) /\ Len(start) \in Nat
             /\ Len(start) <= Min({r.length, cap}) /\ Len(start) <= Len(r.body)
             /\ \A i \in 1..Len(start) : start[i] = r.body[i]
             /\ Len(start) < Min({r.length, cap}) => Splits(r.body, start, rest)
<1>0. PICK start : start = BodySoFar(seen, r.length, cap) OBVIOUS
<1>1. PICK n \in {3, 5, 7} : n = Len(Front(r)) BY FrontOrder
<1>2. PICK k \in Nat : k = Len(seen) OBVIOUS
<1>3. body_off(seen) = n + 1
  <2>1. HeadersEnd(seen) = n - 1 BY <1>1, HeadersAreSeen
  <2> QED BY <1>1, <2>1 DEF body_off
<1>4. PICK along : along = SubSeq(seen, n + 1, k) OBVIOUS
<1>5. /\ n <= k /\ along \in Seq(Units(r)) /\ Len(along) = k - n
      /\ \A i \in 1..(k - n) : along[i] = seen[n + i]
  <2>1. n \in Nat /\ n <= k BY <1>1, <1>2
  <2>2. /\ SubSeq(seen, n + 1, k) \in Seq(Units(r))
        /\ Len(SubSeq(seen, n + 1, k)) = IF n <= k THEN k - n ELSE 0
        /\ \A i \in 1..(k - n) : SubSeq(seen, n + 1, k)[i] = seen[n + i]
    BY <1>2, <2>1, PieceFacts
  <2> QED BY <1>4, <2>1, <2>2
<1>6. PICK b \in Nat, l \in Nat : b = Len(r.body) /\ l = Len(rest)
  <2>1. r.body \in Seq(Units(r)) BY WireFacts
  <2> QED BY <2>1
<1>7. k + l = n + b
  <2>1. Len(Wire(r)) = k + l BY <1>2, <1>6 DEF Splits
  <2>2. Len(Wire(r)) = n + b BY <1>1, <1>6, WireFacts DEF Splits
  <2> QED BY <2>1, <2>2
<1>8. /\ k - n \in Nat /\ k - n <= b
      /\ \A i \in 1..(k - n) : along[i] = r.body[i]
  <2>1. k - n \in Nat /\ k - n <= b BY <1>1, <1>5, <1>6, <1>7
  <2>2. ASSUME NEW i \in 1..(k - n) PROVE along[i] = r.body[i]
    <3>1. n + i \in 1..k /\ i \in 1..b BY <1>1, <2>1
    <3>2. Wire(r)[n + i] = seen[n + i] BY <1>2, <3>1 DEF Splits
    <3>3. Wire(r)[n + i] = r.body[i] BY <1>1, <1>6, <3>1, WireFacts DEF Splits
    <3> QED BY <1>5, <3>2, <3>3
  <2> QED BY <2>1, <2>2
<1>9. PICK c \in Nat : c = Min({k - n, r.length})
  <2>1. Min({k - n, r.length}) = IF k - n <= r.length THEN k - n ELSE r.length BY <1>8, MinOfTwo
  <2> QED BY <1>8, <2>1
<1>10. PICK d \in Nat : d = Min({c, cap})
  <2>1. Min({c, cap}) = IF c <= cap THEN c ELSE cap BY MinOfTwo
  <2> QED BY <2>1
<1>11. PICK e \in Nat : e = Min({r.length, cap})
  <2>1. Min({r.length, cap}) = IF r.length <= cap THEN r.length ELSE cap BY MinOfTwo
  <2> QED BY <2>1
<1>12. c <= k - n /\ d <= c /\ d <= e /\ (d < e => d = k - n)
  <2>1. c = IF k - n <= r.length THEN k - n ELSE r.length BY <1>8, <1>9, MinOfTwo
  <2>2. d = IF c <= cap THEN c ELSE cap BY <1>10, MinOfTwo
  <2>3. e = IF r.length <= cap THEN r.length ELSE cap BY <1>11, MinOfTwo
  <2> QED BY <1>8, <2>1, <2>2, <2>3
<1>13. PICK already : already = SubSeq(along, 1, c) OBVIOUS
<1>14. /\ already \in Seq(Units(r)) /\ Len(already) = c
       /\ \A i \in 1..c : already[i] = along[i]
  <2>1. c <= Len(along) BY <1>5, <1>12
  <2>2. /\ SubSeq(along, 0 + 1, c) \in Seq(Units(r))
        /\ Len(SubSeq(along, 0 + 1, c)) = IF 0 <= c THEN c - 0 ELSE 0
        /\ \A i \in 1..(c - 0) : SubSeq(along, 0 + 1, c)[i] = along[0 + i]
    BY <1>5, <2>1, PieceFacts
  <2> QED BY <1>13, <2>2
<1>15. Already(seen, r.length) = already BY <1>2, <1>3, <1>4, <1>5, <1>9, <1>13 DEF Already
<1>16. start = SubSeq(already, 1, d) BY <1>0, <1>10, <1>14, <1>15 DEF BodySoFar
<1>17. /\ start \in Seq(Units(r)) /\ Len(start) = d
       /\ \A i \in 1..d : start[i] = already[i]
  <2>1. d <= Len(already) BY <1>12, <1>14
  <2>2. /\ SubSeq(already, 0 + 1, d) \in Seq(Units(r))
        /\ Len(SubSeq(already, 0 + 1, d)) = IF 0 <= d THEN d - 0 ELSE 0
        /\ \A i \in 1..(d - 0) : SubSeq(already, 0 + 1, d)[i] = already[0 + i]
    BY <1>14, <2>1, PieceFacts
  <2> QED BY <1>16, <2>2
<1>18. d <= b /\ d <= e BY <1>8, <1>12
<1>19. ASSUME NEW i \in 1..d PROVE start[i] = r.body[i]
  <2>1. i \in 1..c /\ i \in 1..(k - n) BY <1>8, <1>12
  <2> QED BY <1>8, <1>14, <1>17, <2>1
<1>20. ASSUME d < e PROVE Splits(r.body, start, rest)
  <2>1. d = k - n /\ b = d + l
    <3>1. d = k - n BY <1>12, <1>20
    <3>2. (k - n) + l = b BY <1>7
    <3> QED BY <3>1, <3>2
  <2>2. ASSUME NEW i \in 1..l PROVE r.body[d + i] = rest[i]
    <3>1. d + i \in 1..b BY <2>1
    <3>2. n + (d + i) = k + i BY <1>1, <2>1
    <3>3. Wire(r)[n + (d + i)] = r.body[d + i] BY <1>1, <1>6, <3>1, WireFacts DEF Splits
    <3>4. Wire(r)[k + i] = rest[i] BY <1>2, <1>6 DEF Splits
    <3> QED BY <3>2, <3>3, <3>4
  <2> QED BY <1>6, <1>17, <1>19, <2>1, <2>2 DEF Splits
<1> QED BY <1>0, <1>6, <1>11, <1>17, <1>18, <1>19, <1>20

\* A body of the wanted length is what the response means.
LEMMA BodyIsMeant ==
  ASSUME NEW r \in Responses, r.coding = "plain", r.length \in Nat, NEW cap \in Nat,
         NEW whole \in Seq(Units(r)), Len(whole) = Min({r.length, cap}),
         Len(whole) <= Len(r.body), \A i \in 1..Len(whole) : whole[i] = r.body[i]
  PROVE  BodyRead(r.status, whole, r.length) = Meant(r, cap)
<1>1. PICK e \in Nat : e = Len(whole) OBVIOUS
<1>2. e = IF r.length <= cap THEN r.length ELSE cap BY <1>1, MinOfTwo
<1>3. PICK meant : meant = SubSeq(r.body, 1, e) OBVIOUS
<1>4. meant \in Seq(Units(r)) /\ Len(meant) = e /\ \A i \in 1..e : meant[i] = r.body[i]
  <2>1. r.body \in Seq(Units(r)) /\ e <= Len(r.body) /\ e \in Nat /\ 0 \in Nat BY <1>1, WireFacts
  <2>2. /\ SubSeq(r.body, 0 + 1, e) \in Seq(Units(r))
        /\ Len(SubSeq(r.body, 0 + 1, e)) = IF 0 <= e THEN e - 0 ELSE 0
        /\ \A i \in 1..(e - 0) : SubSeq(r.body, 0 + 1, e)[i] = r.body[0 + i]
    BY <2>1, PieceFacts
  <2> QED BY <1>3, <2>2
<1>5. whole = meant BY <1>1, <1>4, SeqEqual
<1>6. (e < r.length) = (r.length > cap) BY <1>2
<1>7. r.coding # "chunked" /\ r.length # -1 /\ ~(Len(r.body) < e)
  <2>1. Len(r.body) \in Nat
    <3>1. r.body \in Seq(Units(r)) BY WireFacts
    <3> QED BY <3>1
  <2> QED BY <1>1, <2>1
<1>8. Meant(r, cap) = [rc |-> "OK", status |-> r.status, truncated |-> r.length > cap,
                       body |-> meant]
  BY <1>1, <1>3, <1>7 DEF Meant
<1>9. BodyRead(r.status, whole, r.length) =
        [rc |-> "OK", status |-> r.status, body |-> meant, truncated |-> r.length > cap]
  BY <1>1, <1>5, <1>6 DEF BodyRead
<1> QED BY <1>8, <1>9
-----------------------------------------------------------------------------
(* The inductive invariant.                                                *)

\* Out of an exchange's reading there is no response, and no trouble with one.
Quiet ==
  /\ gateway \in Gateways
  /\ response = None => stream = <<>> /\ closed = "open" /\ buf = <<>> /\ pc # "body"
  /\ pc \notin {"headers", "body"} => ~trouble

\* A wait's clock: every receive starts it again, and running out spoils.
Timing ==
  /\ pc \in {"connecting", "send", "headers", "body"} => since = 0
  /\ pc = "send" => now = 0
  /\ pc \in {"headers", "body"} /\ now >= UPNP_HTTP_TIMEOUT => trouble
  /\ closed = "reset" => trouble

\* While the headers are read, what is in and what has still to come are the
\* response, unless the network lost the rest.
Headers ==
  pc = "headers" /\ response # None =>
    /\ buf \in Seq(Units(response)) /\ stream \in Seq(Units(response))
    /\ Len(buf) < Len(Front(response))
    /\ stream # <<>> \/ ~trouble => Splits(Wire(response), buf, stream)

\* While a body is read, what has been read and what is to come are the body.
Body ==
  pc = "body" =>
    /\ response.coding = "plain" /\ response.length \in Nat
    /\ head = [rc |-> "MORE", status |-> response.status, length |-> response.length]
    /\ got \in Seq(Units(response)) /\ stream \in Seq(Units(response))
    /\ Len(got) < Min({response.length, BodyCap})
    /\ stream # <<>> \/ ~trouble => Splits(response.body, got, stream)

\* An answer to a post is a refusal, or comes with the mapping.
Answered == step = "post" /\ response # None => MappedNow \/ response.body \in Denials

IInv == TypeOK /\ Quiet /\ Timing /\ Headers /\ Body /\ Answered

\* How an exchange may end: with what the response means, or in an error
\* that has a reason; without a response, in an error.
Trusted(result) ==
  /\ response # None =>
       LET meant == Meant(response, BodyCap)
       IN \/ result = meant
          \/ result.rc # "OK" /\ (meant.rc # "OK" \/ trouble \/ Overlong(response))
  /\ response = None => result.rc # "OK"

ReadStep ==
  response # None /\ outcome' # outcome =>
    LET meant == Meant(response, BodyCap)
    IN \/ outcome' = meant
       \/ outcome'.rc # "OK" /\ (meant.rc # "OK" \/ trouble \/ Overlong(response))

SuccessStep == call # None /\ end'.success /\ ~end.success => AnsweredNow

LEMMA SockAnswers ==
  /\ sock_recv(UPNP_HTTP_TIMEOUT, "ready", "ECONNRESET", 0) # "OK"
  /\ sock_recv(UPNP_HTTP_TIMEOUT, "ready", "ok", 0) = "SOCKET_CLOSED"
  /\ sock_recv(UPNP_HTTP_TIMEOUT, "timed out", "ok", 0) # "OK"
  /\ \A errno \in {"EAGAIN", "EPIPE"} : sock_send(errno, FALSE) # "OK"
<1>1. UPNP_HTTP_TIMEOUT > 0 BY UpnpAssumption
<1>2. /\ Code("ECONNRESET") = "CONNECTION_RESET" /\ Code("ok") = "OK"
      /\ Code("EAGAIN") = "WOULD_BLOCK" /\ Code("EPIPE") = "SOCKET_CLOSED"
      /\ "ready" \notin Errnos /\ "timed out" \notin Errnos /\ "ok" \notin Errnos
      /\ "ECONNRESET" \in Errnos
  BY DEF Code, Errnos, sock_errno_to_xury
<1> QED BY <1>1, <1>2 DEF sock_recv, platform_sock_recv, sock_send, platform_sock_send

LEMMA FailureIs == ASSUME NEW rc PROVE Failure(rc).rc = rc
BY DEF Failure

LEMMA CapIsNat == step \in {"get", "post"} => BodyCap \in Nat
BY UpnpAssumption DEF BodyCap

\* A call ends: nothing is kept.
LEMMA FinishKeeps ==
  ASSUME IInv, NEW success, Finish(success), UNCHANGED <<calls, gateway, mapped>>
  PROVE  IInv'
<1>1. /\ pc' = "idle" /\ call' = None /\ now' = 0 /\ since' = 0 /\ replies' = 0 /\ unsent' = 0
      /\ step' = "get" /\ buf' = <<>> /\ got' = <<>> /\ head' = None
      /\ response' = None /\ stream' = <<>> /\ closed' = "open" /\ trouble' = FALSE
      /\ calls' = calls /\ gateway' = gateway
  BY DEF Finish, NoRead, NoStream
<1>2. TypeOK'
  <2>1. Len(<<>>) = 0 OBVIOUS
  <2>2. 0 < HTTP_HDR_CAP /\ 0 <= UPNP_DESC_CAP /\ 0 \in 0..MaxReplies
    BY UpnpAssumption, UpnpHttpAssumption
  <2>3. calls \in 0..MaxCalls BY DEF IInv, TypeOK
  <2>4. Len(buf') < HTTP_HDR_CAP BY <1>1, <2>1, <2>2
  <2>5. Len(got') <= BodyCap' BY <1>1, <2>1, <2>2 DEF BodyCap
  <2>6. since' \in 0..now' /\ now' \in Nat /\ unsent' \in 0..RequestUnits BY <1>1 DEF RequestUnits
  <2> QED BY <1>1, <2>2, <2>3, <2>4, <2>5, <2>6 DEF TypeOK
<1>3. Quiet' BY <1>1 DEF IInv, Quiet
<1>4. Timing' BY <1>1 DEF Timing
<1>5. Headers' /\ Body' /\ Answered' BY <1>1 DEF Headers, Body, Answered
<1> QED BY <1>2, <1>3, <1>4, <1>5 DEF IInv

\* An exchange ends: so does the call, or the next exchange begins afresh.
LEMMA ExchangedKeeps ==
  ASSUME IInv, pc # "idle", NEW result, Exchanged(result), UNCHANGED <<calls, gateway, mapped>>
  PROVE  IInv'
<1>1. CASE \E success : Finish(success) BY <1>1, FinishKeeps
<1>2. CASE ~\E success : Finish(success)
  <2>1. /\ pc' = "connect" /\ step' = "post" /\ now' = 0 /\ since' = 0 /\ unsent' = 0
        /\ buf' = <<>> /\ got' = <<>> /\ head' = None
        /\ response' = None /\ stream' = <<>> /\ closed' = "open" /\ trouble' = FALSE
        /\ call' = call /\ replies' = replies /\ calls' = calls /\ gateway' = gateway
    BY <1>2 DEF Exchanged, NoRead, NoStream
  <2>2. TypeOK'
    <3>1. Len(<<>>) = 0 OBVIOUS
    <3>2. 0 < HTTP_HDR_CAP /\ 0 <= UPNP_SOAP_CAP BY UpnpAssumption, UpnpHttpAssumption
    <3>3. calls \in 0..MaxCalls /\ replies \in 0..MaxReplies /\ call # None BY DEF IInv, TypeOK
    <3>4. Len(buf') < HTTP_HDR_CAP BY <2>1, <3>1, <3>2
    <3>5. Len(got') <= BodyCap' BY <2>1, <3>1, <3>2 DEF BodyCap
    <3>6. since' \in 0..now' /\ now' \in Nat /\ unsent' \in 0..RequestUnits
      BY <2>1 DEF RequestUnits
    <3> QED BY <2>1, <3>3, <3>4, <3>5, <3>6 DEF TypeOK
  <2>3. Quiet' BY <2>1 DEF IInv, Quiet
  <2>4. Timing' BY <2>1 DEF Timing
  <2>5. Headers' /\ Body' /\ Answered' BY <2>1 DEF Headers, Body, Answered
  <2> QED BY <2>2, <2>3, <2>4, <2>5 DEF IInv
<1> QED BY <1>1, <1>2

\* What an exchange's end says of the two properties.
LEMMA ExchangedIsRight ==
  ASSUME IInv, NEW result, Exchanged(result), Trusted(result)
  PROVE  ReadStep /\ SuccessStep
<1>1. ReadStep BY DEF Exchanged, Trusted, ReadStep
<1>2. ASSUME end'.success, ~end.success PROVE AnsweredNow
  <2>1. step = "post"
    <3>1. ASSUME step # "post" PROVE FALSE
      <4>1. Finish(FALSE) \/ end' = end BY <3>1 DEF Exchanged
      <4>2. CASE Finish(FALSE)
        <5>1. end'.success = FALSE BY <4>2 DEF Finish
        <5> QED BY <1>2, <5>1
      <4> QED BY <1>2, <4>1, <4>2
    <3> QED BY <3>1
  <2>2. Accepted(result)
    <3>1. Finish(Accepted(result)) BY <2>1 DEF Exchanged
    <3>2. end'.success = Accepted(result) BY <3>1 DEF Finish
    <3> QED BY <1>2, <3>2
  <2>3. response # None /\ result.rc = "OK" BY <2>2 DEF Accepted, Trusted
  <2>4. result = Meant(response, UPNP_SOAP_CAP) BY <2>1, <2>3 DEF Trusted, BodyCap
  <2>5. response.status = 200
    <3>1. result.status = 200 BY <2>2 DEF Accepted
    <3>2. Failure("NOT_SUPPORTED").rc # "OK" /\ Failure("BAD_ENDPOINT").rc # "OK" BY FailureIs
    <3>3. [Failure("OK") EXCEPT !.status = response.status].status = response.status
      BY DEF Failure
    <3> QED BY <2>3, <2>4, <3>1, <3>2, <3>3 DEF Meant
  <2>6. Undenied(response) BY <2>2, <2>3, <2>4, <2>5 DEF Accepted, Undenied
  <2> QED BY <2>1, <2>3, <2>6 DEF IInv, Answered, AnsweredNow
<1> QED BY <1>1, <1>2 DEF SuccessStep

\* Steps that read nothing and begin no reading but an empty one.
LEMMA ElsewhereKeeps ==
  ASSUME IInv, pc \notin {"headers", "body"},
         pc' \in {"idle", "search", "listen", "hear", "connect", "connecting", "send", "headers"},
         pc' = "idle" <=> call' = None, calls' \in 0..MaxCalls, replies' \in 0..MaxReplies,
         now' \in Nat, since' \in 0..now', unsent' \in 0..RequestUnits,
         pc' \in {"connecting", "send", "headers"} => since' = 0,
         pc' \in {"send", "headers"} => now' = 0, trouble' = trouble,
         UNCHANGED <<step, reading, response, stream, closed, gateway>>
  PROVE  IInv'
<1>1. /\ response = None /\ stream = <<>> /\ closed = "open" /\ buf = <<>> /\ head = None
      /\ ~trouble /\ gateway \in Gateways /\ step \in {"get", "post"} /\ Len(got) <= BodyCap
      /\ Len(buf) < HTTP_HDR_CAP /\ trouble \in BOOLEAN
  BY DEF IInv, TypeOK, Quiet
<1>2. /\ step' = step /\ buf' = buf /\ got' = got /\ head' = head /\ response' = response
      /\ stream' = stream /\ closed' = closed /\ gateway' = gateway
  BY DEF reading
<1>3. TypeOK'
  <2>1. Len(buf') < HTTP_HDR_CAP /\ Len(got') <= BodyCap' BY <1>1, <1>2 DEF BodyCap
  <2> QED BY <1>1, <1>2, <2>1 DEF TypeOK
<1>4. Quiet' BY <1>1, <1>2 DEF Quiet
<1>5. Timing'
  <2>1. ~(0 >= UPNP_HTTP_TIMEOUT) BY UpnpAssumption
  <2> QED BY <1>1, <1>2, <2>1 DEF Timing
<1>6. Headers' /\ Body' /\ Answered' BY <1>1, <1>2 DEF Headers, Body, Answered
<1> QED BY <1>3, <1>4, <1>5, <1>6 DEF IInv

\* What ends no call and no exchange says nothing of the two properties.
LEMMA NothingEnds ==
  ASSUME end' = end \/ ~end'.success, outcome' = outcome \/ response = None
  PROVE  ReadStep /\ SuccessStep
BY DEF ReadStep, SuccessStep

LEMMA FinishesWithout ==
  ASSUME IInv, Finish(FALSE), UNCHANGED <<calls, outcome, gateway, mapped>>
  PROVE  IInv' /\ ReadStep /\ SuccessStep
<1>1. IInv' BY FinishKeeps
<1>2. ~end'.success
  <2>1. end' = [rc |-> "OK", success |-> FALSE] BY DEF Finish
  <2> QED BY <2>1
<1> QED BY <1>1, <1>2, NothingEnds

LEMMA BeginKeeps == IInv /\ Begin => IInv' /\ ReadStep /\ SuccessStep
<1> SUFFICES ASSUME IInv, Begin PROVE IInv' /\ ReadStep /\ SuccessStep OBVIOUS
<1>1. /\ pc = "idle" /\ calls' = calls + 1 /\ calls < MaxCalls
      /\ UNCHANGED <<clock, replies, unsent, step, reading, remote, gateway>>
  BY DEF Begin
<1>2. response = None BY <1>1 DEF IInv, TypeOK
<1>3. \/ pc' = "idle" /\ call' = None
      \/ pc' = "search" /\ call' # None
  <2>1. call = None BY <1>1 DEF IInv, TypeOK
  <2>2. \/ pc' = pc /\ call' = call
        \/ pc' = "search" /\ \E peer, port : call' = [peer |-> peer, port |-> port]
    BY DEF Begin
  <2> QED BY <1>1, <2>1, <2>2, SomethingIsNotNone
<1>4. ~end'.success
  <2>1. \E rc : end' = [rc |-> rc, success |-> FALSE] BY DEF Begin
  <2> QED BY <2>1
<1>5. calls' \in 0..MaxCalls BY <1>1, UpnpAssumption DEF IInv, TypeOK
<1>6. /\ replies' \in 0..MaxReplies /\ now' \in Nat /\ since' \in 0..now'
      /\ unsent' \in 0..RequestUnits
  BY <1>1 DEF clock, IInv, TypeOK
<1>7. UNCHANGED <<step, reading, response, stream, closed, gateway>> /\ trouble' = trouble
  BY <1>1 DEF remote
<1>8. IInv' BY <1>1, <1>3, <1>5, <1>6, <1>7, ElsewhereKeeps
<1> QED BY <1>2, <1>4, <1>8, NothingEnds

LEMMA SearchKeeps ==
  IInv /\ (ssdp_discover \/ SearchEnds \/ Listen \/ Hear \/ HearsNothing \/ HearFails)
    => IInv' /\ ReadStep /\ SuccessStep
<1> SUFFICES ASSUME IInv, ssdp_discover \/ SearchEnds \/ Listen \/ Hear \/ HearsNothing \/ HearFails
             PROVE  IInv' /\ ReadStep /\ SuccessStep
  OBVIOUS
<1>1. pc \in {"search", "listen", "hear"} /\ UNCHANGED <<calls, outcome, gateway, mapped>>
  BY DEF ssdp_discover, SearchEnds, Listen, Hear, HearsNothing, HearFails, asked
<1>2. /\ call # None /\ calls \in 0..MaxCalls /\ replies \in 0..MaxReplies /\ now \in Nat
      /\ since \in 0..now /\ unsent \in 0..RequestUnits
  BY <1>1 DEF IInv, TypeOK
<1>3. CASE Finish(FALSE) BY <1>1, <1>3, FinishesWithout
<1>4. ASSUME pc' \in {"listen", "hear", "connect"}, call' = call, end' = end,
             replies' \in 0..MaxReplies, now' \in Nat, since' \in 0..now', unsent' = unsent,
             UNCHANGED <<step, reading, remote>>
      PROVE  IInv' /\ ReadStep /\ SuccessStep
  <2>1. trouble' = trouble /\ UNCHANGED <<step, reading, response, stream, closed, gateway>>
    BY <1>1, <1>4 DEF remote
  <2>2. IInv' BY <1>1, <1>2, <1>4, <2>1, ElsewhereKeeps
  <2> QED BY <1>1, <1>4, <2>2, NothingEnds
<1>5. CASE ssdp_discover
  <2>1. \/ Finish(FALSE)
        \/ /\ pc' = "listen"
           /\ UNCHANGED <<call, end, clock, replies, url, step, target, unsent, reading, remote>>
    BY <1>5 DEF ssdp_discover
  <2>2. CASE UNCHANGED <<call, end, clock, replies, url, step, target, unsent, reading, remote>>
    <3>1. now' = now /\ since' = since BY <2>2 DEF clock
    <3> QED BY <1>2, <1>3, <1>4, <2>1, <2>2, <3>1
  <2> QED BY <1>3, <2>1, <2>2
<1>6. CASE Listen
  <2>1. now' = now /\ since' = now /\ call' = call /\ end' = end /\ pc' = "hear"
        /\ UNCHANGED <<replies, unsent, step, reading, remote>>
    BY <1>6 DEF Listen, asked
  <2> QED BY <1>2, <1>4, <2>1
<1>7. CASE HearsNothing
  <2>1. now' = now /\ since' = since /\ call' = call /\ end' = end /\ pc' = "listen"
        /\ UNCHANGED <<replies, unsent, step, reading, remote>>
    BY <1>7 DEF HearsNothing, asked, clock
  <2> QED BY <1>2, <1>4, <2>1
<1>8. CASE Hear
  <2>1. \/ Finish(FALSE)
        \/ /\ pc' = "listen" /\ replies' = replies + 1 /\ replies < MaxReplies
           /\ UNCHANGED <<call, end, clock, unsent, step, reading, remote>>
        \/ /\ pc' = "connect" /\ now' = 0 /\ since' = 0 /\ replies' = 0
           /\ UNCHANGED <<call, end, unsent, step, reading, remote>>
    BY <1>8 DEF Hear
  <2>2. CASE /\ pc' = "listen" /\ replies' = replies + 1 /\ replies < MaxReplies
             /\ UNCHANGED <<call, end, clock, unsent, step, reading, remote>>
    <3>1. now' = now /\ since' = since BY <2>2 DEF clock
    <3>2. replies' \in 0..MaxReplies BY <1>2, <2>2, UpnpAssumption
    <3> QED BY <1>2, <1>4, <2>2, <3>1, <3>2
  <2>3. CASE /\ pc' = "connect" /\ now' = 0 /\ since' = 0 /\ replies' = 0
             /\ UNCHANGED <<call, end, unsent, step, reading, remote>>
    <3>1. 0 \in 0..MaxReplies BY UpnpAssumption
    <3> QED BY <1>2, <1>4, <2>3, <3>1
  <2> QED BY <1>3, <2>1, <2>2, <2>3
<1>9. CASE SearchEnds \/ HearFails BY <1>3, <1>9 DEF SearchEnds, HearFails
<1> QED BY <1>5, <1>6, <1>7, <1>8, <1>9

LEMMA ConnectKeeps ==
  IInv /\ (tcp_connect \/ Connected) => IInv' /\ ReadStep /\ SuccessStep
<1> SUFFICES ASSUME IInv, tcp_connect \/ Connected PROVE IInv' /\ ReadStep /\ SuccessStep
  OBVIOUS
<1>1. pc \in {"connect", "connecting"} /\ UNCHANGED <<calls, outcome, gateway, mapped>>
  BY DEF tcp_connect, Connected
<1>2. /\ call # None /\ calls \in 0..MaxCalls /\ replies \in 0..MaxReplies /\ now \in Nat
      /\ since \in 0..now /\ unsent \in 0..RequestUnits /\ (pc = "connecting" => since = 0)
  BY <1>1 DEF IInv, TypeOK, Timing
<1>3. CASE Finish(FALSE) BY <1>1, <1>3, FinishesWithout
<1>4. CASE /\ pc' \in {"connecting", "send"} /\ now' = 0 /\ since' = 0
           /\ unsent' \in 0..RequestUnits
           /\ UNCHANGED <<call, end, replies, step, reading, remote>>
  <2>1. trouble' = trouble /\ UNCHANGED <<step, reading, response, stream, closed, gateway>>
    BY <1>1, <1>4 DEF remote
  <2>2. IInv' BY <1>1, <1>2, <1>4, <2>1, ElsewhereKeeps
  <2> QED BY <1>1, <1>4, <2>2, NothingEnds
<1>5. CASE tcp_connect
  <2>1. \/ Finish(FALSE)
        \/ /\ pc' \in {"connecting", "send"} /\ now' = 0 /\ since' = 0 /\ unsent' = RequestUnits
           /\ UNCHANGED <<call, end, replies, step, reading, remote>>
    BY <1>5 DEF tcp_connect
  <2>2. RequestUnits \in 0..RequestUnits BY DEF RequestUnits
  <2> QED BY <1>3, <1>4, <2>1, <2>2
<1>6. CASE Connected
  <2>1. \/ Finish(FALSE)
        \/ /\ pc' = "send" /\ now' = 0 /\ since' = since
           /\ UNCHANGED <<call, end, replies, step, unsent, reading, remote>>
    BY <1>6 DEF Connected
  <2>2. since = 0 BY <1>2, <1>6 DEF Connected
  <2> QED BY <1>2, <1>3, <1>4, <2>1, <2>2
<1> QED BY <1>5, <1>6

LEMMA SendKeeps == IInv /\ send_all => IInv' /\ ReadStep /\ SuccessStep
<1> SUFFICES ASSUME IInv, send_all PROVE IInv' /\ ReadStep /\ SuccessStep OBVIOUS
<1>1. pc = "send" /\ UNCHANGED <<calls, gateway, mapped>> BY DEF send_all
<1>2. /\ call # None /\ calls \in 0..MaxCalls /\ replies \in 0..MaxReplies
      /\ unsent \in 0..RequestUnits /\ since = 0 /\ now = 0 /\ response = None
  BY <1>1 DEF IInv, TypeOK, Timing
<1>3. ASSUME NEW n \in 1..unsent, unsent' = unsent - n, pc' \in {"send", "headers"},
             UNCHANGED <<call, end, clock, replies, step, reading, outcome, remote>>
      PROVE  IInv' /\ ReadStep /\ SuccessStep
  <2>1. unsent' \in 0..RequestUnits BY <1>2, <1>3 DEF RequestUnits
  <2>2. /\ trouble' = trouble /\ now' = 0 /\ since' = 0
        /\ UNCHANGED <<step, reading, response, stream, closed, gateway>>
    BY <1>1, <1>2, <1>3 DEF remote, clock
  <2>3. IInv' BY <1>1, <1>2, <1>3, <2>1, <2>2, ElsewhereKeeps
  <2> QED BY <1>3, <2>3, NothingEnds
<1>4. ASSUME NEW errno \in {"EAGAIN", "EPIPE"}, Exchanged(Failure(sock_send(errno, FALSE)))
      PROVE  IInv' /\ ReadStep /\ SuccessStep
  <2>1. PICK result : result = Failure(sock_send(errno, FALSE)) OBVIOUS
  <2>2. result.rc # "OK" BY <2>1, FailureIs, SockAnswers
  <2>3. Trusted(result) BY <1>2, <2>2 DEF Trusted
  <2> QED BY <1>1, <1>4, <2>1, <2>3, ExchangedKeeps, ExchangedIsRight
<1> QED BY <1>3, <1>4 DEF send_all

\* What a gateway gives is a response, whatever it declares.
LEMMA GivenIsResponse ==
  ASSUME NEW b \in Bodies
  PROVE  /\ Answers(b) \subseteq Responses
         /\ \A status \in Int : Whole(b, status) \in Responses
<1>1. Len(b) \in Nat BY BodyIsSequence
<1>2. ASSUME NEW status \in Int, NEW n \in {-1} \cup Nat, NEW coding \in {"plain", "chunked"}
      PROVE  [status |-> status, coding |-> coding, body |-> b, length |-> n] \in Responses
  BY DEF Responses
<1>3. ASSUME NEW status \in Int PROVE Whole(b, status) \in Responses BY <1>1, <1>2 DEF Whole
<1>4. ASSUME NEW status \in Statuses, NEW n \in {-1} \cup {Max({0, Len(b) + d}) : d \in Lengths}
      PROVE  [Whole(b, status) EXCEPT !.length = n] \in Responses
  <2>1. n \in {-1} \cup Nat
    <3>1. ASSUME NEW d \in Lengths PROVE Max({0, Len(b) + d}) \in Nat
      <4>1. Len(b) + d \in Int BY <1>1, UpnpAssumption
      <4> QED BY <4>1, MaxOfTwo
    <3> QED BY <3>1
  <2>2. status \in Int BY UpnpAssumption
  <2>3. [Whole(b, status) EXCEPT !.length = n] =
          [status |-> status, coding |-> "plain", body |-> b, length |-> n]
    BY DEF Whole
  <2> QED BY <1>2, <2>1, <2>2, <2>3
<1>5. [Whole(b, 200) EXCEPT !.coding = "chunked"] \in Responses
  <2>1. [Whole(b, 200) EXCEPT !.coding = "chunked"] =
          [status |-> 200, coding |-> "chunked", body |-> b, length |-> Len(b)]
    BY DEF Whole
  <2>2. 200 \in Int /\ Len(b) \in {-1} \cup Nat /\ "chunked" \in {"plain", "chunked"} BY <1>1
  <2>3. [status |-> 200, coding |-> "chunked", body |-> b, length |-> Len(b)] \in Responses
    BY <1>2, <2>2
  <2> QED BY <2>1, <2>3
<1>6. ASSUME NEW a \in Answers(b) PROVE a \in Responses
  <2> DEFINE e(status, n) == [Whole(b, status) EXCEPT !.length = n]
             c == [Whole(b, 200) EXCEPT !.coding = "chunked"]
  <2>1. PICK N : N = {-1} \cup {Max({0, Len(b) + d}) : d \in Lengths} OBVIOUS
  <2>2. Answers(b) = {e(status, n) : status \in Statuses, n \in N} \cup {c} BY <2>1 DEF Answers
  <2>3. \A status \in Statuses, n \in N : e(status, n) \in Responses BY <1>4, <2>1
  <2>4. c \in Responses BY <1>5
  <2> HIDE DEF e, c
  <2>5. a = c \/ \E status \in Statuses, n \in N : a = e(status, n) BY <1>6, <2>2
  <2> QED BY <2>3, <2>4, <2>5
<1> QED BY <1>3, <1>6

LEMMA BodyIsGiven ==
  ASSUME NEW b, NEW r \in Answers(b) \cup {Whole(b, 500)}
  PROVE  r.body = b
<1>1. \A status : Whole(b, status).body = b BY DEF Whole
<1>2. \A status, n : [Whole(b, status) EXCEPT !.length = n].body = b BY DEF Whole
<1>3. [Whole(b, 200) EXCEPT !.coding = "chunked"].body = b BY DEF Whole
<1> DEFINE e(status, n) == [Whole(b, status) EXCEPT !.length = n]
           c == [Whole(b, 200) EXCEPT !.coding = "chunked"]
           w == Whole(b, 500)
<1>4. PICK N : N = {-1} \cup {Max({0, Len(b) + d}) : d \in Lengths} OBVIOUS
<1>5. Answers(b) = {e(status, n) : status \in Statuses, n \in N} \cup {c} BY <1>4 DEF Answers
<1>6. w.body = b /\ c.body = b /\ \A status, n : e(status, n).body = b BY <1>1, <1>2, <1>3
<1>7. r \in Answers(b) \cup {w} OBVIOUS
<1> HIDE DEF e, c, w
<1>8. r = w \/ r = c \/ \E status \in Statuses, n \in N : r = e(status, n) BY <1>5, <1>7
<1> QED BY <1>6, <1>8

LEMMA ServeKeeps == IInv /\ Serve => IInv' /\ ReadStep /\ SuccessStep
<1> SUFFICES ASSUME IInv, Serve PROVE IInv' /\ ReadStep /\ SuccessStep OBVIOUS
<1>1. /\ pc = "headers" /\ response = None /\ pc' = pc /\ calls' = calls /\ call' = call
      /\ end' = end /\ now' = now /\ since' = since /\ replies' = replies /\ step' = step
      /\ unsent' = unsent /\ buf' = buf /\ got' = got /\ head' = head /\ outcome' = outcome
      /\ gateway' = gateway
  BY DEF Serve, asked, clock, reading
<1>2. gateway \in Gateways /\ buf = <<>> /\ closed = "open" /\ call # None /\ head = None
      /\ step \in {"get", "post"}
  BY <1>1 DEF IInv, TypeOK, Quiet
<1>3. PICK r \in Responses : Gives(r) /\ (step = "post" => MappedNow' \/ r.body \in Denials)
  <2>1. CASE /\ step = "get"
             /\ \E r \in Answers(Description(gateway)) \cup {Whole(BrokenBody, 200)} : Gives(r)
    <3>1. Description(gateway) \in Bodies /\ BrokenBody \in Bodies BY <1>2 DEF Bodies
    <3>2. 200 \in Int OBVIOUS
    <3>3. Answers(Description(gateway)) \cup {Whole(BrokenBody, 200)} \subseteq Responses
      BY <3>1, <3>2, GivenIsResponse
    <3> QED BY <2>1, <3>3
  <2>2. CASE /\ mapped' = mapped \cup {[at   |-> calls,
                                        soap |-> build_add_port_mapping(call.peer, call.port)]}
             /\ \E r \in Answers(OkBody) : Gives(r)
    <3>1. OkBody \in Bodies BY DEF Bodies
    <3>2. Answers(OkBody) \subseteq Responses BY <3>1, GivenIsResponse
    <3>3. PICK m : m = [at |-> calls, soap |-> build_add_port_mapping(call.peer, call.port)]
      OBVIOUS
    <3>4. m \in mapped' /\ m.at = calls' /\ m.soap.port = call'.port
      BY <1>1, <2>2, <3>3 DEF build_add_port_mapping
    <3>5. MappedNow' BY <3>4 DEF MappedNow
    <3> QED BY <2>2, <3>2, <3>5
  <2>3. CASE \E body \in Denials : \E r \in Answers(body) \cup {Whole(body, 500)} : Gives(r)
    <3>1. PICK body \in Denials : \E r \in Answers(body) \cup {Whole(body, 500)} : Gives(r)
      BY <2>3
    <3>2. body \in Bodies /\ 500 \in Int BY DEF Bodies
    <3>3. Answers(body) \cup {Whole(body, 500)} \subseteq Responses BY <3>2, GivenIsResponse
    <3>4. \A r \in Answers(body) \cup {Whole(body, 500)} : r.body = body BY BodyIsGiven
    <3> QED BY <3>1, <3>3, <3>4
  <2> QED BY <2>1, <2>2, <2>3 DEF Serve
<1>4. response' = r /\ stream' = Wire(r) /\ closed' = closed /\ trouble' = trouble
      /\ r # None
  BY <1>3, SomethingIsNotNone DEF Gives
<1>5. TypeOK'
  <2>1. BodyCap' = BodyCap BY <1>1 DEF BodyCap
  <2> QED BY <1>1, <1>4, <2>1 DEF IInv, TypeOK
<1>6. Quiet' BY <1>1, <1>2, <1>4 DEF Quiet
<1>7. Timing' BY <1>1, <1>4 DEF IInv, Timing
<1>8. Headers'
  <2>1. Wire(r) \in Seq(Units(r)) BY WireFacts
  <2>2. Len(Front(r)) \in {3, 5, 7} BY FrontOrder
  <2>3. <<>> \in Seq(Units(r)) /\ Len(<<>>) = 0 OBVIOUS
  <2>4. Splits(Wire(r), <<>>, Wire(r))
    <3>1. Len(Wire(r)) \in Nat BY <2>1
    <3>2. \A i \in 1..Len(Wire(r)) : 0 + i = i BY <3>1
    <3> QED BY <2>3, <3>1, <3>2 DEF Splits
  <2>5. buf' = <<>> BY <1>1, <1>2
  <2>6. response' = r /\ stream' = Wire(r) BY <1>4
  <2>7. buf' \in Seq(Units(response')) /\ stream' \in Seq(Units(response'))
    BY <2>1, <2>3, <2>5, <2>6
  <2>8. Len(buf') < Len(Front(response')) BY <2>2, <2>3, <2>5, <2>6
  <2>9. Splits(Wire(response'), buf', stream') BY <2>4, <2>5, <2>6
  <2> QED BY <2>7, <2>8, <2>9 DEF Headers
<1>9. Body' BY <1>1 DEF Body
<1>10. Answered' BY <1>1, <1>3, <1>4 DEF Answered
<1>11. IInv' BY <1>5, <1>6, <1>7, <1>8, <1>9, <1>10 DEF IInv
<1> QED BY <1>1, <1>11, NothingEnds

\* The stream ends, or a unit of time passes while an exchange reads.
LEMMA SpoilKeeps == IInv /\ (Breaks \/ Tick) => IInv' /\ ReadStep /\ SuccessStep
<1> SUFFICES ASSUME IInv, Breaks \/ Tick PROVE IInv' /\ ReadStep /\ SuccessStep OBVIOUS
<1>1. /\ pc' = pc /\ calls' = calls /\ call' = call /\ end' = end /\ since' = since
      /\ replies' = replies /\ step' = step /\ unsent' = unsent /\ buf' = buf /\ got' = got
      /\ head' = head /\ outcome' = outcome /\ gateway' = gateway /\ response' = response
      /\ mapped' = mapped
  BY DEF Breaks, Tick, asked, clock, reading
<1>2. now \in Nat /\ since \in 0..now /\ trouble \in BOOLEAN BY DEF IInv, TypeOK
<1>3. /\ trouble' \in BOOLEAN /\ (trouble => trouble') /\ now' \in Nat /\ since' \in 0..now'
      /\ closed' \in {"open", "closed", "reset"}
      /\ stream' = stream \/ (stream' = <<>> /\ (stream # <<>> => trouble'))
      /\ response = None => stream' = stream /\ closed' = closed
  <2>1. CASE Breaks BY <1>1, <1>2, <2>1 DEF Breaks, clock
  <2>2. CASE Tick BY <1>1, <1>2, <2>2 DEF Tick, IInv, TypeOK
  <2> QED BY <2>1, <2>2
<1>4. /\ pc' \notin {"headers", "body"} => ~trouble'
      /\ pc = "send" => now' = now
      /\ pc' \in {"headers", "body"} /\ now' >= UPNP_HTTP_TIMEOUT => trouble'
      /\ closed' = "reset" => trouble'
  <2>1. CASE Breaks BY <1>1, <2>1 DEF Breaks, clock, IInv, Timing
  <2>2. CASE Tick
    <3>1. /\ trouble' = (trouble \/ (pc \in {"headers", "body"} /\ now' >= UPNP_HTTP_TIMEOUT))
          /\ closed' = closed /\ pc # "send"
      BY <2>2 DEF Tick, Waiting
    <3> QED BY <1>1, <3>1 DEF IInv, Quiet, Timing
  <2> QED BY <2>1, <2>2
<1>5. TypeOK'
  <2>1. BodyCap' = BodyCap BY <1>1 DEF BodyCap
  <2> QED BY <1>1, <1>3, <2>1 DEF IInv, TypeOK
<1>6. Quiet' BY <1>1, <1>3, <1>4 DEF IInv, Quiet
<1>7. Timing' BY <1>1, <1>3, <1>4 DEF IInv, Timing
<1>8. Headers'
  <2> SUFFICES ASSUME pc = "headers", response # None PROVE Headers' BY <1>1 DEF Headers
  <2>1. stream' \in Seq(Units(response))
    <3>1. PICK U : U = Units(response) OBVIOUS
    <3>2. stream \in Seq(U) BY <3>1 DEF IInv, Headers
    <3>3. <<>> \in Seq(U) OBVIOUS
    <3>4. stream' = stream \/ stream' = <<>> BY <1>3
    <3> QED BY <3>1, <3>2, <3>3, <3>4
  <2>2. stream' # <<>> \/ ~trouble' => stream' = stream /\ (stream # <<>> \/ ~trouble)
    BY <1>2, <1>3
  <2> QED BY <1>1, <2>1, <2>2 DEF IInv, Headers
<1>9. Body'
  <2> SUFFICES ASSUME pc = "body" PROVE Body' BY <1>1 DEF Body
  <2>1. stream' \in Seq(Units(response))
    <3>1. PICK U : U = Units(response) OBVIOUS
    <3>2. stream \in Seq(U) BY <3>1 DEF IInv, Body
    <3>3. <<>> \in Seq(U) OBVIOUS
    <3>4. stream' = stream \/ stream' = <<>> BY <1>3
    <3> QED BY <3>1, <3>2, <3>3, <3>4
  <2>2. stream' # <<>> \/ ~trouble' => stream' = stream /\ (stream # <<>> \/ ~trouble)
    BY <1>2, <1>3
  <2>3. BodyCap' = BodyCap BY <1>1 DEF BodyCap
  <2> QED BY <1>1, <2>1, <2>2, <2>3 DEF IInv, Body
<1>10. Answered' BY <1>1 DEF IInv, Answered, MappedNow
<1>11. IInv' BY <1>5, <1>6, <1>7, <1>8, <1>9, <1>10 DEF IInv
<1> QED BY <1>1, <1>11, NothingEnds

\* A piece of the headers is read.
LEMMA HeadersKeep == IInv /\ read_headers => IInv' /\ ReadStep /\ SuccessStep
<1> SUFFICES ASSUME IInv, read_headers PROVE IInv' /\ ReadStep /\ SuccessStep OBVIOUS
<1>1. pc = "headers" /\ stream # <<>> /\ UNCHANGED <<calls, gateway, mapped>> BY DEF read_headers
<1>2. PICK r \in Responses : r = response /\ r # None
  BY <1>1, SomethingIsNotNone DEF IInv, TypeOK, Quiet
<1>3. /\ buf \in Seq(Units(r)) /\ stream \in Seq(Units(r)) /\ Len(buf) < Len(Front(r))
      /\ Splits(Wire(r), buf, stream)
  BY <1>1, <1>2 DEF IInv, Headers
<1>4. step \in {"get", "post"} /\ Len(buf) < HTTP_HDR_CAP /\ since = 0 /\ BodyCap \in Nat
  BY <1>1, CapIsNat DEF IInv, TypeOK, Timing
<1>5. PICK n \in 1..Min({Len(stream), HTTP_HDR_CAP - Len(buf)}) :
        LET all   == buf \o SubSeq(stream, 1, n)
            known == Known(all)
            first == BodySoFar(all, known.length, BodyCap)
        IN IF HeadersEnd(all) = 0
           THEN IF Len(all) = HTTP_HDR_CAP THEN Exchanged(Failure("BAD_ENDPOINT"))
                ELSE /\ buf' = all /\ stream' = SubSeq(stream, n + 1, Len(stream)) /\ now' = 0
                     /\ UNCHANGED <<pc, call, end, since, replies, url, step, target, unsent,
                                    got, head, outcome, response, closed, trouble>>
           ELSE IF known.rc # "MORE" THEN Exchanged(known)
           ELSE IF Wanted(first, known.length, BodyCap) = 0
           THEN Exchanged(BodyRead(known.status, first, known.length))
           ELSE /\ pc' = "body" /\ buf' = <<>> /\ got' = first /\ head' = known /\ now' = 0
                /\ stream' = SubSeq(stream, n + 1, Len(stream))
                /\ UNCHANGED <<call, end, since, replies, url, step, target, unsent, outcome,
                               response, closed, trouble>>
  BY DEF read_headers
<1>6. PICK all, left : all = buf \o SubSeq(stream, 1, n) /\ left = SubSeq(stream, n + 1, Len(stream))
  OBVIOUS
<1>7. n \in 1..Len(stream) /\ Len(buf) + n <= HTTP_HDR_CAP
  <2>1. Len(stream) \in Nat /\ Len(buf) \in Nat /\ HTTP_HDR_CAP \in Nat BY <1>3, UpnpHttpAssumption
  <2>2. PICK a \in Int, b \in Int : a = Len(stream) /\ b = HTTP_HDR_CAP - Len(buf)
    <3>1. \A x \in Nat, y \in Nat : x \in Int /\ x - y \in Int OBVIOUS
    <3> QED BY <2>1, <3>1
  <2>3. n \in 1..(IF a <= b THEN a ELSE b) BY <1>5, <2>2, MinOfTwo
  <2>4. n \in 1..a /\ n <= b BY <2>3
  <2> QED BY <2>1, <2>2, <2>4
<1>8. /\ all \in Seq(Units(r)) /\ left \in Seq(Units(r)) /\ Len(all) = Len(buf) + n
      /\ Splits(Wire(r), all, left)
  <2>1. PICK U, w : U = Units(r) /\ w = Wire(r) OBVIOUS
  <2>2. w \in Seq(U) /\ buf \in Seq(U) /\ stream \in Seq(U) /\ Splits(w, buf, stream)
    BY <1>3, <2>1, WireFacts
  <2>3. ASSUME NEW s \in Seq(U), NEW t \in Seq(U), Splits(w, s, t), NEW k \in 1..Len(t)
        PROVE  /\ s \o SubSeq(t, 1, k) \in Seq(U) /\ SubSeq(t, k + 1, Len(t)) \in Seq(U)
               /\ Len(s \o SubSeq(t, 1, k)) = Len(s) + k
               /\ Splits(w, s \o SubSeq(t, 1, k), SubSeq(t, k + 1, Len(t)))
    BY <2>2, <2>3, Taken
  <2>4. /\ all \in Seq(U) /\ left \in Seq(U) /\ Len(all) = Len(buf) + n /\ Splits(w, all, left)
    BY <1>6, <1>7, <2>2, <2>3
  <2> QED BY <2>1, <2>4
<1>9. /\ Len(Front(r)) \in {3, 5, 7} /\ Len(all) \in Nat
      /\ HeadersEnd(all) = 0 <=> Len(all) < Len(Front(r))
  <2>1. Len(all) \in Nat BY <1>8
  <2>2. PICK f \in {3, 5, 7} : f = Len(Front(r)) BY FrontOrder
  <2>3. HeadersEnd(all) = IF Len(all) < f THEN 0 ELSE f - 1 BY <1>8, <2>2, HeadersAreSeen
  <2>4. HeadersEnd(all) = 0 <=> Len(all) < f BY <2>3
  <2> QED BY <2>1, <2>2, <2>4
<1>10. CASE HeadersEnd(all) = 0 /\ Len(all) = HTTP_HDR_CAP
  <2>1. Exchanged(Failure("BAD_ENDPOINT")) BY <1>5, <1>6, <1>10
  <2>2. Overlong(r)
    <3>1. HTTP_HDR_CAP < Len(Front(r)) BY <1>9, <1>10
    <3>2. Wire(r) \in Seq(Units(r)) /\ Len(Wire(r)) \in Nat
      <4>1. Wire(r) \in Seq(Units(r)) BY WireFacts
      <4> QED BY <4>1
    <3>3. <<>> \in Seq(Units(r)) /\ Len(<<>>) = 0 OBVIOUS
    <3>4. Splits(Wire(r), Wire(r), <<>>) BY <3>2, <3>3 DEF Splits
    <3>5. ~(Len(Wire(r)) < Len(Front(r)))
      <4>1. Len(r.body) \in Nat /\ Len(Wire(r)) = Len(Front(r)) + Len(r.body)
        BY WireFacts, BodyIsSequence DEF Splits, Responses
      <4> QED BY <1>9, <4>1
    <3>6. HeadersEnd(Wire(r)) = Len(Front(r)) - 1 BY <3>2, <3>3, <3>4, <3>5, HeadersAreSeen
    <3> QED BY <1>9, <3>1, <3>6, UpnpHttpAssumption DEF Overlong
  <2>3. Trusted(Failure("BAD_ENDPOINT")) BY <1>2, <2>2, FailureIs DEF Trusted
  <2> QED BY <1>1, <2>1, <2>3, ExchangedKeeps, ExchangedIsRight
<1>11. CASE HeadersEnd(all) = 0 /\ Len(all) # HTTP_HDR_CAP
  <2>1. /\ buf' = all /\ stream' = left /\ now' = 0 /\ pc' = pc /\ call' = call /\ end' = end
        /\ since' = since /\ replies' = replies /\ step' = step /\ unsent' = unsent
        /\ got' = got /\ head' = head /\ outcome' = outcome /\ response' = response
        /\ closed' = closed /\ trouble' = trouble
    BY <1>5, <1>6, <1>11
  <2>2. Len(all) < HTTP_HDR_CAP /\ Len(all) < Len(Front(r))
    BY <1>7, <1>8, <1>9, <1>11, UpnpHttpAssumption
  <2>3. TypeOK'
    <3>1. BodyCap' = BodyCap BY <2>1 DEF BodyCap
    <3> QED BY <1>1, <1>4, <2>1, <2>2, <3>1 DEF IInv, TypeOK
  <2>4. Quiet' BY <1>1, <1>2, <2>1 DEF IInv, Quiet
  <2>5. Timing'
    <3>1. ~(0 >= UPNP_HTTP_TIMEOUT) BY UpnpAssumption
    <3> QED BY <1>1, <2>1, <3>1 DEF IInv, Timing
  <2>6. Headers' BY <1>2, <1>8, <2>1, <2>2 DEF Headers
  <2>7. Body' BY <1>1, <2>1 DEF Body
  <2>8. Answered' BY <1>1, <2>1 DEF IInv, Answered, MappedNow
  <2>9. IInv' BY <2>3, <2>4, <2>5, <2>6, <2>7, <2>8 DEF IInv
  <2> QED BY <2>1, <2>9, NothingEnds
<1>12. CASE HeadersEnd(all) # 0
  <2>1. ~(Len(all) < Len(Front(r))) BY <1>9, <1>12
  <2>2. PICK known, start : known = Known(all) /\ start = BodySoFar(all, known.length, BodyCap)
    OBVIOUS
  <2>3. IF r.coding = "plain" /\ r.length # -1
        THEN known = [rc |-> "MORE", status |-> r.status, length |-> r.length]
        ELSE known.rc # "MORE" /\ \A cap : known = Meant(r, cap)
    BY <1>8, <2>1, <2>2, HeadersAreUnderstood
  <2>4. CASE known.rc # "MORE"
    <3>1. Exchanged(known) BY <1>5, <1>6, <1>12, <2>2, <2>4
    <3>2. known = Meant(r, BodyCap) BY <2>3, <2>4
    <3>3. Trusted(known) BY <1>2, <3>2 DEF Trusted
    <3> QED BY <1>1, <3>1, <3>3, ExchangedKeeps, ExchangedIsRight
  <2>5. CASE known.rc = "MORE"
    <3>1. /\ r.coding = "plain" /\ r.length \in Nat
          /\ known = [rc |-> "MORE", status |-> r.status, length |-> r.length]
          /\ known.status = r.status /\ known.length = r.length
      BY <2>3, <2>5 DEF Responses
    <3>2. start = BodySoFar(all, r.length, BodyCap) BY <2>2, <3>1
    <3>3. /\ start \in Seq(Units(r)) /\ Len(start) \in Nat
          /\ Len(start) <= Min({r.length, BodyCap}) /\ Len(start) <= Len(r.body)
          /\ \A i \in 1..Len(start) : start[i] = r.body[i]
          /\ Len(start) < Min({r.length, BodyCap}) => Splits(r.body, start, left)
      <4>1. PICK cap \in Nat : cap = BodyCap BY <1>4
      <4>2. r.length \in Nat /\ start = BodySoFar(all, r.length, cap) BY <3>1, <3>2, <4>1
      <4>3. /\ all \in Seq(Units(r)) /\ left \in Seq(Units(r)) /\ Splits(Wire(r), all, left)
            /\ ~(Len(all) < Len(Front(r)))
        BY <1>8, <2>1
      <4>4. /\ start \in Seq(Units(r)) /\ Len(start) \in Nat
            /\ Len(start) <= Min({r.length, cap}) /\ Len(start) <= Len(r.body)
            /\ \A i \in 1..Len(start) : start[i] = r.body[i]
            /\ Len(start) < Min({r.length, cap}) => Splits(r.body, start, left)
        <5>1. ASSUME NEW s \in Seq(Units(r)), NEW t \in Seq(Units(r)), Splits(Wire(r), s, t),
                     ~(Len(s) < Len(Front(r))), NEW st, st = BodySoFar(s, r.length, cap)
              PROVE  /\ st \in Seq(Units(r)) /\ Len(st) \in Nat
                     /\ Len(st) <= Min({r.length, cap}) /\ Len(st) <= Len(r.body)
                     /\ \A i \in 1..Len(st) : st[i] = r.body[i]
                     /\ Len(st) < Min({r.length, cap}) => Splits(r.body, st, t)
          BY <4>2, <5>1, BodyIsFound
        <5> QED BY <4>2, <4>3, <5>1
      <4> QED BY <4>1, <4>4
    <3>4. PICK m \in Nat : m = Min({r.length, BodyCap}) /\ m <= BodyCap
      <4>1. Min({r.length, BodyCap}) = IF r.length <= BodyCap THEN r.length ELSE BodyCap
        BY <1>4, <3>1, MinOfTwo
      <4> QED BY <1>4, <3>1, <4>1
    <3>5. Wanted(start, r.length, BodyCap) = m - Len(start) BY <3>4 DEF Wanted
    <3>6. CASE Len(start) = m
      <4>1. Wanted(start, known.length, BodyCap) = 0 BY <3>1, <3>5, <3>6
      <4>2. PICK result : result = BodyRead(r.status, start, r.length) OBVIOUS
      <4>3. Exchanged(result) BY <1>5, <1>6, <1>12, <2>2, <2>5, <3>1, <4>1, <4>2
      <4>4. Len(start) = Min({r.length, BodyCap}) BY <3>4, <3>6
      <4>5. result = Meant(r, BodyCap) BY <1>4, <3>1, <3>3, <4>2, <4>4, BodyIsMeant
      <4>6. Trusted(result) BY <1>2, <4>5 DEF Trusted
      <4> QED BY <1>1, <4>3, <4>6, ExchangedKeeps, ExchangedIsRight
    <3>7. CASE Len(start) # m
      <4>1. Len(start) < m /\ Wanted(start, known.length, BodyCap) # 0
        BY <3>1, <3>3, <3>4, <3>5, <3>7
      <4>2. /\ pc' = "body" /\ buf' = <<>> /\ got' = start /\ head' = known /\ now' = 0
            /\ stream' = left /\ call' = call /\ end' = end /\ since' = since
            /\ replies' = replies /\ step' = step /\ unsent' = unsent /\ outcome' = outcome
            /\ response' = response /\ closed' = closed /\ trouble' = trouble
        BY <1>5, <1>6, <1>12, <2>2, <2>5, <4>1
      <4>3. BodyCap' = BodyCap BY <4>2 DEF BodyCap
      <4>4. TypeOK'
        <5>1. Len(buf') < HTTP_HDR_CAP
          <6>1. Len(<<>>) = 0 OBVIOUS
          <6> QED BY <4>2, <6>1, UpnpHttpAssumption
        <5>2. Len(got') <= BodyCap' BY <1>4, <3>3, <3>4, <4>1, <4>2, <4>3
        <5> QED BY <1>1, <1>4, <4>2, <5>1, <5>2 DEF IInv, TypeOK
      <4>5. Quiet' BY <1>1, <1>2, <4>2 DEF IInv, Quiet
      <4>6. Timing'
        <5>1. ~(0 >= UPNP_HTTP_TIMEOUT) BY UpnpAssumption
        <5> QED BY <1>1, <1>4, <4>2, <5>1 DEF IInv, Timing
      <4>7. Headers' BY <4>2 DEF Headers
      <4>8. Body'
        <5>1. response' = r BY <1>2, <4>2
        <5>2. Len(got') < Min({response'.length, BodyCap'}) BY <3>4, <4>1, <4>2, <4>3, <5>1
        <5>3. Splits(response'.body, got', stream') BY <3>3, <3>4, <4>1, <4>2, <5>1
        <5>4. /\ response'.coding = "plain" /\ response'.length \in Nat
              /\ head' = [rc |-> "MORE", status |-> response'.status, length |-> response'.length]
          BY <3>1, <4>2, <5>1
        <5>5. got' \in Seq(Units(response')) /\ stream' \in Seq(Units(response'))
          BY <1>8, <3>3, <4>2, <5>1
        <5> QED BY <5>2, <5>3, <5>4, <5>5 DEF Body
      <4>9. Answered' BY <1>1, <4>2 DEF IInv, Answered, MappedNow
      <4>10. IInv' BY <4>4, <4>5, <4>6, <4>7, <4>8, <4>9 DEF IInv
      <4> QED BY <4>2, <4>10, NothingEnds
    <3> QED BY <3>6, <3>7
  <2> QED BY <2>4, <2>5
<1> QED BY <1>10, <1>11, <1>12

\* A piece of the body is read.
LEMMA BodyKeeps == IInv /\ read_body => IInv' /\ ReadStep /\ SuccessStep
<1> SUFFICES ASSUME IInv, read_body PROVE IInv' /\ ReadStep /\ SuccessStep OBVIOUS
<1>1. pc = "body" /\ stream # <<>> /\ UNCHANGED <<calls, gateway, mapped>> BY DEF read_body
<1>2. PICK r \in Responses : r = response /\ r # None
  BY <1>1, SomethingIsNotNone DEF IInv, TypeOK, Quiet
<1>3. /\ r.coding = "plain" /\ r.length \in Nat /\ head.status = r.status /\ head.length = r.length
      /\ got \in Seq(Units(r)) /\ stream \in Seq(Units(r))
      /\ Len(got) < Min({r.length, BodyCap}) /\ Splits(r.body, got, stream)
  BY <1>1, <1>2 DEF IInv, Body
<1>4. step \in {"get", "post"} /\ since = 0 /\ BodyCap \in Nat
  BY <1>1, CapIsNat DEF IInv, TypeOK, Timing
<1>5. PICK n \in 1..Min({Len(stream), Wanted(got, r.length, BodyCap)}) :
        LET all == got \o SubSeq(stream, 1, n)
        IN IF Wanted(all, r.length, BodyCap) = 0
           THEN Exchanged(BodyRead(r.status, all, r.length))
           ELSE /\ got' = all /\ stream' = SubSeq(stream, n + 1, Len(stream)) /\ now' = 0
                /\ UNCHANGED <<pc, call, end, since, replies, url, step, target, unsent, buf,
                               head, outcome, response, closed, trouble>>
  BY <1>3 DEF read_body
<1>6. PICK all, left : all = got \o SubSeq(stream, 1, n) /\ left = SubSeq(stream, n + 1, Len(stream))
  OBVIOUS
<1>7. PICK m \in Nat : m = Min({r.length, BodyCap}) /\ m <= BodyCap
  <2>1. Min({r.length, BodyCap}) = IF r.length <= BodyCap THEN r.length ELSE BodyCap
    BY <1>3, <1>4, MinOfTwo
  <2> QED BY <1>3, <1>4, <2>1
<1>8. n \in 1..Len(stream) /\ Len(got) + n <= m
  <2>1. Len(stream) \in Nat /\ Len(got) \in Nat BY <1>3
  <2>2. PICK a \in Int, b \in Int : a = Len(stream) /\ b = m - Len(got)
    <3>1. \A x \in Nat, y \in Nat : x \in Int /\ x - y \in Int OBVIOUS
    <3> QED BY <2>1, <3>1
  <2>3. n \in 1..(IF a <= b THEN a ELSE b) BY <1>5, <1>7, <2>2, MinOfTwo DEF Wanted
  <2>4. n \in 1..a /\ n <= b BY <2>3
  <2> QED BY <2>1, <2>2, <2>4
<1>9. /\ all \in Seq(Units(r)) /\ left \in Seq(Units(r)) /\ Len(all) = Len(got) + n
      /\ Splits(r.body, all, left)
  <2>1. PICK U, w : U = Units(r) /\ w = r.body OBVIOUS
  <2>2. w \in Seq(U) /\ got \in Seq(U) /\ stream \in Seq(U) /\ Splits(w, got, stream)
    BY <1>3, <2>1, WireFacts
  <2>3. ASSUME NEW s \in Seq(U), NEW t \in Seq(U), Splits(w, s, t), NEW k \in 1..Len(t)
        PROVE  /\ s \o SubSeq(t, 1, k) \in Seq(U) /\ SubSeq(t, k + 1, Len(t)) \in Seq(U)
               /\ Len(s \o SubSeq(t, 1, k)) = Len(s) + k
               /\ Splits(w, s \o SubSeq(t, 1, k), SubSeq(t, k + 1, Len(t)))
    BY <2>2, <2>3, Taken
  <2>4. /\ all \in Seq(U) /\ left \in Seq(U) /\ Len(all) = Len(got) + n /\ Splits(w, all, left)
    BY <1>6, <1>8, <2>2, <2>3
  <2> QED BY <2>1, <2>4
<1>10. Len(all) \in Nat /\ Len(all) <= m /\ Wanted(all, r.length, BodyCap) = m - Len(all)
  <2>1. Len(all) \in Nat BY <1>9
  <2>2. Len(all) <= m BY <1>8, <1>9
  <2> QED BY <1>7, <2>1, <2>2 DEF Wanted
<1>11. CASE Len(all) = m
  <2>1. Wanted(all, r.length, BodyCap) = 0 BY <1>10, <1>11
  <2>2. PICK result : result = BodyRead(r.status, all, r.length) OBVIOUS
  <2>3. Exchanged(result) BY <1>5, <1>6, <2>1, <2>2
  <2>4. Len(all) <= Len(r.body) /\ \A i \in 1..Len(all) : all[i] = r.body[i]
    <3>1. Len(left) \in Nat BY <1>9
    <3>2. Len(r.body) = Len(all) + Len(left) BY <1>9 DEF Splits
    <3>3. Len(all) <= Len(r.body) BY <1>10, <3>1, <3>2
    <3> QED BY <1>9, <3>3 DEF Splits
  <2>5. Len(all) = Min({r.length, BodyCap}) BY <1>7, <1>11
  <2>6. result = Meant(r, BodyCap) BY <1>3, <1>4, <1>9, <2>2, <2>4, <2>5, BodyIsMeant
  <2>7. Trusted(result) BY <1>2, <2>6 DEF Trusted
  <2> QED BY <1>1, <2>3, <2>7, ExchangedKeeps, ExchangedIsRight
<1>12. CASE Len(all) # m
  <2>1. Len(all) < m /\ Wanted(all, r.length, BodyCap) # 0 BY <1>10, <1>12
  <2>2. /\ got' = all /\ stream' = left /\ now' = 0 /\ pc' = pc /\ call' = call /\ end' = end
        /\ since' = since /\ replies' = replies /\ step' = step /\ unsent' = unsent
        /\ buf' = buf /\ head' = head /\ outcome' = outcome /\ response' = response
        /\ closed' = closed /\ trouble' = trouble
    BY <1>5, <1>6, <2>1
  <2>3. BodyCap' = BodyCap BY <2>2 DEF BodyCap
  <2>4. TypeOK'
    <3>1. Len(got') <= BodyCap' BY <1>4, <1>7, <1>10, <2>2, <2>3
    <3> QED BY <1>1, <1>4, <2>2, <3>1 DEF IInv, TypeOK
  <2>5. Quiet' BY <1>1, <1>2, <2>2 DEF IInv, Quiet
  <2>6. Timing'
    <3>1. ~(0 >= UPNP_HTTP_TIMEOUT) BY UpnpAssumption
    <3> QED BY <1>1, <1>4, <2>2, <3>1 DEF IInv, Timing
  <2>7. Headers' BY <1>1, <2>2 DEF Headers
  <2>8. Body'
    <3>1. response' = r BY <1>2, <2>2
    <3>2. Len(got') < Min({response'.length, BodyCap'}) BY <1>7, <2>1, <2>2, <2>3, <3>1
    <3>3. Splits(response'.body, got', stream') BY <1>9, <2>2, <3>1
    <3>4. /\ response'.coding = "plain" /\ response'.length \in Nat
          /\ head' = [rc |-> "MORE", status |-> response'.status, length |-> response'.length]
      BY <1>1, <1>2, <1>3, <2>2, <3>1 DEF IInv, Body
    <3>5. got' \in Seq(Units(response')) /\ stream' \in Seq(Units(response'))
      BY <1>9, <2>2, <3>1
    <3> QED BY <3>2, <3>3, <3>4, <3>5 DEF Body
  <2>9. Answered' BY <1>1, <2>2 DEF IInv, Answered, MappedNow
  <2>10. IInv' BY <2>4, <2>5, <2>6, <2>7, <2>8, <2>9 DEF IInv
  <2> QED BY <2>2, <2>10, NothingEnds
<1> QED BY <1>11, <1>12

\* A receive that brings nothing ends the exchange, and has a reason to.
LEMMA FailKeeps == IInv /\ ReceiveFails => IInv' /\ ReadStep /\ SuccessStep
<1> SUFFICES ASSUME IInv, ReceiveFails PROVE IInv' /\ ReadStep /\ SuccessStep OBVIOUS
<1>1. pc \in {"headers", "body"} /\ UNCHANGED <<calls, gateway, mapped>> BY DEF ReceiveFails
<1>2. PICK rc : /\ Exchanged(Failure(rc)) /\ rc # "OK"
                /\ \/ closed = "reset"
                   \/ stream = <<>> /\ closed = "closed"
                   \/ SelectReturns(UPNP_HTTP_TIMEOUT, since, now, FALSE)
  <2>1. "BAD_ENDPOINT" # "OK" OBVIOUS
  <2> QED BY <2>1, SockAnswers DEF ReceiveFails
<1>3. CASE response = None
  <2>1. Trusted(Failure(rc)) BY <1>2, <1>3, FailureIs DEF Trusted
  <2> QED BY <1>1, <1>2, <2>1, ExchangedKeeps, ExchangedIsRight
<1>4. CASE response # None
  <2>1. PICK r \in Responses : r = response BY <1>4 DEF IInv, TypeOK
  <2>2. trouble \/ (stream = <<>> /\ closed = "closed" /\ ~trouble)
    <3>1. closed = "reset" => trouble BY DEF IInv, Timing
    <3>2. SelectReturns(UPNP_HTTP_TIMEOUT, since, now, FALSE) => trouble
      <4>1. since = 0 /\ (now >= UPNP_HTTP_TIMEOUT => trouble) /\ now \in Nat
        BY <1>1 DEF IInv, Timing, TypeOK
      <4>2. UPNP_HTTP_TIMEOUT \in Nat \ {0} BY UpnpAssumption
      <4> QED BY <4>1, <4>2 DEF SelectReturns
    <3> QED BY <1>2, <3>1, <3>2
  <2>3. CASE trouble
    <3>1. Trusted(Failure(rc)) BY <1>2, <1>4, <2>3, FailureIs DEF Trusted
    <3> QED BY <1>1, <1>2, <3>1, ExchangedKeeps, ExchangedIsRight
  <2>4. CASE stream = <<>> /\ ~trouble
    <3>1. Len(<<>>) = 0 OBVIOUS
    <3>2. pc # "headers"
      <4>1. ASSUME pc = "headers" PROVE FALSE
        <5>1. buf \in Seq(Units(r)) /\ Len(buf) < Len(Front(r)) /\ Splits(Wire(r), buf, stream)
          BY <1>4, <2>1, <2>4, <4>1 DEF IInv, Headers
        <5>2. Len(buf) \in Nat BY <5>1
        <5>3. Len(Wire(r)) = Len(buf) BY <2>4, <3>1, <5>1, <5>2 DEF Splits
        <5>4. Len(r.body) \in Nat /\ Len(Wire(r)) = Len(Front(r)) + Len(r.body)
          BY WireFacts, BodyIsSequence DEF Splits, Responses
        <5>5. Len(Front(r)) \in {3, 5, 7} BY FrontOrder
        <5> QED BY <5>1, <5>2, <5>3, <5>4, <5>5
      <4> QED BY <4>1
    <3>3. /\ r.coding = "plain" /\ r.length \in Nat /\ got \in Seq(Units(r))
          /\ Len(got) < Min({r.length, BodyCap}) /\ Splits(r.body, got, stream)
      BY <1>1, <2>1, <2>4, <3>2 DEF IInv, Body
    <3>4. Len(r.body) = Len(got)
      <4>1. Len(got) \in Nat BY <3>3
      <4> QED BY <2>4, <3>1, <3>3, <4>1 DEF Splits
    <3>5. Meant(r, BodyCap) = Failure("BAD_ENDPOINT")
      <4>1. r.coding # "chunked" /\ r.length # -1 BY <3>3
      <4> QED BY <3>3, <3>4, <4>1 DEF Meant
    <3>6. Trusted(Failure(rc)) BY <1>2, <1>4, <2>1, <3>5, FailureIs DEF Trusted
    <3> QED BY <1>1, <1>2, <3>6, ExchangedKeeps, ExchangedIsRight
  <2> QED BY <2>2, <2>3, <2>4
<1> QED BY <1>3, <1>4
-----------------------------------------------------------------------------
(* The theorems.                                                           *)

LEMMA InitHolds == Init => IInv
<1> SUFFICES ASSUME Init PROVE IInv OBVIOUS
<1>1. /\ pc = "idle" /\ calls = 0 /\ call = None /\ now = 0 /\ since = 0 /\ replies = 0
      /\ step = "get" /\ unsent = 0 /\ buf = <<>> /\ got = <<>> /\ head = None
      /\ gateway \in Gateways /\ response = None /\ stream = <<>> /\ closed = "open"
      /\ trouble = FALSE
  BY DEF Init
<1>2. TypeOK
  <2>1. Len(<<>>) = 0 OBVIOUS
  <2>2. 0 < HTTP_HDR_CAP /\ 0 <= UPNP_DESC_CAP /\ 0 \in 0..MaxReplies /\ 0 \in 0..MaxCalls
    BY UpnpAssumption, UpnpHttpAssumption
  <2>3. Len(buf) < HTTP_HDR_CAP BY <1>1, <2>1, <2>2
  <2>4. Len(got) <= BodyCap BY <1>1, <2>1, <2>2 DEF BodyCap
  <2>5. since \in 0..now /\ now \in Nat /\ unsent \in 0..RequestUnits BY <1>1 DEF RequestUnits
  <2> QED BY <1>1, <2>2, <2>3, <2>4, <2>5 DEF TypeOK
<1>3. Quiet /\ Headers /\ Body /\ Answered BY <1>1 DEF Quiet, Headers, Body, Answered
<1>4. Timing BY <1>1 DEF Timing
<1> QED BY <1>2, <1>3, <1>4 DEF IInv

LEMMA StutterKeeps == IInv /\ vars' = vars => IInv'
<1> SUFFICES ASSUME IInv, vars' = vars PROVE IInv' OBVIOUS
<1>1. /\ pc' = pc /\ calls' = calls /\ call' = call /\ now' = now /\ since' = since
      /\ replies' = replies /\ step' = step /\ unsent' = unsent /\ buf' = buf /\ got' = got
      /\ head' = head /\ gateway' = gateway /\ response' = response /\ stream' = stream
      /\ closed' = closed /\ trouble' = trouble /\ mapped' = mapped
  BY DEF vars, asked, clock, reading, remote
<1>2. TypeOK' BY <1>1 DEF IInv, TypeOK, BodyCap
<1>3. Quiet' /\ Timing' BY <1>1 DEF IInv, Quiet, Timing
<1>4. Headers' BY <1>1 DEF IInv, Headers
<1>5. Body' BY <1>1 DEF IInv, Body, BodyCap
<1>6. Answered' BY <1>1 DEF IInv, Answered, MappedNow
<1> QED BY <1>2, <1>3, <1>4, <1>5, <1>6 DEF IInv

LEMMA NextKeeps == IInv /\ Next => IInv' /\ ((ReadStep /\ SuccessStep) \/ vars' = vars)
<1> SUFFICES ASSUME IInv, Next PROVE IInv' /\ ((ReadStep /\ SuccessStep) \/ vars' = vars) OBVIOUS
<1>1. CASE Begin BY <1>1, BeginKeeps
<1>2. CASE ssdp_discover \/ SearchEnds \/ Listen \/ Hear \/ HearsNothing \/ HearFails
  BY <1>2, SearchKeeps
<1>3. CASE tcp_connect \/ Connected BY <1>3, ConnectKeeps
<1>4. CASE send_all BY <1>4, SendKeeps
<1>5. CASE read_headers BY <1>5, HeadersKeep
<1>6. CASE read_body BY <1>6, BodyKeeps
<1>7. CASE ReceiveFails BY <1>7, FailKeeps
<1>8. CASE Serve BY <1>8, ServeKeeps
<1>9. CASE Breaks \/ Tick BY <1>9, SpoilKeeps
<1>10. CASE Stop BY <1>10, StutterKeeps DEF Stop
<1> QED BY <1>1, <1>2, <1>3, <1>4, <1>5, <1>6, <1>7, <1>8, <1>9, <1>10 DEF Next, Work

\* Every reachable state satisfies the inductive invariant: what an exchange
\* holds and what is to come are the response (Upnp's read_headers,
\* read_body), and an answer to a post is a refusal or comes with the mapping.
THEOREM InductiveInvariant == Spec => []IInv
<1>1. IInv /\ [Next]_vars => IInv' BY NextKeeps, StutterKeeps
<1> QED BY InitHolds, <1>1, PTL DEF Spec

\* The variables keep their types: the buffers of the exchange are never
\* overrun, for every size of buffer, response and cut of the stream.
THEOREM TypeCorrect == Spec => []TypeOK
<1>1. IInv => TypeOK BY DEF IInv
<1> QED BY InductiveInvariant, <1>1, PTL

\* What an exchange makes of a response is what the response says, however
\* the stream is cut into receives, or it fails and has a reason to
\* (upnp_http.c's read_headers, read_body).
THEOREM ResponseIsUnderstood == Spec => ResponseIsRead
<1>1. IInv /\ [Next]_vars => [ReadStep]_vars BY NextKeeps
<1>2. ResponseIsRead <=> [][ReadStep]_vars BY DEF ResponseIsRead, ReadStep
<1> QED BY InductiveInvariant, <1>1, <1>2, PTL DEF Spec

\* A success stands on an answer to this call's own post with status 200 in
\* which, as far as the buffer holds it, there is no fault that can be read,
\* wherever the stream was cut; behind it is a mapping for the port the caller
\* gave, made in this call, or a refusal that cannot be read as one
\* (upnp.c:928-939).
THEOREM SuccessMeansUndenied == Spec => SuccessIsUndenied
<1>1. IInv /\ [Next]_vars => [SuccessStep]_vars BY NextKeeps
<1>2. SuccessIsUndenied <=> [][SuccessStep]_vars BY DEF SuccessIsUndenied, SuccessStep
<1> QED BY InductiveInvariant, <1>1, <1>2, PTL DEF Spec
-----------------------------------------------------------------------------
(* Upnp implements WeaponPromise.                                          *)

LEMMA WaitsAddUp ==
  /\ UPNP_HTTP_TIMEOUT \in Nat \ {0} /\ Slop \in Nat /\ SSDP_MX \in Nat
  /\ UPNP_DESC_CAP \in Nat /\ UPNP_SOAP_CAP \in Nat /\ HTTP_HDR_CAP \in Nat \ {0}
  /\ \A n \in Nat : Waits(n) \in Nat
  /\ \A m, n \in Nat : m < n => Waits(m) + UPNP_HTTP_TIMEOUT <= Waits(n)
<1>1. /\ UPNP_HTTP_TIMEOUT \in Nat \ {0} /\ Slop \in Nat /\ SSDP_MX \in Nat
      /\ UPNP_DESC_CAP \in Nat /\ UPNP_SOAP_CAP \in Nat /\ HTTP_HDR_CAP \in Nat \ {0}
  BY UpnpAssumption, UpnpHttpAssumption
<1>2. PICK t \in Nat : t = UPNP_HTTP_TIMEOUT BY <1>1
<1>3. ASSUME NEW n \in Nat PROVE t * n \in Nat OBVIOUS
<1>4. ASSUME NEW m \in Nat, NEW n \in Nat, m < n PROVE t * m + t <= t * n
  <2>1. PICK k \in Nat : n = m + 1 + k
    <3>1. n - m - 1 \in Nat /\ n = m + 1 + (n - m - 1) BY <1>4
    <3> QED BY <3>1
  <2>2. t * n = t * m + t + t * k BY <2>1
  <2>3. t * m \in Nat /\ t * k \in Nat BY <1>3
  <2> QED BY <2>2, <2>3
<1> QED BY <1>1, <1>2, <1>3, <1>4 DEF Waits

\* The clock against the time of the wait.
Timely ==
  /\ pc \in {"idle", "search", "listen", "hear"} => step = "get"
  /\ pc \in {"idle", "search"} => now = 0
  /\ pc \in {"listen", "hear"} => now <= SSDP_MX + Slop
  /\ pc \in {"connecting", "headers", "body"} => now <= UPNP_HTTP_TIMEOUT
  /\ pc # "idle" => ~end.success

LEMMA InitTimely == Init => Timely
BY DEF Init, Timely

\* What the steps of a call do to the time it may still take: a call ends, or
\* posts, or goes on with less to wait for.
Over == \E success \in BOOLEAN : Finish(success)
Posts ==
  /\ pc \in {"send", "headers", "body"} /\ step = "get"
  /\ pc' = "connect" /\ step' = "post" /\ now' = 0
  /\ UNCHANGED <<call, end>>
Proceeds ==
  /\ UNCHANGED <<call, end, step, response>>
  /\ \/ pc \in {"search", "listen", "hear"} /\ pc' \in {"listen", "hear"} /\ now' = now
     \/ pc = "hear" /\ pc' = "connect" /\ now' = 0
     \/ pc = "connect" /\ pc' \in {"connecting", "send"} /\ now' = 0
     \/ pc = "connecting" /\ pc' = "send" /\ now' = 0
     \/ pc = "send" /\ pc' \in {"send", "headers"} /\ now' = now /\ buf' = buf
     \/ pc = "headers" /\ pc' = "headers" /\ now' = 0 /\ Len(buf) < Len(buf')
     \/ pc = "headers" /\ pc' = "body" /\ now' = 0
     \/ pc = "body" /\ pc' = "body" /\ now' = 0 /\ Len(got) < Len(got')

LEMMA Grown ==
  ASSUME NEW S, NEW s \in Seq(S), NEW t \in Seq(S), NEW cap \in Int,
         NEW n \in 1..Min({Len(t), cap})
  PROVE  Len(s) < Len(s \o SubSeq(t, 1, n))
<1>1. PICK a \in Nat, b \in Nat : a = Len(t) /\ b = Len(s) OBVIOUS
<1>2. n \in 1..(IF a <= cap THEN a ELSE cap) BY <1>1, MinOfTwo
<1>3. n \in Nat /\ 0 < n /\ n <= a BY <1>2
<1>4. SubSeq(t, 0 + 1, n) \in Seq(S) /\ Len(SubSeq(t, 0 + 1, n)) = IF 0 <= n THEN n - 0 ELSE 0
  BY <1>1, <1>3, PieceFacts
<1>5. PICK piece \in Seq(S) : piece = SubSeq(t, 1, n) /\ Len(piece) = n
  <2>1. PICK p : p = SubSeq(t, 0 + 1, n) OBVIOUS
  <2>2. p = SubSeq(t, 1, n) BY <2>1
  <2>3. p \in Seq(S) /\ Len(p) = n BY <1>3, <1>4, <2>1
  <2> QED BY <2>2, <2>3
<1>6. Len(s \o piece) = b + n BY <1>1, <1>5, Joined
<1> QED BY <1>1, <1>3, <1>5, <1>6

LEMMA ExchangedIs ==
  ASSUME pc \in {"send", "headers", "body"}, step \in {"get", "post"},
         NEW result, Exchanged(result)
  PROVE  Over \/ Posts
<1>1. PICK service :
        IF step = "post" THEN Finish(Accepted(result))
        ELSE IF ~GoodDescription(result) \/ service = None THEN Finish(FALSE)
        ELSE IF service.path = "none" THEN Finish(FALSE)
        ELSE /\ pc' = "connect" /\ step' = "post" /\ now' = 0 /\ UNCHANGED <<call, end>>
  BY DEF Exchanged
<1>2. Accepted(result) \in BOOLEAN BY DEF Accepted
<1> QED BY <1>1, <1>2 DEF Over, Posts

LEMMA HeadersProceed == ASSUME IInv, read_headers PROVE Over \/ Posts \/ Proceeds
<1>1. pc = "headers" /\ stream # <<>> BY DEF read_headers
<1>2. PICK r \in Responses : r = response /\ r # None
  BY <1>1, SomethingIsNotNone DEF IInv, TypeOK, Quiet
<1>3. PICK U : U = Units(r) /\ buf \in Seq(U) /\ stream \in Seq(U) BY <1>1, <1>2 DEF IInv, Headers
<1>4. step \in {"get", "post"} BY DEF IInv, TypeOK
<1>5. PICK n \in 1..Min({Len(stream), HTTP_HDR_CAP - Len(buf)}) :
        \/ \E result : Exchanged(result)
        \/ buf' = buf \o SubSeq(stream, 1, n) /\ now' = 0 /\ UNCHANGED <<pc, call, end, step, response>>
        \/ pc' = "body" /\ now' = 0 /\ UNCHANGED <<call, end, step, response>>
  BY DEF read_headers
<1>6. Len(buf) < Len(buf \o SubSeq(stream, 1, n))
  <2>1. HTTP_HDR_CAP - Len(buf) \in Int
    <3>1. HTTP_HDR_CAP \in Nat /\ Len(buf) \in Nat BY <1>3, UpnpHttpAssumption
    <3> QED BY <3>1
  <2> QED BY <1>3, <2>1, Grown
<1>7. ASSUME NEW result, Exchanged(result) PROVE Over \/ Posts
  BY <1>1, <1>4, <1>7, ExchangedIs
<1>8. CASE buf' = buf \o SubSeq(stream, 1, n) /\ now' = 0 /\ UNCHANGED <<pc, call, end, step, response>>
  <2>1. Len(buf) < Len(buf') BY <1>6, <1>8
  <2> QED BY <1>1, <1>8, <2>1 DEF Proceeds
<1>9. CASE pc' = "body" /\ now' = 0 /\ UNCHANGED <<call, end, step, response>>
  BY <1>1, <1>9 DEF Proceeds
<1> QED BY <1>5, <1>7, <1>8, <1>9

LEMMA BodyProceeds == ASSUME IInv, read_body PROVE Over \/ Posts \/ Proceeds
<1>1. pc = "body" /\ stream # <<>> BY DEF read_body
<1>2. PICK U : U = Units(response) /\ got \in Seq(U) /\ stream \in Seq(U) /\ head.length \in Nat
  BY <1>1 DEF IInv, Body
<1>3. step \in {"get", "post"} /\ BodyCap \in Nat BY CapIsNat DEF IInv, TypeOK
<1>4. PICK n \in 1..Min({Len(stream), Wanted(got, head.length, BodyCap)}) :
        \/ \E result : Exchanged(result)
        \/ got' = got \o SubSeq(stream, 1, n) /\ now' = 0 /\ UNCHANGED <<pc, call, end, step, response>>
  BY DEF read_body
<1>5. Wanted(got, head.length, BodyCap) \in Int
  <2>1. Len(got) \in Nat BY <1>2
  <2>2. PICK m \in Nat : m = Min({head.length, BodyCap}) BY <1>2, <1>3, MinOfTwo
  <2>3. m - Len(got) \in Int BY <2>1
  <2> QED BY <1>3, <2>2, <2>3 DEF Wanted
<1>6. Len(got) < Len(got \o SubSeq(stream, 1, n)) BY <1>2, <1>5, Grown
<1>7. ASSUME NEW result, Exchanged(result) PROVE Over \/ Posts
  BY <1>1, <1>3, <1>7, ExchangedIs
<1>8. CASE got' = got \o SubSeq(stream, 1, n) /\ now' = 0 /\ UNCHANGED <<pc, call, end, step, response>>
  <2>1. Len(got) < Len(got') BY <1>6, <1>8
  <2> QED BY <1>1, <1>8, <2>1 DEF Proceeds
<1> QED BY <1>4, <1>7, <1>8

LEMMA CallProceeds ==
  ASSUME IInv, Work \/ Hear \/ HearFails
  PROVE  pc # "idle" /\ UNCHANGED <<calls, mapped>> /\ (Over \/ Posts \/ Proceeds)
<1>1. pc # "idle" /\ UNCHANGED <<calls, mapped>>
  BY DEF Work, Hear, HearFails, ssdp_discover, SearchEnds, Listen, HearsNothing, tcp_connect,
         Connected, send_all, read_headers, read_body, ReceiveFails, asked
<1> SUFFICES Over \/ Posts \/ Proceeds BY <1>1
<1>2. step \in {"get", "post"} BY DEF IInv, TypeOK
<1>3. CASE SearchEnds \/ HearFails BY <1>3 DEF SearchEnds, HearFails, Over
<1>4. CASE ssdp_discover
  <2>1. Finish(FALSE) \/ (pc = "search" /\ pc' = "listen" /\ UNCHANGED <<call, end, now, step, response>>)
    BY <1>4 DEF ssdp_discover, clock, remote
  <2> QED BY <2>1 DEF Over, Proceeds
<1>5. CASE Listen \/ HearsNothing
  BY <1>5 DEF Listen, HearsNothing, asked, clock, remote, Proceeds
<1>6. CASE Hear
  <2>1. \/ Finish(FALSE)
        \/ pc = "hear" /\ pc' = "listen" /\ UNCHANGED <<call, end, now, step, response>>
        \/ pc = "hear" /\ pc' = "connect" /\ now' = 0 /\ UNCHANGED <<call, end, step, response>>
    BY <1>6 DEF Hear, clock, remote
  <2> QED BY <2>1 DEF Over, Proceeds
<1>7. CASE tcp_connect
  <2>1. \/ Finish(FALSE)
        \/ /\ pc = "connect" /\ pc' \in {"send", "connecting"} /\ now' = 0
           /\ UNCHANGED <<call, end, step, response>>
    BY <1>7 DEF tcp_connect, remote
  <2> QED BY <2>1 DEF Over, Proceeds
<1>8. CASE Connected
  <2>1. \/ Finish(FALSE)
        \/ pc = "connecting" /\ pc' = "send" /\ now' = 0 /\ UNCHANGED <<call, end, step, response>>
    BY <1>8 DEF Connected, remote
  <2> QED BY <2>1 DEF Over, Proceeds
<1>9. CASE send_all
  <2>1. \/ \E result : Exchanged(result)
        \/ pc' \in {"send", "headers"} /\ UNCHANGED <<call, end, now, step, buf, response>>
    BY <1>9 DEF send_all, clock, reading, remote
  <2>2. pc = "send" BY <1>9 DEF send_all
  <2>3. ASSUME NEW result, Exchanged(result) PROVE Over \/ Posts
    BY <1>2, <2>2, <2>3, ExchangedIs
  <2> QED BY <2>1, <2>2, <2>3 DEF Proceeds
<1>10. CASE ReceiveFails
  <2>1. pc \in {"headers", "body"} /\ \E result : Exchanged(result) BY <1>10 DEF ReceiveFails
  <2> QED BY <1>2, <2>1, ExchangedIs
<1> QED BY <1>3, <1>4, <1>5, <1>6, <1>7, <1>8, <1>9, <1>10, HeadersProceed, BodyProceeds DEF Work

LEMMA FinishIs ==
  ASSUME NEW success, Finish(success)
  PROVE  /\ pc' = "idle" /\ step' = "get" /\ now' = 0 /\ end'.success = success
BY DEF Finish

LEMMA BeginIs ==
  ASSUME Begin
  PROVE  /\ pc = "idle" /\ pc' \in {"idle", "search"} /\ calls' = calls + 1
         /\ ~end'.success /\ UNCHANGED <<now, step, response>>
<1>1. pc = "idle" /\ calls' = calls + 1 /\ UNCHANGED <<now, step, response>>
  BY DEF Begin, clock, remote
<1>2. PICK rc : end' = [rc |-> rc, success |-> FALSE] /\ (pc' = pc \/ pc' = "search")
  BY DEF Begin
<1> QED BY <1>1, <1>2

\* The gateway and the network leave the call alone, and an answer once given
\* is given.
LEMMA WorldIs ==
  ASSUME IInv, Serve \/ Breaks
  PROVE  /\ pc # "idle" /\ UNCHANGED <<pc, calls, call, end, now, step, buf, got>>
         /\ response # None => UNCHANGED <<response, mapped>>
<1>1. CASE Breaks BY <1>1 DEF Breaks, asked, clock, reading
<1>2. CASE Serve BY <1>2 DEF Serve, asked, clock, reading
<1> QED BY <1>1, <1>2

LEMMA TickIs ==
  ASSUME IInv, Tick
  PROVE  /\ pc \in {"hear", "connecting", "headers", "body"} /\ now' = now + 1
         /\ UNCHANGED <<pc, calls, call, end, step, buf, got, response, mapped>>
         /\ IF pc = "hear" THEN now < SSDP_MX + Slop ELSE now < UPNP_HTTP_TIMEOUT
<1>1. /\ pc \in {"hear", "connecting", "headers", "body"} /\ now' = now + 1 /\ now < Limit
      /\ UNCHANGED <<pc, calls, call, end, step, buf, got, response, mapped>>
  BY DEF Tick, Waiting, asked, reading
<1>2. CASE pc # "hear" BY <1>1, <1>2 DEF Limit
<1>3. CASE pc = "hear"
  <2>1. now \in Nat /\ since \in Nat BY DEF IInv, TypeOK
  <2>2. SLICE \in Nat /\ SSDP_MX \in Nat /\ Slop \in Nat BY UpnpAssumption
  <2>3. Min({since + SLICE, SSDP_MX})
          = IF since + SLICE <= SSDP_MX THEN since + SLICE ELSE SSDP_MX
    BY <2>1, <2>2, MinOfTwo
  <2> QED BY <1>1, <1>3, <2>1, <2>2, <2>3 DEF Limit
<1> QED BY <1>1, <1>2, <1>3

LEMMA TimelyStep == ASSUME IInv, Timely, [Next]_vars PROVE Timely'
<1>1. /\ now \in Nat /\ calls \in Nat
      /\ UPNP_HTTP_TIMEOUT \in Nat \ {0} /\ Slop \in Nat /\ SSDP_MX \in Nat
  BY WaitsAddUp DEF IInv, TypeOK
<1>2. CASE Begin BY <1>2, BeginIs DEF Timely
<1>3. CASE Work \/ Hear \/ HearFails
  <2>1. pc # "idle" /\ UNCHANGED <<calls, mapped>> /\ (Over \/ Posts \/ Proceeds)
    BY <1>3, CallProceeds
  <2>2. CASE Over
    <3>1. pc' = "idle" /\ step' = "get" /\ now' = 0 BY <2>2, FinishIs DEF Over
    <3> QED BY <2>1, <3>1 DEF Timely
  <2>3. CASE Posts BY <2>1, <2>3 DEF Posts, Timely
  <2>4. CASE Proceeds
    <3>1. pc = "search" => now <= SSDP_MX + Slop BY <1>1 DEF Timely
    <3>2. pc = "send" => now = 0 BY DEF IInv, Timing
    <3> QED BY <1>1, <2>1, <2>4, <3>1, <3>2 DEF Proceeds, Timely
  <2> QED BY <2>1, <2>2, <2>3, <2>4
<1>4. CASE Serve \/ Breaks BY <1>4, WorldIs DEF Timely
<1>5. CASE Tick BY <1>1, <1>5, TickIs DEF Timely
<1>6. CASE Stop \/ UNCHANGED vars BY <1>6 DEF Stop, vars, asked, clock, Timely
<1> QED BY <1>2, <1>3, <1>4, <1>5, <1>6 DEF Next

\* What the two invariants say of the numbers.
LEMMA Sizes ==
  ASSUME IInv, Timely
  PROVE  /\ now \in Nat /\ BodyCap \in Nat /\ Later \in Nat
         /\ pc = "send" => now = 0 /\ Len(buf) = 0
         /\ pc = "headers" => Len(buf) \in Nat /\ Len(buf) < HTTP_HDR_CAP
         /\ pc = "body" => Len(got) \in Nat /\ Len(got) < BodyCap
<1>1. now \in Nat /\ step \in {"get", "post"} BY DEF IInv, TypeOK
<1>2. BodyCap \in Nat BY <1>1, CapIsNat
<1>3. Later \in Nat
  <2>1. 1 + HTTP_HDR_CAP + UPNP_SOAP_CAP \in Nat BY WaitsAddUp
  <2> QED BY <2>1, WaitsAddUp DEF Later, Exchange
<1>4. Len(<<>>) = 0 OBVIOUS
<1>5. pc = "send" => now = 0 /\ Len(buf) = 0 BY <1>4 DEF IInv, Timing, TypeOK
<1>6. pc = "headers" => Len(buf) \in Nat /\ Len(buf) < HTTP_HDR_CAP
  <2>1. CASE response = None BY <1>4, <2>1 DEF IInv, Quiet, TypeOK
  <2>2. CASE response # None /\ pc = "headers"
    <3>1. PICK U : buf \in Seq(U) BY <2>2 DEF IInv, Headers
    <3>2. Len(buf) \in Nat BY <3>1
    <3> QED BY <3>2 DEF IInv, TypeOK
  <2> QED BY <2>1, <2>2
<1>7. pc = "body" => Len(got) \in Nat /\ Len(got) < BodyCap
  <2> SUFFICES ASSUME pc = "body" PROVE Len(got) \in Nat /\ Len(got) < BodyCap OBVIOUS
  <2>1. PICK U : got \in Seq(U) BY DEF IInv, Body
  <2>2. Len(got) \in Nat BY <2>1
  <2>3. response.length \in Nat /\ Len(got) < Min({response.length, BodyCap}) BY DEF IInv, Body
  <2>4. Min({response.length, BodyCap})
          = IF response.length <= BodyCap THEN response.length ELSE BodyCap
    BY <1>2, <2>3, MinOfTwo
  <2> QED BY <1>2, <2>2, <2>3, <2>4
<1> QED BY <1>1, <1>2, <1>3, <1>5, <1>6, <1>7

Evidence == pc # "idle" /\ AnsweredNow

\* What may still be waited for is a number of time units.
LEMMA LeftIs ==
  ASSUME IInv, Timely
  PROVE  /\ Left \in Nat
         /\ pc \in {"send", "headers", "body"} => Later <= Left
         /\ step \in {"get", "post"}
<1> DEFINE C == BodyCap
           H == HTTP_HDR_CAP
           T == UPNP_HTTP_TIMEOUT
<1>1. /\ now \in Nat /\ C \in Nat /\ Later \in Nat /\ H \in Nat \ {0} /\ T \in Nat
      /\ Slop \in Nat /\ SSDP_MX \in Nat
  BY Sizes, WaitsAddUp
<1>2. ASSUME NEW n \in Nat PROVE Waits(n) \in Nat /\ (n # 0 => T <= Waits(n))
  <2>1. Waits(n) \in Nat /\ Waits(0) \in Nat /\ (0 < n => Waits(0) + T <= Waits(n)) BY WaitsAddUp
  <2> QED BY <1>1, <2>1
<1>3. pc \in {"idle", "search", "listen", "hear", "connect", "connecting", "send", "headers", "body"}
      /\ step \in {"get", "post"}
  BY DEF IInv, TypeOK
<1>4. CASE pc \in {"idle", "search", "listen", "hear"}
  <2>1. now <= SSDP_MX + Slop BY <1>1, <1>4 DEF Timely
  <2>2. Exchange(UPNP_DESC_CAP) \in Nat /\ Exchange(UPNP_SOAP_CAP) \in Nat
    <3>1. 1 + H + UPNP_DESC_CAP \in Nat /\ 1 + H + UPNP_SOAP_CAP \in Nat BY WaitsAddUp
    <3> QED BY <1>2, <3>1 DEF Exchange
  <2>3. PICK e \in Nat, f \in Nat : e = Exchange(UPNP_DESC_CAP) /\ f = Exchange(UPNP_SOAP_CAP)
    BY <2>2
  <2>4. Left = IF pc = "idle" THEN 0 ELSE SSDP_MX + Slop - now + e + f BY <1>4, <2>3 DEF Left
  <2> QED BY <1>1, <1>3, <1>4, <2>1, <2>4
<1>5. CASE pc \in {"connect", "connecting"}
  <2>1. 1 + H + C \in Nat \ {0} BY <1>1
  <2>2. Exchange(C) \in Nat /\ T <= Exchange(C) BY <1>2, <2>1 DEF Exchange
  <2>3. pc = "connecting" => now <= T BY DEF Timely
  <2>4. Left = IF pc = "connect" THEN Exchange(C) + Later ELSE Exchange(C) - now + Later
    BY <1>5 DEF Left
  <2> HIDE DEF C, T
  <2> QED BY <1>1, <1>3, <1>5, <2>2, <2>3, <2>4
<1>6. CASE pc = "send"
  <2>1. H + C \in Nat BY <1>1
  <2>2. Waits(H + C) \in Nat /\ Left = Waits(H + C) + Later BY <1>2, <1>6, <2>1 DEF Left
  <2> QED BY <1>1, <1>3, <2>2
<1>7. CASE pc = "headers"
  <2>1. H - Len(buf) + C \in Nat \ {0} BY <1>1, <1>7, Sizes
  <2>2. PICK w \in Nat : w = Waits(H - Len(buf) + C) /\ T <= w BY <1>2, <2>1
  <2>3. now <= T BY <1>7 DEF Timely
  <2>4. Left = w - now + Later BY <1>7, <2>2 DEF Left
  <2> QED BY <1>1, <1>3, <2>2, <2>3, <2>4
<1>8. CASE pc = "body"
  <2>1. C - Len(got) \in Nat \ {0} BY <1>1, <1>8, Sizes
  <2>2. PICK w \in Nat : w = Waits(C - Len(got)) /\ T <= w BY <1>2, <2>1
  <2>3. now <= T BY <1>8 DEF Timely
  <2>4. Left = w - now + Later BY <1>8, <2>2 DEF Left
  <2> QED BY <1>1, <1>3, <2>2, <2>3, <2>4
<1> QED BY <1>3, <1>4, <1>5, <1>6, <1>7, <1>8

LEMMA SizesOfReads ==
  /\ IInv /\ Timely => (pc = "headers" => Len(buf) \in Nat /\ Len(buf) < HTTP_HDR_CAP)
  /\ IInv /\ Timely => (pc = "body" => Len(got) \in Nat /\ Len(got) < BodyCap)
BY Sizes

LEMMA LeftIsNat == IInv /\ Timely => Left \in Nat
BY LeftIs

LEMMA Sums ==
  /\ \A v, w, k, t, l \in Nat : v + t <= w /\ k <= t => v - 0 + l <= w - k + l
  /\ \A a, b, h, c \in Nat : a < b /\ b < h => h - b + c \in Nat /\ h - b + c < h - a + c
  /\ \A w, k, l \in Nat : w - (k + 1) + l = (w - k + l) - 1
OBVIOUS

\* A step of a call that goes on leaves no more to wait for.
LEMMA LessIsLeft ==
  ASSUME IInv, IInv', Timely, Timely', Posts \/ Proceeds
  PROVE  Left' \in 0..Left
<1> DEFINE H == HTTP_HDR_CAP
           T == UPNP_HTTP_TIMEOUT
           W == Slop + SSDP_MX
<1>1. /\ now \in Nat /\ BodyCap \in Nat /\ Later \in Nat /\ H \in Nat \ {0} /\ T \in Nat
      /\ W \in Nat /\ Left \in Nat /\ step \in {"get", "post"}
      /\ UPNP_DESC_CAP \in Nat /\ UPNP_SOAP_CAP \in Nat
  BY Sizes, WaitsAddUp, LeftIs
<1>2. Left' \in Nat
  <2>1. (Left \in Nat)' BY LeftIsNat, PTL
  <2> QED BY <2>1
<1> SUFFICES Left' <= Left BY <1>1, <1>2
<1>3. ASSUME NEW m \in Nat, NEW n \in Nat, m < n
      PROVE  Waits(m) \in Nat /\ Waits(n) \in Nat /\ Waits(m) + T <= Waits(n)
  BY <1>3, WaitsAddUp
<1>4. CASE Posts
  <2>1. Left' = Exchange(UPNP_SOAP_CAP) /\ Later = Exchange(UPNP_SOAP_CAP)
    <3>1. BodyCap' = UPNP_SOAP_CAP /\ Later' = 0 BY <1>4 DEF Posts, BodyCap, Later
    <3>2. Exchange(UPNP_SOAP_CAP) \in Nat BY <1>1, <1>4 DEF Posts, Later
    <3>3. Left' = Exchange(UPNP_SOAP_CAP) + 0 BY <1>4, <3>1 DEF Posts, Left, Exchange, Waits
    <3> QED BY <1>4, <3>2, <3>3 DEF Posts, Later
  <2>2. Later <= Left BY <1>4, LeftIs DEF Posts
  <2> QED BY <2>1, <2>2
<1>5. ASSUME Proceeds PROVE BodyCap' = BodyCap /\ Later' = Later /\ step' = step
  BY <1>5 DEF Proceeds, BodyCap, Later, Exchange, Waits
<1>6. PICK c \in Nat, l \in Nat : c = BodyCap /\ l = Later BY <1>1
<1>7. ASSUME NEW n \in Nat PROVE Waits(n) \in Nat BY <1>7, WaitsAddUp
<1>8. CASE Proceeds /\ pc \in {"search", "listen", "hear"}
  <2>1. PICK e \in Nat, f \in Nat : e = Exchange(UPNP_DESC_CAP) /\ f = Exchange(UPNP_SOAP_CAP)
    <3>1. 1 + H + UPNP_DESC_CAP \in Nat /\ 1 + H + UPNP_SOAP_CAP \in Nat BY <1>1
    <3> QED BY <1>7, <3>1 DEF Exchange
  <2>2. Left = SSDP_MX + Slop - now + e + f BY <1>8, <2>1 DEF Left
  <2>3. CASE pc' \in {"listen", "hear"} /\ now' = now
    <3>1. Left' = SSDP_MX + Slop - now + e + f BY <2>1, <2>3 DEF Left
    <3> QED BY <1>1, <2>2, <3>1
  <2>4. CASE pc = "hear" /\ pc' = "connect"
    <3>1. step = "get" /\ now <= SSDP_MX + Slop BY <2>4 DEF Timely
    <3>2. BodyCap = UPNP_DESC_CAP /\ Later = Exchange(UPNP_SOAP_CAP) BY <3>1 DEF BodyCap, Later
    <3>3. Left' = Exchange(BodyCap') + Later' BY <2>4 DEF Left
    <3>4. Left' = e + f BY <1>5, <1>8, <2>1, <3>2, <3>3
    <3>5. SSDP_MX \in Nat /\ Slop \in Nat BY WaitsAddUp
    <3> QED BY <1>1, <2>2, <3>1, <3>4, <3>5
  <2> QED BY <1>8, <2>3, <2>4 DEF Proceeds
<1>9. CASE Proceeds /\ pc \in {"connect", "connecting"}
  <2>1. H + c \in Nat /\ 1 + H + c \in Nat /\ H + c < 1 + H + c BY <1>1
  <2>2. PICK e \in Nat, w \in Nat : e = Exchange(c) /\ w = Waits(H + c) /\ w + T <= e
    BY <1>3, <2>1 DEF Exchange
  <2>3. Left = IF pc = "connect" THEN e + l ELSE e - now + l BY <1>6, <1>9, <2>2 DEF Left
  <2>4. pc = "connecting" => now <= T BY DEF Timely
  <2>5. CASE pc' = "connecting" /\ now' = 0 /\ pc = "connect"
    <3>1. Left' = Exchange(BodyCap') - 0 + Later' BY <2>5 DEF Left
    <3>2. Left' = e - 0 + l BY <1>5, <1>6, <1>9, <2>2, <3>1
    <3> QED BY <2>3, <2>5, <3>2
  <2>6. CASE pc' = "send"
    <3>1. Left' = Waits(H + BodyCap') + Later' BY <2>6 DEF Left
    <3>2. Left' = w + l BY <1>5, <1>6, <1>9, <2>2, <3>1
    <3> QED BY <1>1, <1>9, <2>2, <2>3, <2>4, <3>2
  <2> QED BY <1>9, <2>5, <2>6 DEF Proceeds
<1>10. CASE Proceeds /\ pc = "send"
  <2>1. now = 0 /\ Len(buf) = 0 BY <1>10, Sizes
  <2>2. H + c \in Nat /\ H - 0 + c = H + c BY <1>1
  <2>3. PICK w \in Nat : w = Waits(H + c) BY <1>7, <2>2
  <2>4. Left = w + l BY <1>6, <1>10, <2>3 DEF Left
  <2>5. Left' = w + l
    <3>1. CASE pc' = "send"
      <4>1. Left' = Waits(H + BodyCap') + Later' BY <3>1 DEF Left
      <4> QED BY <1>5, <1>6, <1>10, <2>3, <4>1
    <3>2. CASE pc' = "headers" /\ now' = now /\ buf' = buf
      <4>1. Left' = Waits(H - Len(buf') + BodyCap') - now' + Later' BY <3>2 DEF Left
      <4>2. Left' = Waits(H - 0 + c) - 0 + l BY <1>5, <1>6, <1>10, <2>1, <3>2, <4>1
      <4>3. Left' = w - 0 + l BY <2>2, <2>3, <4>2
      <4> QED BY <4>3
    <3> QED BY <1>10, <3>1, <3>2 DEF Proceeds
  <2> QED BY <1>1, <2>4, <2>5
<1>11. CASE Proceeds /\ pc = "headers"
  <2>1. now <= T /\ Len(buf) \in Nat /\ Len(buf) < H BY <1>11, Sizes DEF Timely
  <2>2. PICK n \in Nat : n = H - Len(buf) + c BY <1>1, <2>1
  <2>3. PICK w \in Nat : w = Waits(n) /\ Left = w - now + l BY <1>6, <1>7, <1>11, <2>2 DEF Left
  <2>4. CASE pc' = "headers" /\ now' = 0 /\ Len(buf) < Len(buf')
    <3>1. Left' = Waits(H - Len(buf') + BodyCap') - 0 + Later' BY <2>4 DEF Left
    <3>2. Len(buf') \in Nat /\ Len(buf') < H
      <4>1. (pc = "headers" => Len(buf) \in Nat /\ Len(buf) < HTTP_HDR_CAP)' BY SizesOfReads, PTL
      <4> QED BY <2>4, <4>1
    <3>3. PICK m \in Nat : m = H - Len(buf') + c /\ m < n
      <4>1. H - Len(buf') + c \in Nat /\ H - Len(buf') + c < H - Len(buf) + c
        BY <1>1, <2>1, <2>4, <3>2, Sums
      <4> QED BY <2>2, <4>1
    <3>4. PICK v \in Nat : v = Waits(m) /\ v + T <= w BY <1>3, <2>3, <3>3
    <3>5. Left' = v - 0 + l BY <1>5, <1>6, <1>11, <3>1, <3>3, <3>4
    <3>6. v - 0 + l <= w - now + l BY <1>1, <2>1, <3>4, Sums
    <3> QED BY <2>3, <3>5, <3>6
  <2>5. CASE pc' = "body" /\ now' = 0
    <3>1. Left' = Waits(BodyCap' - Len(got')) - 0 + Later' BY <2>5 DEF Left
    <3>2. Len(got') \in Nat /\ Len(got') < BodyCap'
      <4>1. (pc = "body" => Len(got) \in Nat /\ Len(got) < BodyCap)' BY SizesOfReads, PTL
      <4> QED BY <2>5, <4>1
    <3>3. PICK m \in Nat : m = BodyCap' - Len(got') /\ m < n
      <4>1. PICK g \in Nat : g = Len(got') BY <3>2
      <4>2. BodyCap' = c BY <1>5, <1>6, <1>11
      <4>3. PICK b \in Nat : b = Len(buf) /\ b < H BY <2>1
      <4>4. c - g \in Nat /\ c - g < n BY <1>1, <2>2, <3>2, <4>1, <4>2, <4>3
      <4> QED BY <4>1, <4>2, <4>4
    <3>4. PICK v \in Nat : v = Waits(m) /\ v + T <= w BY <1>3, <2>3, <3>3
    <3>5. Left' = v - 0 + l BY <1>5, <1>6, <1>11, <3>1, <3>3, <3>4
    <3>6. v - 0 + l <= w - now + l BY <1>1, <2>1, <3>4, Sums
    <3> QED BY <2>3, <3>5, <3>6
  <2> QED BY <1>11, <2>4, <2>5 DEF Proceeds
<1>12. CASE Proceeds /\ pc = "body"
  <2>1. now <= T /\ Len(got) \in Nat /\ Len(got) < c BY <1>6, <1>12, Sizes DEF Timely
  <2>2. PICK n \in Nat : n = c - Len(got) BY <1>1, <2>1
  <2>3. PICK w \in Nat : w = Waits(n) /\ Left = w - now + l BY <1>6, <1>7, <1>12, <2>2 DEF Left
  <2>4. pc' = "body" /\ now' = 0 /\ Len(got) < Len(got') BY <1>12 DEF Proceeds
  <2>5. Left' = Waits(BodyCap' - Len(got')) - 0 + Later' BY <2>4 DEF Left
  <2>6. Len(got') \in Nat /\ Len(got') < BodyCap'
    <3>1. (pc = "body" => Len(got) \in Nat /\ Len(got) < BodyCap)' BY SizesOfReads, PTL
    <3> QED BY <2>4, <3>1
  <2>7. PICK m \in Nat : m = BodyCap' - Len(got') /\ m < n
    BY <1>1, <1>5, <1>6, <1>12, <2>1, <2>2, <2>4, <2>6
  <2>8. PICK v \in Nat : v = Waits(m) /\ v + T <= w BY <1>3, <2>3, <2>7
  <2>9. Left' = v - 0 + l BY <1>5, <1>6, <1>12, <2>5, <2>7, <2>8
  <2>10. v - 0 + l <= w - now + l BY <1>1, <2>1, <2>8, Sums
  <2> QED BY <2>3, <2>9, <2>10
<1>13. Proceeds => pc \in {"search", "listen", "hear", "connect", "connecting", "send",
                            "headers", "body"}
  BY DEF Proceeds
<1> QED BY <1>4, <1>8, <1>9, <1>10, <1>11, <1>12, <1>13

\* A call that goes on is at work; one that ends is over with what it shows.
LEMMA GoesOn ==
  ASSUME IInv, Timely, pc # "idle", pc' # "idle", now' \in {0, now}, end' = end,
         Left' \in 0..Left, Evidence => Evidence'
  PROVE  Promise!Next
<1>1. Left \in Nat BY LeftIs
<1>2. Left # -1 /\ Left' \in 0..(Left - 0) BY <1>1
<1>3. Promise!Work
  BY <1>2 DEF Promise!Work, Promise!Spends, Promise!Restarts, Promise!Forever, Evidence
<1> QED BY <1>3 DEF Promise!Next

LEMMA CallPromise ==
  ASSUME IInv, IInv', Timely, Timely', Work \/ Hear \/ HearFails, SuccessStep
  PROVE  Promise!Next
<1>1. pc # "idle" /\ UNCHANGED <<calls, mapped>> /\ (Over \/ Posts \/ Proceeds)
  BY CallProceeds
<1>2. CASE Over
  <2>1. pc' = "idle" /\ now' = 0 BY <1>2, FinishIs DEF Over
  <2>2. call # None BY <1>1 DEF IInv, TypeOK
  <2>3. end'.success => AnsweredNow BY <1>1, <2>2 DEF SuccessStep, Timely
  <2>4. Left' = 0 BY <2>1 DEF Left
  <2>5. Promise!Return
    BY <1>1, <2>1, <2>3, <2>4 DEF Promise!Return, Promise!Restarts
  <2> QED BY <2>5 DEF Promise!Next
<1>3. CASE Posts \/ Proceeds
  <2>1. /\ pc' # "idle" /\ now' \in {0, now} /\ UNCHANGED <<call, end>>
    BY <1>1, <1>3 DEF Posts, Proceeds
  <2>2. Evidence => Evidence'
    <3>1. CASE Posts BY <3>1 DEF Posts, Evidence, AnsweredNow
    <3>2. CASE Proceeds
      <4>1. UNCHANGED <<step, response, call, calls, mapped>> BY <1>1, <3>2 DEF Proceeds
      <4> QED BY <2>1, <4>1 DEF Evidence, AnsweredNow, MappedNow
    <3> QED BY <1>3, <3>1, <3>2
  <2>3. Left' \in 0..Left BY <1>3, LessIsLeft
  <2> QED BY <1>1, <2>1, <2>2, <2>3, GoesOn
<1> QED BY <1>1, <1>2, <1>3

LEMMA BeginPromise == ASSUME IInv, Timely, Begin PROVE Promise!Next
<1>1. /\ pc = "idle" /\ pc' \in {"idle", "search"} /\ calls' = calls + 1
      /\ ~end'.success /\ UNCHANGED <<now, step, response>>
  BY BeginIs
<1>2. now = 0 /\ Left = 0 BY <1>1 DEF Timely, Left
<1>3. CASE pc' = "idle"
  <2>1. Left' = 0 BY <1>3 DEF Left
  <2>2. Promise!Refuse BY <1>1, <1>2, <1>3, <2>1 DEF Promise!Refuse, Promise!Restarts
  <2> QED BY <2>2 DEF Promise!Next
<1>4. CASE pc' = "search"
  <2>1. PICK e \in Nat, f \in Nat : e = Exchange(UPNP_DESC_CAP) /\ f = Exchange(UPNP_SOAP_CAP)
    <3>1. 1 + HTTP_HDR_CAP + UPNP_DESC_CAP \in Nat /\ 1 + HTTP_HDR_CAP + UPNP_SOAP_CAP \in Nat
      BY WaitsAddUp
    <3> QED BY <3>1, WaitsAddUp DEF Exchange
  <2>2. Left' = SSDP_MX + Slop - 0 + e + f BY <1>1, <1>2, <1>4, <2>1 DEF Left
  <2>3. Left' = SSDP_MX + Slop + e + f BY <2>2, WaitsAddUp
  <2>4. ~AnsweredNow'
    <3>1. response' = None BY <1>1 DEF IInv, TypeOK
    <3> QED BY <3>1 DEF AnsweredNow
  <2>5. Promise!Start
    BY <1>1, <1>4, <2>1, <2>3, <2>4 DEF Promise!Start, Promise!Restarts
  <2> QED BY <2>5 DEF Promise!Next
<1> QED BY <1>1, <1>3, <1>4

LEMMA LeftUnchanged ==
  ASSUME UNCHANGED <<pc, step, now, buf, got>>
  PROVE  Left' = Left
<1>1. BodyCap' = BodyCap BY DEF BodyCap
<1>2. Later' = Later BY DEF Later
<1> QED BY <1>1, <1>2 DEF Left

LEMMA WorldPromise == ASSUME IInv, Timely, Serve \/ Breaks PROVE Promise!Next
<1>1. /\ pc # "idle" /\ UNCHANGED <<pc, calls, call, end, now, step, buf, got>>
      /\ response # None => UNCHANGED <<response, mapped>>
  BY WorldIs
<1>2. Left' = Left BY <1>1, LeftUnchanged
<1>3. Left' \in 0..Left BY <1>2, LeftIs
<1>4. Evidence => Evidence' BY <1>1 DEF Evidence, AnsweredNow, MappedNow
<1> QED BY <1>1, <1>3, <1>4, GoesOn

LEMMA TickPromise == ASSUME IInv, IInv', Timely, Timely', Tick PROVE Promise!Next
<1>1. /\ pc \in {"hear", "connecting", "headers", "body"} /\ now' = now + 1
      /\ UNCHANGED <<pc, calls, call, end, step, buf, got, response, mapped>>
  BY TickIs
<1>2. now \in Nat /\ Left \in Nat /\ Later \in Nat /\ Slop \in Nat /\ SSDP_MX \in Nat
      /\ HTTP_HDR_CAP \in Nat /\ BodyCap \in Nat
  BY Sizes, LeftIs, WaitsAddUp
<1>3. Left' \in Nat
  <2>1. (Left \in Nat)' BY LeftIsNat, PTL
  <2> QED BY <2>1
<1>4. BodyCap' = BodyCap /\ Later' = Later BY <1>1 DEF BodyCap, Later
<1>5. Left' = Left - 1
  <2>1. CASE pc = "hear"
    <3>1. PICK e \in Nat, f \in Nat : e = Exchange(UPNP_DESC_CAP) /\ f = Exchange(UPNP_SOAP_CAP)
      <4>1. 1 + HTTP_HDR_CAP + UPNP_DESC_CAP \in Nat /\ 1 + HTTP_HDR_CAP + UPNP_SOAP_CAP \in Nat
        BY WaitsAddUp
      <4> QED BY <4>1, WaitsAddUp DEF Exchange
    <3>2. Left = SSDP_MX + Slop - now + e + f /\ Left' = SSDP_MX + Slop - (now + 1) + e + f
      BY <1>1, <2>1, <3>1 DEF Left
    <3> QED BY <1>2, <3>2
  <2>2. CASE pc \in {"connecting", "headers", "body"}
    <3>1. PICK w : /\ w \in Nat
                   /\ w = IF pc = "connecting" THEN Exchange(BodyCap)
                          ELSE IF pc = "headers" THEN Waits(HTTP_HDR_CAP - Len(buf) + BodyCap)
                          ELSE Waits(BodyCap - Len(got))
      <4>1. pc = "connecting" => 1 + HTTP_HDR_CAP + BodyCap \in Nat BY <1>2
      <4>2. pc = "headers" => HTTP_HDR_CAP - Len(buf) + BodyCap \in Nat BY <1>2, Sizes
      <4>3. pc = "body" => BodyCap - Len(got) \in Nat BY <1>2, Sizes
      <4> QED BY <2>2, <4>1, <4>2, <4>3, WaitsAddUp DEF Exchange
    <3>2. Left = w - now + Later BY <2>2, <3>1 DEF Left
    <3>3. Left' = w - (now + 1) + Later BY <1>1, <1>4, <2>2, <3>1 DEF Left
    <3>4. PICK k \in Nat, l \in Nat : k = now /\ l = Later BY <1>2
    <3>5. w \in Nat BY <3>1
    <3>6. w - (k + 1) + l = (w - k + l) - 1 BY <3>5, Sums
    <3> QED BY <3>2, <3>3, <3>4, <3>6
  <2> QED BY <1>1, <2>1, <2>2
<1>6. Left # -1 /\ Left' \in 0..(Left - 1) BY <1>2, <1>3, <1>5
<1>7. Evidence' = Evidence BY <1>1 DEF Evidence, AnsweredNow, MappedNow
<1>8. Promise!Pass
  BY <1>1, <1>6, <1>7 DEF Promise!Pass, Promise!Spends, Promise!Forever, Evidence
<1> QED BY <1>8 DEF Promise!Next

\* upnp.c: every execution is one of the abstract weapon, however the gateway
\* cuts, delays and draws out its answers: a call is refused, or it is over
\* within a number of timeouts that the sizes of its buffers bound, and a
\* success has an answer to this very call's post behind it in which no fault
\* can be read.
THEOREM Refinement == Spec => KeepsPromise
<1>1. Init => Promise!Init
  BY DEF Init, Promise!Init, Left
<1>2. IInv /\ Timely /\ [Next]_vars => Timely' BY TimelyStep
<1>3. IInv /\ IInv' /\ Timely /\ Timely' /\ [Next]_vars => [Promise!Next]_(Promise!promiseVars)
  <2> SUFFICES ASSUME IInv, IInv', Timely, Timely', [Next]_vars
               PROVE  [Promise!Next]_(Promise!promiseVars)
    OBVIOUS
  <2>1. CASE UNCHANGED vars
    <3>1. UNCHANGED <<pc, step, now, buf, got, calls, call, end, response, mapped>>
      BY <2>1 DEF vars, asked, clock, reading, remote
    <3>2. Left' = Left BY <3>1, LeftUnchanged
    <3>3. AnsweredNow' = AnsweredNow BY <3>1 DEF AnsweredNow, MappedNow
    <3> QED BY <3>1, <3>2, <3>3 DEF Promise!promiseVars
  <2>2. CASE Next /\ ~UNCHANGED vars
    <3>1. SuccessStep BY <2>2, NextKeeps
    <3>2. ~Stop BY <2>2 DEF Stop
    <3> QED BY <2>2, <3>1, <3>2, BeginPromise, CallPromise, WorldPromise, TickPromise DEF Next
  <2> QED BY <2>1, <2>2
<1> QED BY <1>1, <1>2, <1>3, InitTimely, InductiveInvariant, PTL
    DEF Spec, KeepsPromise, Promise!Spec
=============================================================================
