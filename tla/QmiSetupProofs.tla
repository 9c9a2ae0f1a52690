--------------------------- MODULE QmiSetupProofs ---------------------------
(***************************************************************************)
(* Proofs about QmuxCodec and QmiSetup.  First the operators: that the     *)
(* recursions are defined, what lengths add up to, which TLV a lookup      *)
(* finds, what an account means, and what the modem answers.  Then the     *)
(* invariant IInv, step by step, and from it the properties; last the mux  *)
(* ids, for drivers with two adapters.                                     *)
(***************************************************************************)
EXTENDS QmiSetup, SequenceTheorems, WellFoundedInduction, TLAPS

-----------------------------------------------------------------------------
(* Recursive functions                                                     *)

\* A set of numbers has a least one.
LEMMA LeastNumber ==
  ASSUME NEW T \in SUBSET Nat, T # {}
  PROVE  \E x \in T : \A y \in T : x =< y
<1>1. PICK x \in T : \A y \in T : ~ (<<y, x>> \in OpToRel(<, Nat))
  BY NatLessThanWellFounded, WFMin
<1>2. \A y \in T : ~ (y < x) BY <1>1, Zenon DEF OpToRel
<1>. QED BY <1>2

\* Induction up to a number, for the members of a set.
LEMMA Induction ==
  ASSUME NEW N \in Nat, NEW T, 0 \in T, \A n \in 1..N : n - 1 \in T => n \in T
  PROVE  \A n \in 0..N : n \in T
<1>. DEFINE Bad == {n \in 0..N : n \notin T}
<1>1. Bad = {}
  <2>. SUFFICES ASSUME Bad # {} PROVE FALSE
    OBVIOUS
  <2>1. Bad \in SUBSET Nat OBVIOUS
  <2>2. PICK k \in Bad : \A j \in Bad : k =< j BY <2>1, LeastNumber, Zenon
  <2>3. k \in 1..N /\ k - 1 \in 0..N /\ ~(k =< k - 1) OBVIOUS
  <2>. QED BY <2>2, <2>3
<1>. QED BY <1>1

\* What a recursion from a by the steps of step must be up to k.
Steps(a, step, k, f) == f[0] = a /\ \A n \in 1..k : f[n] = step[n][f[n - 1]]

\* There is such a function.
LEMMA StepsExist ==
  ASSUME NEW S, NEW N \in Nat, NEW a \in S, NEW step \in [1..N -> [S -> S]]
  PROVE  \E f \in [0..N -> S] : Steps(a, step, N, f)
<1>. DEFINE T == {k \in 0..N : \E f \in [0..k -> S] : Steps(a, step, k, f)}
<1>1. 0 \in T
  <2>. DEFINE f == [n \in 0..0 |-> a]
  <2>1. f \in [0..0 -> S] /\ f[0] = a OBVIOUS
  <2>2. Steps(a, step, 0, f) BY <2>1 DEF Steps
  <2>. QED BY <2>1, <2>2
<1>2. ASSUME NEW k \in 1..N, k - 1 \in T PROVE k \in T
  <2>1. PICK f \in [0..(k - 1) -> S] : Steps(a, step, k - 1, f) BY <1>2
  <2>2. step[k] \in [S -> S] /\ k - 1 \in 0..(k - 1) /\ k \in 0..N OBVIOUS
  <2>3. f[k - 1] \in S /\ step[k][f[k - 1]] \in S BY <2>2
  <2>. DEFINE last == step[k][f[k - 1]]
              g == [n \in 0..k |-> IF n = k THEN last ELSE f[n]]
  <2>4. g \in [0..k -> S]
    <3>1. ASSUME NEW n \in 0..k, n # k PROVE f[n] \in S
      <4>1. n \in 0..(k - 1) BY <3>1
      <4>. QED BY <4>1
    <3>. QED BY <2>3, <3>1
  <2>5. Steps(a, step, k, g)
    <3>1. g[0] = a BY <2>1 DEF Steps
    <3>2. ASSUME NEW n \in 1..k PROVE g[n] = step[n][g[n - 1]]
      <4>1. n \in 0..k /\ n - 1 \in 0..k /\ n - 1 # k OBVIOUS
      <4>2. g[n - 1] = f[n - 1] BY <4>1
      <4>3. CASE n = k BY <4>1, <4>2, <4>3
      <4>4. CASE n # k
        <5>1. n \in 1..(k - 1) BY <4>4
        <5>2. f[n] = step[n][f[n - 1]] BY <2>1, <5>1 DEF Steps
        <5>. QED BY <4>1, <4>2, <4>4, <5>2
      <4>. QED BY <4>3, <4>4
    <3>. QED BY <3>1, <3>2 DEF Steps
  <2>. QED BY <2>2, <2>4, <2>5
<1>3. N \in T
  <2>. HIDE DEF T
  <2>1. \A n \in 0..N : n \in T BY <1>1, <1>2, Induction
  <2>. QED BY <2>1
<1>. QED BY <1>3

-----------------------------------------------------------------------------
(* Lengths                                                                 *)

\* What the sums of the lengths len up to each of the fields are.
Sums(len, k, f) == f[0] = 0 /\ \A n \in 1..k : f[n] = f[n - 1] + TlvHeader + len[n]

Lengths(tlvs) == [n \in 1..Len(tlvs) |-> tlvs[n].len]

\* The function that Size and Extent define.
Summed(len, k, f) == f = [n \in 0..k |-> IF n = 0 THEN 0 ELSE f[n - 1] + TlvHeader + len[n]]

\* There are sums, and Size and Extent look them up.
LEMMA SumsExist ==
  ASSUME NEW k \in Nat, NEW len \in [1..k -> Nat]
  PROVE  \E f \in [0..k -> Nat] : Sums(len, k, f) /\ Summed(len, k, f)
<1>. DEFINE step == [n \in 1..k |-> [v \in Nat |-> v + TlvHeader + len[n]]]
<1>1. TlvHeader \in Nat BY DEF TlvHeader
<1>2. step \in [1..k -> [Nat -> Nat]] BY <1>1
<1>3. PICK f \in [0..k -> Nat] : Steps(0, step, k, f)
  <2>. HIDE DEF step
  <2>. QED BY <1>2, StepsExist
<1>4. ASSUME NEW n \in 1..k PROVE n - 1 \in 0..k /\ f[n] = f[n - 1] + TlvHeader + len[n]
  <2>1. n - 1 \in 0..k OBVIOUS
  <2>2. f[n - 1] \in Nat BY <2>1
  <2>3. f[n] = step[n][f[n - 1]] BY <1>3 DEF Steps
  <2>. QED BY <2>1, <2>2, <2>3
<1>5. f[0] = 0 BY <1>3 DEF Steps
<1>6. Sums(len, k, f) BY <1>4, <1>5 DEF Sums
<1>7. Summed(len, k, f)
  <2>. DEFINE e == [n \in 0..k |-> IF n = 0 THEN 0 ELSE f[n - 1] + TlvHeader + len[n]]
  <2>1. ASSUME NEW n \in 0..k PROVE f[n] = e[n]
    <3>1. n = 0 \/ n \in 1..k OBVIOUS
    <3>. QED BY <1>4, <1>5, <3>1
  <2>2. f = [n \in 0..k |-> f[n]] OBVIOUS
  <2>3. f = e BY <2>1, <2>2
  <2>. QED BY <2>3 DEF Summed
<1>. QED BY <1>6, <1>7

\* And only those.
LEMMA SumsAgree ==
  ASSUME NEW k \in Nat, NEW len \in [1..k -> Nat], NEW f \in [0..k -> Nat], NEW g,
         Sums(len, k, f), Sums(len, k, g)
  PROVE  \A n \in 0..k : f[n] = g[n]
<1>. DEFINE T == {n \in 0..k : f[n] = g[n]}
<1>1. 0 \in T BY DEF Sums
<1>2. ASSUME NEW n \in 1..k, n - 1 \in T PROVE n \in T
  <2>1. n \in 0..k OBVIOUS
  <2>. QED BY <1>2, <2>1 DEF Sums
<1>3. \A n \in 0..k : n \in T
  <2>. HIDE DEF T
  <2>. QED BY <1>1, <1>2, Induction
<1>. QED BY <1>3

\* A function that is defined as Size's is one of sums.
LEMMA SummedSums ==
  ASSUME NEW k \in Nat, NEW len, NEW f, Summed(len, k, f)
  PROVE  Sums(len, k, f)
<1>1. f[0] = 0 BY DEF Summed
<1>2. ASSUME NEW n \in 1..k PROVE f[n] = f[n - 1] + TlvHeader + len[n]
  <2>1. n \in 0..k /\ n # 0 OBVIOUS
  <2>. QED BY <2>1 DEF Summed
<1>. QED BY <1>1, <1>2 DEF Sums

\* The room a struct has for its fields.
LEMMA SizeSums ==
  ASSUME NEW rooms \in Seq(Nat), NEW f \in [0..Len(rooms) -> Nat], Sums(rooms, Len(rooms), f)
  PROVE  Size(rooms) = f[Len(rooms)]
<1>. DEFINE g == CHOOSE h : Summed(rooms, Len(rooms), h)
<1>1. Len(rooms) \in Nat /\ rooms \in [1..Len(rooms) -> Nat] /\ Len(rooms) \in 0..Len(rooms)
  OBVIOUS
<1>2. Size(rooms) = g[Len(rooms)] BY DEF Size, Summed
<1>3. Summed(rooms, Len(rooms), g) BY <1>1, SumsExist
<1>. HIDE DEF g
<1>4. Sums(rooms, Len(rooms), g) BY <1>1, <1>3, SummedSums
<1>5. f[Len(rooms)] = g[Len(rooms)]
  <2>. DEFINE k == Len(rooms)
  <2>1. k \in Nat /\ rooms \in [1..k -> Nat] /\ k \in 0..k BY <1>1
  <2>2. Sums(rooms, k, f) /\ Sums(rooms, k, g) /\ f \in [0..k -> Nat] BY <1>4
  <2>. HIDE DEF k
  <2>3. f[k] = g[k] BY <2>1, <2>2, SumsAgree
  <2>. QED BY <2>3 DEF k
<1>. QED BY <1>2, <1>5

\* The room that fields take.
LEMMA ExtentSums ==
  ASSUME NEW tlvs, Len(tlvs) \in Nat, Lengths(tlvs) \in [1..Len(tlvs) -> Nat],
         NEW f \in [0..Len(tlvs) -> Nat], Sums(Lengths(tlvs), Len(tlvs), f)
  PROVE  Extent(tlvs) = f[Len(tlvs)]
<1>. DEFINE k == Len(tlvs)
            E(h) == h = [n \in 0..k |-> IF n = 0 THEN 0 ELSE h[n - 1] + TlvHeader + tlvs[n].len]
            g == CHOOSE h : E(h)
<1>1. k \in 0..k OBVIOUS
<1>2. Extent(tlvs) = g[k] BY DEF Extent
<1>3. ASSUME NEW h PROVE Summed(Lengths(tlvs), k, h) <=> E(h)
  <2>1. \A n \in 0..k : n = 0 \/ n \in 1..k OBVIOUS
  <2>2. [n \in 0..k |-> IF n = 0 THEN 0 ELSE h[n - 1] + TlvHeader + tlvs[n].len]
        = [n \in 0..k |-> IF n = 0 THEN 0 ELSE h[n - 1] + TlvHeader + Lengths(tlvs)[n]]
    BY <2>1 DEF Lengths
  <2>. QED BY <2>2 DEF Summed
<1>4. E(g)
  <2>1. \E h : Summed(Lengths(tlvs), k, h) BY SumsExist
  <2>2. \E h : E(h) BY <1>3, <2>1
  <2>. QED BY <2>2
<1>. HIDE DEF g, E
<1>5. Sums(Lengths(tlvs), k, g) BY <1>3, <1>4, SummedSums
<1>. QED BY <1>1, <1>2, <1>5, SumsAgree

\* The fields of a message, of values in V.
Tlv(V) == [type : Nat, len : Nat, val : V]

\* The lengths of fields are numbers.
LEMMA LengthsType ==
  ASSUME NEW V, NEW tlvs \in Seq(Tlv(V))
  PROVE  /\ Len(tlvs) \in Nat /\ Lengths(tlvs) \in [1..Len(tlvs) -> Nat]
         /\ \A n \in 1..Len(tlvs) : Lengths(tlvs)[n] = tlvs[n].len
<1>1. \A n \in 1..Len(tlvs) : tlvs[n] \in Tlv(V) OBVIOUS
<1>. QED BY <1>1 DEF Lengths, Tlv

\* Fields that follow others take their room in addition.
LEMMA ExtentConcat ==
  ASSUME NEW V, NEW a \in Seq(Tlv(V)), NEW b \in Seq(Tlv(V))
  PROVE  Extent(a \o b) = Extent(a) + Extent(b) /\ Extent(a) \in Nat /\ Extent(b) \in Nat
<1>. DEFINE k == Len(a)
            n == Len(b)
            c == a \o b
<1>1. /\ k \in Nat /\ n \in Nat /\ c \in Seq(Tlv(V)) /\ Len(c) = k + n
      /\ \A i \in 1..k : c[i] = a[i]
      /\ \A i \in 1..n : c[k + i] = b[i]
  OBVIOUS
<1>. HIDE DEF c, k, n
<1>2. /\ Lengths(a) \in [1..k -> Nat] /\ \A i \in 1..k : Lengths(a)[i] = a[i].len
      /\ Lengths(b) \in [1..n -> Nat] /\ \A i \in 1..n : Lengths(b)[i] = b[i].len
      /\ Lengths(c) \in [1..(k + n) -> Nat] /\ \A i \in 1..(k + n) : Lengths(c)[i] = c[i].len
  BY <1>1, LengthsType DEF k, n
<1>3. PICK f \in [0..k -> Nat] : Sums(Lengths(a), k, f) BY <1>1, <1>2, SumsExist
<1>4. PICK g \in [0..n -> Nat] : Sums(Lengths(b), n, g) BY <1>1, <1>2, SumsExist
<1>5. Extent(a) = f[k] /\ f[k] \in Nat
  <2>1. k \in 0..k BY <1>1
  <2>. QED BY <1>1, <1>2, <1>3, <2>1, ExtentSums DEF k
<1>6. Extent(b) = g[n] /\ g[n] \in Nat
  <2>1. n \in 0..n BY <1>1
  <2>. QED BY <1>1, <1>2, <1>4, <2>1, ExtentSums DEF n
<1>. DEFINE h == [i \in 0..(k + n) |-> IF i =< k THEN f[i] ELSE f[k] + g[i - k]]
<1>7. h \in [0..(k + n) -> Nat]
  <2>1. \A i \in 0..(k + n) : i =< k => i \in 0..k BY <1>1
  <2>2. \A i \in 0..(k + n) : ~(i =< k) => i - k \in 0..n BY <1>1
  <2>. QED BY <1>5, <2>1, <2>2
<1>8. Sums(Lengths(c), k + n, h)
  <2>1. h[0] = 0 BY <1>1, <1>3 DEF Sums
  <2>2. ASSUME NEW i \in 1..(k + n) PROVE h[i] = h[i - 1] + TlvHeader + Lengths(c)[i]
    <3>1. i \in 0..(k + n) /\ i - 1 \in 0..(k + n) BY <1>1
    <3>2. CASE i =< k
      <4>1. i \in 1..k /\ i - 1 =< k BY <1>1, <3>2
      <4>2. Lengths(c)[i] = Lengths(a)[i] BY <1>1, <1>2, <4>1
      <4>3. h[i] = f[i] /\ h[i - 1] = f[i - 1] BY <3>1, <3>2, <4>1
      <4>. QED BY <1>3, <4>1, <4>2, <4>3 DEF Sums
    <3>3. CASE ~(i =< k)
      <4>. DEFINE j == i - k
      <4>1. j \in 1..n /\ k + j = i /\ j \in 0..n /\ j - 1 \in 0..n /\ i - 1 - k = j - 1
        BY <1>1, <3>3
      <4>2. Lengths(c)[i] = Lengths(b)[j] /\ Lengths(b)[j] \in Nat BY <1>1, <1>2, <4>1
      <4>3. h[i] = f[k] + g[j] BY <3>1, <3>3
      <4>4. g[j] = g[j - 1] + TlvHeader + Lengths(b)[j] BY <1>4, <4>1 DEF Sums
      <4>5. h[i - 1] = f[k] + g[j - 1]
        <5>1. CASE j = 1
          <6>1. i - 1 =< k /\ i - 1 = k /\ j - 1 = 0 BY <1>1, <4>1, <5>1
          <6>. QED BY <1>4, <1>5, <3>1, <6>1 DEF Sums
        <5>2. CASE j # 1
          <6>1. ~(i - 1 =< k) BY <1>1, <4>1, <5>2
          <6>. QED BY <3>1, <4>1, <6>1
        <5>. QED BY <5>1, <5>2
      <4>6. g[j] \in Nat /\ g[j - 1] \in Nat BY <4>1
      <4>7. TlvHeader \in Nat BY DEF TlvHeader
      <4>8. \A x, y, t, l \in Nat : x + (y + t + l) = x + y + t + l OBVIOUS
      <4>9. f[k] + g[j] = f[k] + g[j - 1] + TlvHeader + Lengths(b)[j]
        BY <1>5, <4>2, <4>4, <4>6, <4>7, <4>8, SMTT(30)
      <4>. HIDE DEF h, j
      <4>10. h[i] = h[i - 1] + TlvHeader + Lengths(b)[j] BY <4>3, <4>5, <4>9
      <4>. QED BY <4>2, <4>10, Zenon
    <3>. QED BY <3>2, <3>3
  <2>. HIDE DEF h
  <2>. QED BY <2>1, <2>2 DEF Sums
<1>9. h[k + n] = f[k] + g[n]
  <2>1. k + n \in 0..(k + n) /\ (k + n) - k = n BY <1>1
  <2>2. CASE n = 0
    <3>1. g[n] = 0 /\ k + n = k BY <1>1, <1>4, <2>2 DEF Sums
    <3>. QED BY <1>5, <2>1, <3>1
  <2>3. CASE n # 0
    <3>1. ~(k + n =< k) BY <1>1, <2>3
    <3>. QED BY <2>1, <3>1
  <2>. QED BY <2>2, <2>3
<1>. HIDE DEF h
<1>10. Extent(c) = h[k + n]
  <2>1. Len(c) \in Nat /\ Len(c) = k + n BY <1>1
  <2>. QED BY <1>2, <1>7, <1>8, <2>1, ExtentSums
<1>. QED BY <1>5, <1>6, <1>9, <1>10 DEF c

\* Fields that have the room of a struct fill it.
LEMMA FieldsFill ==
  ASSUME NEW V, NEW tlvs \in Seq(Tlv(V)), NEW rooms \in Seq(Nat), Len(rooms) = Len(tlvs),
         \A i \in 1..Len(tlvs) : tlvs[i].len = rooms[i]
  PROVE  Extent(tlvs) = Size(rooms)
<1>1. /\ Len(tlvs) \in Nat /\ Lengths(tlvs) \in [1..Len(tlvs) -> Nat]
      /\ \A i \in 1..Len(tlvs) : Lengths(tlvs)[i] = rooms[i]
  BY LengthsType
<1>2. PICK f \in [0..Len(tlvs) -> Nat] : Sums(Lengths(tlvs), Len(tlvs), f) BY <1>1, SumsExist
<1>3. Sums(rooms, Len(rooms), f) BY <1>1, <1>2 DEF Sums
<1>. QED BY <1>1, <1>2, <1>3, ExtentSums, SizeSums

\* The modem can read a message whose fields have the room that its struct has for
\* them, whatever fields are appended.
LEMMA ReadableMessage ==
  ASSUME NEW V, NEW tlvs \in Seq(Tlv(V)), NEW more \in Seq(Tlv(V)), NEW rooms \in Seq(Nat),
         Len(rooms) = Len(tlvs), \A i \in 1..Len(tlvs) : tlvs[i].len = rooms[i],
         NEW service, NEW req
  PROVE  /\ Readable(Appended(service, req, rooms, tlvs, more))
         /\ Readable(Filled(service, req, rooms, tlvs))
<1>1. Extent(tlvs) = Size(rooms) BY FieldsFill
<1>2. Extent(tlvs \o more) = Extent(tlvs) + Extent(more) BY ExtentConcat
<1>3. \A i \in 1..Len(tlvs) : (tlvs \o more)[i] = tlvs[i] OBVIOUS
<1>4. DOMAIN rooms = 1..Len(tlvs) OBVIOUS
<1>. QED BY <1>1, <1>2, <1>3, <1>4 DEF Readable, Appended, Filled, ComposeQMUXMsg

-----------------------------------------------------------------------------
(* Requests that can be read                                               *)

\* A field that is there on a condition.
LEMMA IfType ==
  ASSUME NEW V, NEW cond \in BOOLEAN, NEW t, cond => t \in Tlv(V)
  PROVE  If(cond, t) \in Seq(Tlv(V))
BY DEF If

\* Fields of one byte, of four and of text.
LEMMA FieldsType ==
  ASSUME NEW V, NEW type \in Nat, NEW v \in V
  PROVE  /\ U8(type, v) \in Tlv(V) /\ U32(type, v) \in Tlv(V) /\ Endpoint(type, v) \in Tlv(V)
         /\ Len(v) \in Nat => Text(type, v) \in Tlv(V) /\ PinField(type, v) \in Tlv(V)
BY DEF U8, U32, Endpoint, Text, PinField, Tlv

\* A message without more fields than its struct has.
LEMMA FilledReadable ==
  ASSUME NEW V, NEW tlvs \in Seq(Tlv(V)), NEW rooms \in Seq(Nat), Len(rooms) = Len(tlvs),
         \A i \in 1..Len(tlvs) : tlvs[i].len = rooms[i],
         NEW service, NEW req
  PROVE  Readable(Filled(service, req, rooms, tlvs))
<1>1. <<>> \in Seq(Tlv(V)) OBVIOUS
<1>. QED BY <1>1, ReadableMessage

\* A request without fields, and those whose fields have lengths of their own.
LEMMA FixedReadable ==
  ASSUME NEW service, NEW req, NEW v
  PROVE  /\ Readable(Bare(service, req))
         /\ Readable(WdsSetClientIPFamilyPref(service, v))
         /\ Readable(WdsSetAutoConnect(v))
         /\ Readable(WdsSetQMUXBindMuxDataPort(service, v))
         /\ Readable(WdaSetLoopBackReq(v))
         /\ Readable(WdsCreateProfileSettingsReqSend(v))
         /\ Readable(WdsGetProfileSettingsReqSend(v))
         /\ Readable(WdsGetRuntimeSettingReq(service))
         /\ Readable(WdsStopNwInterfaceReq(service, v))
<1>. DEFINE V == {v, "hsusb", "tethered", "replication", "3gpp", "mask"}
<1>0. <<>> \in Seq(Tlv(V)) OBVIOUS
<1>1. Readable(Bare(service, req))
  <2>. DEFINE t == <<>>
  <2>1. t \in Seq(Tlv(V)) /\ t \in Seq(Nat) /\ Len(t) = 0 OBVIOUS
  <2>. HIDE DEF t, V
  <2>2. \A i \in 1..Len(t) : t[i].len = t[i] BY <2>1
  <2>3. Readable(Filled(service, req, t, t)) BY <2>1, <2>2, FilledReadable
  <2>. QED BY <2>3 DEF Bare, t
<1>2. Readable(WdsSetClientIPFamilyPref(service, v)) /\ Readable(WdsSetAutoConnect(v))
  <2>. DEFINE t == <<U8(1, v)>>
              r == <<1>>
  <2>1. t \in Seq(Tlv(V)) /\ Len(t) = 1 BY FieldsType
  <2>2. \A i \in 1..Len(t) : t[i].len = r[i] BY DEF U8
  <2>3. r \in Seq(Nat) /\ Len(r) = 1 OBVIOUS
  <2>. HIDE DEF t, r, V
  <2>4. \A a, b : Readable(Filled(a, b, r, t)) BY <2>1, <2>2, <2>3, FilledReadable
  <2>. QED BY <2>4 DEF WdsSetClientIPFamilyPref, WdsSetAutoConnect, IpFamilyPrefReq, AutoConnectReq, t, r
<1>3. Readable(WdsSetQMUXBindMuxDataPort(service, v))
  <2>. DEFINE t == <<Endpoint(16, "hsusb"), U8(17, v), U32(19, "tethered")>>
              r == <<8, 1, 4>>
  <2>1. t \in Seq(Tlv(V)) /\ Len(t) = 3 BY FieldsType
  <2>2. \A i \in 1..Len(t) : t[i].len = r[i] BY DEF U8, U32, Endpoint
  <2>3. r \in Seq(Nat) /\ Len(r) = 3 OBVIOUS
  <2>. HIDE DEF t, r, V
  <2>4. \A a, b : Readable(Filled(a, b, r, t)) BY <2>1, <2>2, <2>3, FilledReadable
  <2>. QED BY <2>4 DEF WdsSetQMUXBindMuxDataPort, BindMuxDataPortReq, t, r
<1>4. Readable(WdaSetLoopBackReq(v))
  <2>. DEFINE t == <<U8(1, v), U32(16, "replication")>>
              r == <<1, 4>>
  <2>1. t \in Seq(Tlv(V)) /\ Len(t) = 2 BY FieldsType
  <2>2. \A i \in 1..Len(t) : t[i].len = r[i] BY DEF U8, U32
  <2>3. r \in Seq(Nat) /\ Len(r) = 2 OBVIOUS
  <2>. HIDE DEF t, r, V
  <2>4. \A a, b : Readable(Filled(a, b, r, t)) BY <2>1, <2>2, <2>3, FilledReadable
  <2>. QED BY <2>4 DEF WdaSetLoopBackReq, SetLoopBackReq, t, r
<1>5. Readable(WdsCreateProfileSettingsReqSend(v))
  <2>. DEFINE t == <<U8(1, "3gpp"), U8(37, v)>>
              r == <<1, 1>>
  <2>1. t \in Seq(Tlv(V)) /\ Len(t) = 2 BY FieldsType
  <2>2. \A i \in 1..Len(t) : t[i].len = r[i] BY DEF U8
  <2>3. r \in Seq(Nat) /\ Len(r) = 2 OBVIOUS
  <2>. HIDE DEF t, r, V
  <2>4. \A a, b : Readable(Filled(a, b, r, t)) BY <2>1, <2>2, <2>3, FilledReadable
  <2>. QED BY <2>4 DEF WdsCreateProfileSettingsReqSend, CreateProfileReq, t, r
<1>6. Readable(WdsGetProfileSettingsReqSend(v))
  <2>. DEFINE t == <<ProfileField(v)>>
              r == <<2>>
  <2>1. t \in Seq(Tlv(V)) /\ Len(t) = 1 BY DEF ProfileField, Tlv
  <2>2. \A i \in 1..Len(t) : t[i].len = r[i] BY DEF ProfileField
  <2>3. r \in Seq(Nat) /\ Len(r) = 1 OBVIOUS
  <2>. HIDE DEF t, r, V
  <2>4. \A a, b : Readable(Filled(a, b, r, t)) BY <2>1, <2>2, <2>3, FilledReadable
  <2>. QED BY <2>4 DEF WdsGetProfileSettingsReqSend, GetProfileReq, t, r
<1>7. Readable(WdsGetRuntimeSettingReq(service))
  <2>. DEFINE t == <<U32(16, "mask")>>
              r == <<4>>
  <2>1. t \in Seq(Tlv(V)) /\ Len(t) = 1 BY FieldsType
  <2>2. \A i \in 1..Len(t) : t[i].len = r[i] BY DEF U32
  <2>3. r \in Seq(Nat) /\ Len(r) = 1 OBVIOUS
  <2>. HIDE DEF t, r, V
  <2>4. \A a, b : Readable(Filled(a, b, r, t)) BY <2>1, <2>2, <2>3, FilledReadable
  <2>. QED BY <2>4 DEF WdsGetRuntimeSettingReq, GetRuntimeSettingsReq, t, r
<1>8. Readable(WdsStopNwInterfaceReq(service, v))
  <2>. DEFINE t == <<U32(1, v)>>
              r == <<4>>
  <2>1. t \in Seq(Tlv(V)) /\ Len(t) = 1 BY FieldsType
  <2>2. \A i \in 1..Len(t) : t[i].len = r[i] BY DEF U32
  <2>3. r \in Seq(Nat) /\ Len(r) = 1 OBVIOUS
  <2>. HIDE DEF t, r, V
  <2>4. \A a, b : Readable(Filled(a, b, r, t)) BY <2>1, <2>2, <2>3, FilledReadable
  <2>. QED BY <2>4 DEF WdsStopNwInterfaceReq, StopNwReq, t, r
<1>. QED BY <1>1, <1>2, <1>3, <1>4, <1>5, <1>6, <1>7, <1>8

\* The data format, with QMAP and without.
LEMMA FormatReadable ==
  ASSUME NEW qmap \in BOOLEAN, NEW version
  PROVE  Readable(WdaSetDataFormat(qmap, version))
<1>. DEFINE V == {"noqos", "ip", version, "datagrams", "size", "hsusb", "padding", "eth", 0}
            e == <<U8(16, "noqos"), U32(17, "eth"), U32(19, 0)>>
            q == <<U8(16, "noqos"), U32(17, "ip"), U32(18, version), U32(19, version),
                   U32(21, "datagrams"), U32(22, "size"), Endpoint(23, "hsusb"),
                   U32(25, "padding"), U32(27, "datagrams"), U32(28, "size")>>
<1>0. <<>> \in Seq(Tlv(V)) OBVIOUS
<1>1. e \in Seq(Tlv(V)) /\ Len(e) = 3 BY FieldsType
<1>2. \A i \in 1..Len(e) : e[i].len = <<1, 4, 4>>[i] BY DEF U8, U32
<1>3. q \in Seq(Tlv(V)) /\ Len(q) = 10 BY FieldsType
<1>4. \A i \in 1..Len(q) : q[i].len = <<1, 4, 4, 4, 4, 4, 8, 4, 4, 4>>[i] BY DEF U8, U32, Endpoint
<1>5. /\ <<1, 4, 4>> \in Seq(Nat) /\ Len(<<1, 4, 4>>) = 3
      /\ <<1, 4, 4, 4, 4, 4, 8, 4, 4, 4>> \in Seq(Nat)
      /\ Len(<<1, 4, 4, 4, 4, 4, 8, 4, 4, 4>>) = 10
  OBVIOUS
<1>. HIDE DEF V, e, q
<1>6. Readable(Filled("WDA", "SetDataFormat", EthDataFormatReq, e))
  BY <1>0, <1>1, <1>2, <1>5, ReadableMessage DEF EthDataFormatReq
<1>7. Readable(Filled("WDA", "SetDataFormat", SetDataFormatReq, q))
  BY <1>0, <1>3, <1>4, <1>5, ReadableMessage DEF SetDataFormatReq
<1>. QED BY <1>6, <1>7 DEF WdaSetDataFormat, e, q

\* The PIN, to either service: the struct of the UIM service has a byte for it.
LEMMA PinReadable ==
  ASSUME NEW pin, Len(pin) \in Nat
  PROVE  Readable(DmsUIMVerifyPinReqSend(pin)) /\ Readable(UimVerifyPinReqSend(pin))
<1>. DEFINE V == {pin, "session"}
            dr == <<2 + Len(pin)>>
            ur == <<2, 2 + Len(pin)>>
            d == <<PinField(1, pin)>>
            u == <<[type |-> 1, len |-> 2, val |-> "session"], PinField(2, pin)>>
<1>0. <<>> \in Seq(Tlv(V)) OBVIOUS
<1>1. d \in Seq(Tlv(V)) /\ Len(d) = 1 BY FieldsType
<1>2. u \in Seq(Tlv(V)) /\ Len(u) = 2
  <2>1. [type |-> 1, len |-> 2, val |-> "session"] \in Tlv(V) BY DEF Tlv
  <2>2. PinField(2, pin) \in Tlv(V) BY FieldsType
  <2>. QED BY <2>1, <2>2
<1>3. 3 + (Len(pin) - 1) = 2 + Len(pin) /\ 2 + Len(pin) \in Nat OBVIOUS
<1>4. \A i \in 1..Len(d) : d[i].len = dr[i] BY DEF PinField
<1>5. \A i \in 1..Len(u) : u[i].len = ur[i] BY DEF PinField
<1>8. dr \in Seq(Nat) /\ Len(dr) = 1 /\ ur \in Seq(Nat) /\ Len(ur) = 2 BY <1>3
<1>. HIDE DEF V, d, u, dr, ur
<1>6. Readable(Filled("DMS", "VerifyPin", dr, d)) BY <1>1, <1>4, <1>8, FilledReadable
<1>7. Readable(Filled("UIM", "VerifyPin", ur, u)) BY <1>2, <1>5, <1>8, FilledReadable
<1>. QED BY <1>3, <1>6, <1>7
       DEF dr, ur, DmsUIMVerifyPinReqSend, UimVerifyPinReqSend, DmsVerifyPinReq, UimVerifyPinReq, d, u

\* The call, whatever is given of APN, user and password.
LEMMA StartReadable ==
  ASSUME NEW service, NEW c, NEW cdma \in BOOLEAN, NEW family,
         {Len(c.apn), Len(c.user), Len(c.password), Len("ctnet@mycdma.cn"), Len("vnet.mobi")}
           \subseteq Nat
  PROVE  Readable(WdsStartNwInterfaceReq(service, c, cdma, family))
<1>. DEFINE ct == cdma /\ Empty(c.user) /\ Empty(c.password)
            user == IF ct THEN "ctnet@mycdma.cn" ELSE c.user
            password == IF ct THEN "vnet.mobi" ELSE c.password
            auth == IF ct THEN 2 ELSE c.auth
            tech == IF cdma THEN 2 ELSE 1
            V == {c.apn, user, password, auth, tech, family, c.pdp}
            t1 == <<U8(48, tech)>>
            t2 == If(c.apn # Null /\ ~cdma, Text(20, c.apn))
            t3 == If(user # Null, Text(23, user))
            t4 == If(password # Null, Text(24, password))
            t5 == If(user # Null /\ password # Null, U8(22, auth))
            t6 == <<U8(25, family)>>
            t7 == If(~cdma, U8(49, c.pdp))
            more == t1 \o t2 \o t3 \o t4 \o t5 \o t6 \o t7
<1>0. <<>> \in Seq(Tlv(V)) /\ <<>> \in Seq(Nat) /\ Len(<<>>) = 0 OBVIOUS
<1>1. Len(user) \in Nat /\ Len(password) \in Nat OBVIOUS
<1>. HIDE DEF ct, user, password, auth, tech
<1>2. {c.apn, user, password, auth, tech, family, c.pdp} = V OBVIOUS
<1>. HIDE DEF V
<1>3. t1 \in Seq(Tlv(V)) /\ t6 \in Seq(Tlv(V)) BY <1>2, FieldsType
<1>4. t2 \in Seq(Tlv(V))
  <2>1. Text(20, c.apn) \in Tlv(V) BY <1>2, FieldsType
  <2>. QED BY <2>1, IfType
<1>5. t3 \in Seq(Tlv(V))
  <2>1. Text(23, user) \in Tlv(V) BY <1>1, <1>2, FieldsType
  <2>. QED BY <2>1, IfType
<1>6. t4 \in Seq(Tlv(V))
  <2>1. Text(24, password) \in Tlv(V) BY <1>1, <1>2, FieldsType
  <2>. QED BY <2>1, IfType
<1>7. t5 \in Seq(Tlv(V))
  <2>1. U8(22, auth) \in Tlv(V) BY <1>2, FieldsType
  <2>. QED BY <2>1, IfType
<1>8. t7 \in Seq(Tlv(V))
  <2>1. U8(49, c.pdp) \in Tlv(V) BY <1>2, FieldsType
  <2>. QED BY <2>1, IfType
<1>. HIDE DEF t1, t2, t3, t4, t5, t6, t7
<1>9. more \in Seq(Tlv(V)) BY <1>3, <1>4, <1>5, <1>6, <1>7, <1>8
<1>. HIDE DEF more
<1>. DEFINE e == <<>>
<1>11. e \in Seq(Tlv(V)) /\ e \in Seq(Nat) /\ Len(e) = 0 OBVIOUS
<1>. HIDE DEF e
<1>12. \A i \in 1..Len(e) : e[i].len = e[i] BY <1>11
<1>10. Readable(Appended(service, "StartNw", e, e, more))
  BY <1>9, <1>11, <1>12, ReadableMessage
<1>. QED BY <1>10
       DEF WdsStartNwInterfaceReq, StartNwReq, e, more, t1, t2, t3, t4, t5, t6, t7, ct, user, password, auth, tech

\* The profile, likewise.
LEMMA ModifyReadable ==
  ASSUME NEW c, NEW iptype, {Len(c.apn), Len(c.user), Len(c.password)} \subseteq Nat
  PROVE  Readable(WdsModifyProfileSettingsReq(c, iptype))
<1>. DEFINE V == {c.pdp, iptype, c.apn, c.user, c.password, c.auth}
            t0 == <<ProfileField(c.pdp)>>
            t1 == <<U8(17, iptype)>>
            t2 == If(c.apn # Null, Text(20, c.apn))
            t3 == If(c.user # Null, Text(27, c.user))
            t4 == If(c.password # Null, Text(28, c.password))
            t5 == If(c.user # Null /\ c.password # Null, U8(29, c.auth))
            more == t1 \o t2 \o t3 \o t4 \o t5
<1>1. t0 \in Seq(Tlv(V)) /\ Len(t0) = 1 BY DEF ProfileField, Tlv
<1>. DEFINE r == <<2>>
<1>2. \A i \in 1..Len(t0) : t0[i].len = r[i] BY DEF ProfileField
<1>10. r \in Seq(Nat) /\ Len(r) = 1 OBVIOUS
<1>3. t1 \in Seq(Tlv(V)) BY FieldsType
<1>4. t2 \in Seq(Tlv(V))
  <2>1. Text(20, c.apn) \in Tlv(V) BY FieldsType
  <2>. QED BY <2>1, IfType
<1>5. t3 \in Seq(Tlv(V))
  <2>1. Text(27, c.user) \in Tlv(V) BY FieldsType
  <2>. QED BY <2>1, IfType
<1>6. t4 \in Seq(Tlv(V))
  <2>1. Text(28, c.password) \in Tlv(V) BY FieldsType
  <2>. QED BY <2>1, IfType
<1>7. t5 \in Seq(Tlv(V))
  <2>1. U8(29, c.auth) \in Tlv(V) BY FieldsType
  <2>. QED BY <2>1, IfType
<1>. HIDE DEF V, t0, t1, t2, t3, t4, t5
<1>8. more \in Seq(Tlv(V)) BY <1>3, <1>4, <1>5, <1>6, <1>7
<1>. HIDE DEF more
<1>. HIDE DEF r
<1>9. Readable(Appended("WDS", "ModifyProfile", r, t0, more))
  BY <1>1, <1>2, <1>8, <1>10, ReadableMessage
<1>. QED BY <1>9 DEF r, WdsModifyProfileSettingsReq, ModifyProfileReq, t0, more, t1, t2, t3, t4, t5

-----------------------------------------------------------------------------
(* Fields that are looked up                                               *)

\* A least number is the least one.
LEMMA MinIs ==
  ASSUME NEW S \in SUBSET Nat, NEW x \in S, \A y \in S : x =< y
  PROVE  Min(S) = x
<1>1. \A y \in S : (\A z \in S : y =< z) => y = x OBVIOUS
<1>. QED BY <1>1 DEF Min

Has(tlvs, type) == \E i \in DOMAIN tlvs : tlvs[i].type = type

\* The first field of a type is the one that is found.
LEMMA TlvAt ==
  ASSUME NEW tlvs, NEW type, NEW i \in DOMAIN tlvs, DOMAIN tlvs \subseteq Nat,
         tlvs[i].type = type, \A j \in DOMAIN tlvs : tlvs[j].type = type => i =< j
  PROVE  GetTLV(tlvs, type) = tlvs[i]
<1>. DEFINE of == {j \in DOMAIN tlvs : tlvs[j].type = type}
<1>1. of \in SUBSET Nat /\ i \in of /\ \A j \in of : i =< j OBVIOUS
<1>. HIDE DEF of
<1>2. Min(of) = i BY <1>1, MinIs
<1>3. of # {} BY <1>1
<1>. QED BY <1>2, <1>3 DEF GetTLV, of

\* If there is one, there is a first.
LEMMA TlvFirst ==
  ASSUME NEW tlvs, NEW type, DOMAIN tlvs \subseteq Nat, Has(tlvs, type)
  PROVE  \E i \in DOMAIN tlvs :
           /\ tlvs[i].type = type /\ GetTLV(tlvs, type) = tlvs[i]
           /\ \A j \in DOMAIN tlvs : tlvs[j].type = type => i =< j
<1>. DEFINE T == {j \in DOMAIN tlvs : tlvs[j].type = type}
<1>1. T \in SUBSET Nat /\ T # {} BY DEF Has
<1>2. PICK i \in T : \A j \in T : i =< j BY <1>1, LeastNumber, Zenon
<1>3. i \in DOMAIN tlvs /\ tlvs[i].type = type
  BY <1>2
<1>4. \A j \in DOMAIN tlvs : tlvs[j].type = type => i =< j
  BY <1>2
<1>5. GetTLV(tlvs, type) = tlvs[i] BY <1>3, <1>4, TlvAt
<1>. QED BY <1>3, <1>4, <1>5

\* None is found where there is none.
LEMMA TlvNone ==
  ASSUME NEW tlvs, NEW type, ~Has(tlvs, type)
  PROVE  GetTLV(tlvs, type) = Absent
BY DEF Has, GetTLV

\* One field is found by its type.
LEMMA TlvOne ==
  ASSUME NEW t
  PROVE  /\ GetTLV(<<t>>, t.type) = t
         /\ \A type : Has(<<t>>, type) <=> type = t.type
<1>. DEFINE s == <<t>>
<1>1. DOMAIN s = {1} /\ s[1] = t OBVIOUS
<1>. HIDE DEF s
<1>2. \A type : Has(s, type) <=> type = t.type BY <1>1 DEF Has
<1>3. \A j \in DOMAIN s : 1 =< j BY <1>1
<1>4. GetTLV(s, t.type) = t BY <1>1, <1>3, TlvAt
<1>. QED BY <1>2, <1>4 DEF s

\* One that is there on a condition.
LEMMA TlvIf ==
  ASSUME NEW t, NEW cond \in BOOLEAN
  PROVE  /\ cond => GetTLV(If(cond, t), t.type) = t
         /\ \A type : Has(If(cond, t), type) <=> cond /\ type = t.type
<1>1. \A type : ~Has(<<>>, type) BY DEF Has
<1>2. CASE cond BY <1>2, TlvOne DEF If
<1>3. CASE ~cond BY <1>1, <1>3 DEF If
<1>. QED BY <1>2, <1>3

\* Fields that follow others are found if those have none of the type.
LEMMA TlvConcat ==
  ASSUME NEW V, NEW a \in Seq(Tlv(V)), NEW b \in Seq(Tlv(V)), NEW type
  PROVE  /\ Has(a \o b, type) <=> Has(a, type) \/ Has(b, type)
         /\ Has(a, type) => GetTLV(a \o b, type) = GetTLV(a, type)
         /\ ~Has(a, type) => GetTLV(a \o b, type) = GetTLV(b, type)
<1>. DEFINE c == a \o b
<1>1. /\ Len(a) \in Nat /\ DOMAIN a = 1..Len(a) /\ Len(b) \in Nat /\ DOMAIN b = 1..Len(b)
      /\ DOMAIN c = 1..(Len(a) + Len(b))
      /\ \A i \in 1..Len(a) : c[i] = a[i]
      /\ \A i \in 1..Len(b) : c[Len(a) + i] = b[i]
      /\ \A i \in 1..Len(b) : Len(a) + i \in DOMAIN c
      /\ \A i \in 1..Len(a) : i \in DOMAIN c
      /\ \A i \in DOMAIN c : \/ i \in 1..Len(a)
                             \/ i - Len(a) \in 1..Len(b) /\ Len(a) + (i - Len(a)) = i
      /\ DOMAIN c \subseteq Nat /\ DOMAIN a \subseteq Nat /\ DOMAIN b \subseteq Nat
  OBVIOUS
<1>. HIDE DEF c
<1>2. Has(c, type) <=> Has(a, type) \/ Has(b, type)
  <2>1. Has(a, type) \/ Has(b, type) => Has(c, type) BY <1>1 DEF Has
  <2>2. ASSUME NEW i \in DOMAIN c, c[i].type = type PROVE Has(a, type) \/ Has(b, type)
    <3>1. CASE i \in 1..Len(a) BY <1>1, <2>2, <3>1 DEF Has
    <3>2. CASE i - Len(a) \in 1..Len(b) BY <1>1, <2>2, <3>2 DEF Has
    <3>. QED BY <1>1, <3>1, <3>2
  <2>. QED BY <2>1, <2>2 DEF Has
<1>3. ASSUME Has(a, type) PROVE GetTLV(c, type) = GetTLV(a, type)
  <2>1. DOMAIN a \subseteq Nat BY <1>1
  <2>2. PICK i \in DOMAIN a :
          /\ a[i].type = type /\ GetTLV(a, type) = a[i]
          /\ \A j \in DOMAIN a : a[j].type = type => i =< j
    BY <1>3, <2>1, TlvFirst
  <2>3. i \in DOMAIN a /\ a[i].type = type /\ \A j \in DOMAIN a : a[j].type = type => i =< j
    BY <2>2
  <2>4. GetTLV(a, type) = a[i] BY <2>2
  <2>5. ASSUME NEW j \in DOMAIN c, c[j].type = type PROVE i =< j
    <3>1. CASE j \in 1..Len(a) BY <1>1, <2>3, <2>5, <3>1
    <3>2. CASE j - Len(a) \in 1..Len(b) BY <1>1, <2>3, <3>2
    <3>. QED BY <1>1, <3>1, <3>2
  <2>6. i \in DOMAIN c /\ c[i] = a[i] BY <1>1, <2>3
  <2>7. GetTLV(c, type) = c[i]
    <3>1. c[i].type = type /\ DOMAIN c \subseteq Nat BY <1>1, <2>3, <2>6
    <3>. HIDE DEF c
    <3>. QED BY <2>5, <2>6, <3>1, TlvAt
  <2>. QED BY <2>4, <2>6, <2>7
<1>4. ASSUME ~Has(a, type), Has(b, type) PROVE GetTLV(c, type) = GetTLV(b, type)
  <2>1. DOMAIN b \subseteq Nat BY <1>1
  <2>2. PICK i \in DOMAIN b :
          /\ b[i].type = type /\ GetTLV(b, type) = b[i]
          /\ \A j \in DOMAIN b : b[j].type = type => i =< j
    BY <1>4, <2>1, TlvFirst
  <2>3. i \in DOMAIN b /\ b[i].type = type /\ \A j \in DOMAIN b : b[j].type = type => i =< j
    BY <2>2
  <2>4. GetTLV(b, type) = b[i] BY <2>2
  <2>5. Len(a) + i \in DOMAIN c /\ c[Len(a) + i] = b[i] BY <1>1, <2>3
  <2>6. ASSUME NEW j \in DOMAIN c, c[j].type = type PROVE Len(a) + i =< j
    <3>1. CASE j \in 1..Len(a) BY <1>1, <1>4, <2>6, <3>1 DEF Has
    <3>2. CASE j - Len(a) \in 1..Len(b)
      <4>1. b[j - Len(a)].type = type BY <1>1, <2>6, <3>2
      <4>2. i =< j - Len(a) BY <1>1, <2>3, <3>2, <4>1
      <4>. QED BY <1>1, <2>3, <3>2, <4>2
    <3>. QED BY <1>1, <3>1, <3>2
  <2>. DEFINE k == Len(a) + i
  <2>7. k \in DOMAIN c /\ c[k] = b[i] /\ DOMAIN c \subseteq Nat
        /\ \A j \in DOMAIN c : c[j].type = type => k =< j
    BY <1>1, <2>5, <2>6
  <2>. HIDE DEF k
  <2>8. GetTLV(c, type) = c[k] BY <2>3, <2>7, TlvAt
  <2>. QED BY <2>4, <2>7, <2>8
<1>5. ASSUME ~Has(a, type), ~Has(b, type) PROVE GetTLV(c, type) = GetTLV(b, type)
  BY <1>2, <1>5, TlvNone
<1>. QED BY <1>2, <1>3, <1>4, <1>5 DEF c

\* The same of all types at once.
LEMMA TlvChoice ==
  ASSUME NEW V, NEW a \in Seq(Tlv(V)), NEW b \in Seq(Tlv(V))
  PROVE  \A type : /\ Has(a \o b, type) <=> Has(a, type) \/ Has(b, type)
                   /\ GetTLV(a \o b, type) =
                        IF Has(a, type) THEN GetTLV(a, type) ELSE GetTLV(b, type)
<1>. TAKE type
<1>1. /\ Has(a \o b, type) <=> Has(a, type) \/ Has(b, type)
      /\ Has(a, type) => GetTLV(a \o b, type) = GetTLV(a, type)
      /\ ~Has(a, type) => GetTLV(a \o b, type) = GetTLV(b, type)
  BY TlvConcat
<1>. QED BY <1>1

-----------------------------------------------------------------------------
(* What the modem makes of a request that it can read                      *)

\* The modem handles each kind of request in its own way.
LEMMA ReplyIs ==
  ASSUME NEW m, Readable(m), m.service # "UIM" \/ modem.gen # "old"
  PROVE  /\ m.req = "SetDataFormat" => Reply(m) = SetLink(m)
         /\ m.req = "BindMux" => Reply(m) = Ok([modem EXCEPT !.mux[m.service] = Value(m, 17)], <<>>)
         /\ m.req = "FamilyPref" =>
              Reply(m) = Ok([modem EXCEPT !.family[m.service] = Value(m, 1)], <<>>)
         /\ m.req = "AutoConnect" => Reply(m) = Ok(modem, <<>>)
         /\ m.req = "SetLoopBack" =>
              Reply(m) = IF modem.gen = "both" THEN Refused("invalid")
                         ELSE Ok([modem EXCEPT !.loop = "pending"], <<>>)
         /\ m.req = "CardStatus" =>
              Reply(m) = IF modem.busy THEN [Refused("unsupported") EXCEPT !.modem.busy = FALSE]
                         ELSE Ok(modem, <<[type |-> 16, len |-> 30, val |-> modem.pin]>>)
         /\ m.req = "UimState" =>
              Reply(m) = IF modem.busy THEN [Refused("unsupported") EXCEPT !.modem.busy = FALSE]
                         ELSE Ok(modem, <<U8(1, modem.pin)>>)
         /\ m.req = "PinStatus" =>
              Reply(m) = Ok(modem, <<[type |-> 17, len |-> 3, val |-> modem.pin]>>)
         /\ m.req = "VerifyPin" => Reply(m) = TryPin(m)
BY DEF Reply

\* Profile, registration and call likewise.
LEMMA ReplyIsToo ==
  ASSUME NEW m, Readable(m), m.service # "UIM"
  PROVE  /\ m.req = "GetProfile" =>
              Reply(m) = IF modem.profile = NoProfile THEN Refused("extended")
                         ELSE Ok(modem, <<[type |-> 1, len |-> 0, val |-> modem.profile]>>)
         /\ m.req = "CreateProfile" => Reply(m) = Ok([modem EXCEPT !.profile = Blank], <<>>)
         /\ m.req = "ModifyProfile" =>
              Reply(m) = Ok([modem EXCEPT !.profile =
                               [apn |-> Value(m, 20), user |-> Value(m, 27),
                                password |-> Value(m, 28), auth |-> Value(m, 29),
                                iptype |-> Value(m, 17)]], <<>>)
         /\ m.req = "SysInfo" =>
              Reply(m) = IF modem.gen = "old" THEN Refused("invalid")
                         ELSE Ok(modem, IF modem.attached THEN reg ELSE <<"other">>)
         /\ m.req = "ServingSystem" => Reply(m) = Ok(modem, Serving)
         /\ m.req = "StartNw" => Reply(m) = StartCall(m)
         /\ m.req = "RuntimeSettings" => Reply(m) = Ok(modem, <<U32(30, "address")>>)
BY DEF Reply

\* A request is answered as the modem replies, or it costs a fault, whether or not
\* the modem acted, and is remembered.
LEMMA Asked ==
  ASSUME NEW m, NEW out \in Outcomes(m), Request(m, out), faults \in 0..MaxFaults
  PROVE  /\ UNCHANGED <<chosen, session, driver>> /\ modem' = out.r.modem
         /\ faults' \in 0..MaxFaults
         /\ \A x \in trouble : x \in trouble'
         /\ \/ out.r = Reply(m)
            \/ /\ out.r.err = "timeout" /\ out.r.tlvs = <<>> /\ out.r.modem \in {modem, Reply(m).modem}
               /\ m.req \in trouble'
<1>1. \/ out.r = Reply(m) /\ out.cost = 0
      \/ /\ out.r.err = "timeout" /\ out.r.tlvs = <<>> /\ out.r.modem \in {modem, Reply(m).modem}
         /\ out.cost = 1 /\ faults < MaxFaults
  BY DEF Outcomes
<1>2. faults' \in 0..MaxFaults BY <1>1, BoundsAssumption DEF Request
<1>3. out.r.err = "timeout" => m.req \in trouble' BY DEF Request
<1>4. \A x \in trouble : x \in trouble' BY DEF Request
<1>. QED BY <1>1, <1>2, <1>3, <1>4 DEF Request

\* What the modem reads in requests of few fields.
LEMMA FixedValues ==
  ASSUME NEW v, NEW service, NEW qmap \in BOOLEAN
  PROVE  /\ Value(WdsSetQMUXBindMuxDataPort(service, v), 17) = v
         /\ Value(WdaSetDataFormat(qmap, v), 17) = (IF qmap THEN "ip" ELSE "eth")
         /\ Value(WdaSetDataFormat(qmap, v), 19) = (IF qmap THEN v ELSE 0)
<1>1. Value(WdsSetQMUXBindMuxDataPort(service, v), 17) = v
  <2>. DEFINE t == <<Endpoint(16, "hsusb"), U8(17, v), U32(19, "tethered")>>
  <2>1. /\ DOMAIN t = 1..3 /\ 1..3 \subseteq Nat
        /\ t[1].type = 16 /\ t[2].type = 17 /\ t[3].type = 19 /\ t[2].val = v
    BY DEF Endpoint, U8, U32
  <2>. HIDE DEF t
  <2>2. \A j \in DOMAIN t : t[j].type = 17 => 2 =< j BY <2>1
  <2>3. GetTLV(t, 17) = t[2] BY <2>1, <2>2, TlvAt
  <2>. QED BY <2>1, <2>3 DEF Value, WdsSetQMUXBindMuxDataPort, Filled, ComposeQMUXMsg, t
<1>2. qmap => /\ Value(WdaSetDataFormat(qmap, v), 17) = "ip"
              /\ Value(WdaSetDataFormat(qmap, v), 19) = v
  <2>. DEFINE t == <<U8(16, "noqos"), U32(17, "ip"), U32(18, v), U32(19, v),
                     U32(21, "datagrams"), U32(22, "size"), Endpoint(23, "hsusb"),
                     U32(25, "padding"), U32(27, "datagrams"), U32(28, "size")>>
  <2>1. /\ DOMAIN t = 1..10 /\ 1..10 \subseteq Nat
        /\ t[1].type = 16 /\ t[2].type = 17 /\ t[3].type = 18 /\ t[4].type = 19
        /\ t[2].val = "ip" /\ t[4].val = v
    BY DEF Endpoint, U8, U32
  <2>. HIDE DEF t
  <2>2. /\ \A j \in DOMAIN t : t[j].type = 17 => 2 =< j
        /\ \A j \in DOMAIN t : t[j].type = 19 => 4 =< j
    BY <2>1
  <2>3. GetTLV(t, 17) = t[2] BY <2>1, <2>2, TlvAt
  <2>4. GetTLV(t, 19) = t[4] BY <2>1, <2>2, TlvAt
  <2>. QED BY <2>1, <2>3, <2>4 DEF Value, WdaSetDataFormat, Filled, ComposeQMUXMsg, t
<1>3. ~qmap => /\ Value(WdaSetDataFormat(qmap, v), 17) = "eth"
               /\ Value(WdaSetDataFormat(qmap, v), 19) = 0
  <2>. DEFINE t == <<U8(16, "noqos"), U32(17, "eth"), U32(19, 0)>>
  <2>1. /\ DOMAIN t = 1..3 /\ 1..3 \subseteq Nat
        /\ t[1].type = 16 /\ t[2].type = 17 /\ t[3].type = 19
        /\ t[2].val = "eth" /\ t[3].val = 0
    BY DEF U8, U32
  <2>. HIDE DEF t
  <2>2. /\ \A j \in DOMAIN t : t[j].type = 17 => 2 =< j
        /\ \A j \in DOMAIN t : t[j].type = 19 => 3 =< j
    BY <2>1
  <2>3. GetTLV(t, 17) = t[2] BY <2>1, <2>2, TlvAt
  <2>4. GetTLV(t, 19) = t[3] BY <2>1, <2>2, TlvAt
  <2>. QED BY <2>1, <2>3, <2>4 DEF Value, WdaSetDataFormat, Filled, ComposeQMUXMsg, t
<1>. QED BY <1>1, <1>2, <1>3

\* What it reads in the request for a call: a text that is not given reads as none.
LEMMA StartValues ==
  ASSUME NEW service, NEW c, NEW cdma \in BOOLEAN, NEW family,
         {Len(c.apn), Len(c.user), Len(c.password), Len("ctnet@mycdma.cn"), Len("vnet.mobi")}
           \subseteq Nat,
         Empty(c.user) => Empty(c.password)
  PROVE  LET m == WdsStartNwInterfaceReq(service, c, cdma, family)
         IN /\ Value(m, 48) = (IF cdma THEN 2 ELSE 1)
            /\ Value(m, 20) = (IF cdma THEN Null ELSE c.apn)
            /\ Value(m, 23) = (IF cdma /\ Empty(c.user) THEN "ctnet@mycdma.cn" ELSE c.user)
            /\ Number(m, 49) = (IF cdma THEN 0 ELSE c.pdp)
<1>. DEFINE ct == cdma /\ Empty(c.user) /\ Empty(c.password)
            user == IF ct THEN "ctnet@mycdma.cn" ELSE c.user
            password == IF ct THEN "vnet.mobi" ELSE c.password
            auth == IF ct THEN 2 ELSE c.auth
            tech == IF cdma THEN 2 ELSE 1
            V == {c.apn, user, password, auth, tech, family, c.pdp}
            t0 == <<>>
            t1 == <<U8(48, tech)>>
            t2 == If(c.apn # Null /\ ~cdma, Text(20, c.apn))
            t3 == If(user # Null, Text(23, user))
            t4 == If(password # Null, Text(24, password))
            t5 == If(user # Null /\ password # Null, U8(22, auth))
            t6 == <<U8(25, family)>>
            t7 == If(~cdma, U8(49, c.pdp))
            s2 == t1 \o t2
            s3 == s2 \o t3
            s4 == s3 \o t4
            s5 == s4 \o t5
            s6 == s5 \o t6
            s7 == s6 \o t7
            s == t0 \o s7
            m == WdsStartNwInterfaceReq(service, c, cdma, family)
<1>1. m.tlvs = s BY DEF WdsStartNwInterfaceReq, Appended, ComposeQMUXMsg
<1>. HIDE DEF m
<1>2. Len(user) \in Nat /\ Len(password) \in Nat OBVIOUS
<1>3. user = IF cdma /\ Empty(c.user) THEN "ctnet@mycdma.cn" ELSE c.user OBVIOUS
<1>4. tech = IF cdma THEN 2 ELSE 1 OBVIOUS
<1>. HIDE DEF ct, user, password, auth, tech
<1>5. {c.apn, user, password, auth, tech, family, c.pdp} = V OBVIOUS
<1>. HIDE DEF V
<1>6. /\ U8(48, tech) \in Tlv(V) /\ Text(20, c.apn) \in Tlv(V) /\ Text(23, user) \in Tlv(V)
      /\ Text(24, password) \in Tlv(V) /\ U8(22, auth) \in Tlv(V) /\ U8(25, family) \in Tlv(V)
      /\ U8(49, c.pdp) \in Tlv(V)
  BY <1>2, <1>5, FieldsType
<1>7. /\ U8(48, tech).type = 48 /\ Text(20, c.apn).type = 20 /\ Text(23, user).type = 23
      /\ Text(24, password).type = 24 /\ U8(22, auth).type = 22 /\ U8(25, family).type = 25
      /\ U8(49, c.pdp).type = 49
      /\ U8(48, tech).val = tech /\ Text(20, c.apn).val = c.apn /\ Text(23, user).val = user
      /\ U8(49, c.pdp).val = c.pdp /\ U8(49, c.pdp).len = 1
  BY DEF U8, Text
<1>8. /\ t0 \in Seq(Tlv(V)) /\ t1 \in Seq(Tlv(V)) /\ t2 \in Seq(Tlv(V)) /\ t3 \in Seq(Tlv(V))
      /\ t4 \in Seq(Tlv(V)) /\ t5 \in Seq(Tlv(V)) /\ t6 \in Seq(Tlv(V)) /\ t7 \in Seq(Tlv(V))
  <2>1. t0 \in Seq(Tlv(V)) /\ t1 \in Seq(Tlv(V)) /\ t6 \in Seq(Tlv(V)) BY <1>6
  <2>2. t2 \in Seq(Tlv(V)) /\ t3 \in Seq(Tlv(V)) BY <1>6, IfType
  <2>3. t4 \in Seq(Tlv(V)) /\ t5 \in Seq(Tlv(V)) /\ t7 \in Seq(Tlv(V)) BY <1>6, IfType
  <2>. QED BY <2>1, <2>2, <2>3
<1>9. \A type : /\ ~Has(t0, type) /\ (Has(t1, type) <=> type = 48)
                /\ (Has(t2, type) <=> c.apn # Null /\ ~cdma /\ type = 20)
                /\ (Has(t3, type) <=> user # Null /\ type = 23)
                /\ (Has(t4, type) <=> password # Null /\ type = 24)
                /\ (Has(t5, type) <=> user # Null /\ password # Null /\ type = 22)
                /\ (Has(t6, type) <=> type = 25)
                /\ (Has(t7, type) <=> ~cdma /\ type = 49)
  <2>1. \A type : ~Has(t0, type) BY DEF Has
  <2>2. \A type : Has(t1, type) <=> type = 48
    <3>1. \A type : Has(t1, type) <=> type = U8(48, tech).type BY TlvOne, Zenon
    <3>. QED BY <1>7, <3>1
  <2>3. \A type : Has(t2, type) <=> c.apn # Null /\ ~cdma /\ type = 20
    <3>. DEFINE cond == c.apn # Null /\ ~cdma
    <3>1. cond \in BOOLEAN OBVIOUS
    <3>. HIDE DEF cond
    <3>2. \A type : Has(If(cond, Text(20, c.apn)), type) <=> cond /\ type = Text(20, c.apn).type BY <3>1, TlvIf, Zenon
    <3>3. t2 = If(cond, Text(20, c.apn)) BY DEF cond
    <3>. QED BY <1>7, <3>2, <3>3 DEF cond
  <2>4. \A type : Has(t3, type) <=> user # Null /\ type = 23
    <3>. DEFINE cond == user # Null
    <3>1. cond \in BOOLEAN OBVIOUS
    <3>. HIDE DEF cond
    <3>2. \A type : Has(If(cond, Text(23, user)), type) <=> cond /\ type = Text(23, user).type BY <3>1, TlvIf, Zenon
    <3>3. t3 = If(cond, Text(23, user)) BY DEF cond
    <3>. QED BY <1>7, <3>2, <3>3 DEF cond
  <2>5. \A type : Has(t4, type) <=> password # Null /\ type = 24
    <3>. DEFINE cond == password # Null
    <3>1. cond \in BOOLEAN OBVIOUS
    <3>. HIDE DEF cond
    <3>2. \A type : Has(If(cond, Text(24, password)), type) <=> cond /\ type = Text(24, password).type BY <3>1, TlvIf, Zenon
    <3>3. t4 = If(cond, Text(24, password)) BY DEF cond
    <3>. QED BY <1>7, <3>2, <3>3 DEF cond
  <2>6. \A type : Has(t5, type) <=> user # Null /\ password # Null /\ type = 22
    <3>. DEFINE cond == user # Null /\ password # Null
    <3>1. cond \in BOOLEAN OBVIOUS
    <3>. HIDE DEF cond
    <3>2. \A type : Has(If(cond, U8(22, auth)), type) <=> cond /\ type = U8(22, auth).type BY <3>1, TlvIf, Zenon
    <3>3. t5 = If(cond, U8(22, auth)) BY DEF cond
    <3>. QED BY <1>7, <3>2, <3>3 DEF cond
  <2>7. \A type : Has(t6, type) <=> type = 25
    <3>1. \A type : Has(t6, type) <=> type = U8(25, family).type BY TlvOne, Zenon
    <3>. QED BY <1>7, <3>1
  <2>8. \A type : Has(t7, type) <=> ~cdma /\ type = 49
    <3>. DEFINE cond == ~cdma
    <3>1. cond \in BOOLEAN OBVIOUS
    <3>. HIDE DEF cond
    <3>2. \A type : Has(If(cond, U8(49, c.pdp)), type) <=> cond /\ type = U8(49, c.pdp).type BY <3>1, TlvIf, Zenon
    <3>3. t7 = If(cond, U8(49, c.pdp)) BY DEF cond
    <3>. QED BY <1>7, <3>2, <3>3 DEF cond
  <2>. QED BY <2>1, <2>2, <2>3, <2>4, <2>5, <2>6, <2>7, <2>8
<1>10. /\ GetTLV(t1, 48) = U8(48, tech)
       /\ Has(t2, 20) => GetTLV(t2, 20) = Text(20, c.apn)
       /\ Has(t3, 23) => GetTLV(t3, 23) = Text(23, user)
       /\ Has(t7, 49) => GetTLV(t7, 49) = U8(49, c.pdp)
  <2>1. GetTLV(t1, 48) = U8(48, tech) BY <1>7, TlvOne
  <2>2. Has(t2, 20) => GetTLV(t2, 20) = Text(20, c.apn)
    <3>. DEFINE cond == c.apn # Null /\ ~cdma
    <3>1. cond \in BOOLEAN OBVIOUS
    <3>. HIDE DEF cond
    <3>2. cond => GetTLV(If(cond, Text(20, c.apn)), Text(20, c.apn).type) = Text(20, c.apn) BY <3>1, TlvIf, Zenon
    <3>3. t2 = If(cond, Text(20, c.apn)) BY DEF cond
    <3>. QED BY <1>7, <1>9, <3>2, <3>3 DEF cond
  <2>3. Has(t3, 23) => GetTLV(t3, 23) = Text(23, user)
    <3>. DEFINE cond == user # Null
    <3>1. cond \in BOOLEAN OBVIOUS
    <3>. HIDE DEF cond
    <3>2. cond => GetTLV(If(cond, Text(23, user)), Text(23, user).type) = Text(23, user) BY <3>1, TlvIf, Zenon
    <3>3. t3 = If(cond, Text(23, user)) BY DEF cond
    <3>. QED BY <1>7, <1>9, <3>2, <3>3 DEF cond
  <2>4. Has(t7, 49) => GetTLV(t7, 49) = U8(49, c.pdp)
    <3>. DEFINE cond == ~cdma
    <3>1. cond \in BOOLEAN OBVIOUS
    <3>. HIDE DEF cond
    <3>2. cond => GetTLV(If(cond, U8(49, c.pdp)), U8(49, c.pdp).type) = U8(49, c.pdp) BY <3>1, TlvIf, Zenon
    <3>3. t7 = If(cond, U8(49, c.pdp)) BY DEF cond
    <3>. QED BY <1>7, <1>9, <3>2, <3>3 DEF cond
  <2>. QED BY <2>1, <2>2, <2>3, <2>4
<1>. HIDE DEF t0, t1, t2, t3, t4, t5, t6, t7
<1>11. /\ s2 \in Seq(Tlv(V)) /\ s3 \in Seq(Tlv(V)) /\ s4 \in Seq(Tlv(V)) /\ s5 \in Seq(Tlv(V))
       /\ s6 \in Seq(Tlv(V)) /\ s7 \in Seq(Tlv(V))
  BY <1>8
<1>12. \A type : /\ (Has(s2, type) <=> Has(t1, type) \/ Has(t2, type))
                 /\ GetTLV(s2, type) = IF Has(t1, type) THEN GetTLV(t1, type) ELSE GetTLV(t2, type)
  <2>1. t1 \in Seq(Tlv(V)) /\ t2 \in Seq(Tlv(V)) BY <1>8
  <2>. QED BY <2>1, TlvChoice
<1>. HIDE DEF s2
<1>13. \A type : /\ (Has(s3, type) <=> Has(s2, type) \/ Has(t3, type))
                 /\ GetTLV(s3, type) = IF Has(s2, type) THEN GetTLV(s2, type) ELSE GetTLV(t3, type)
  <2>1. s2 \in Seq(Tlv(V)) /\ t3 \in Seq(Tlv(V)) BY <1>8, <1>11
  <2>. QED BY <2>1, TlvChoice
<1>. HIDE DEF s3
<1>14. \A type : /\ (Has(s4, type) <=> Has(s3, type) \/ Has(t4, type))
                 /\ GetTLV(s4, type) = IF Has(s3, type) THEN GetTLV(s3, type) ELSE GetTLV(t4, type)
  <2>1. s3 \in Seq(Tlv(V)) /\ t4 \in Seq(Tlv(V)) BY <1>8, <1>11
  <2>. QED BY <2>1, TlvChoice
<1>. HIDE DEF s4
<1>15. \A type : /\ (Has(s5, type) <=> Has(s4, type) \/ Has(t5, type))
                 /\ GetTLV(s5, type) = IF Has(s4, type) THEN GetTLV(s4, type) ELSE GetTLV(t5, type)
  <2>1. s4 \in Seq(Tlv(V)) /\ t5 \in Seq(Tlv(V)) BY <1>8, <1>11
  <2>. QED BY <2>1, TlvChoice
<1>. HIDE DEF s5
<1>16. \A type : /\ (Has(s6, type) <=> Has(s5, type) \/ Has(t6, type))
                 /\ GetTLV(s6, type) = IF Has(s5, type) THEN GetTLV(s5, type) ELSE GetTLV(t6, type)
  <2>1. s5 \in Seq(Tlv(V)) /\ t6 \in Seq(Tlv(V)) BY <1>8, <1>11
  <2>. QED BY <2>1, TlvChoice
<1>. HIDE DEF s6
<1>17. \A type : /\ (Has(s7, type) <=> Has(s6, type) \/ Has(t7, type))
                 /\ GetTLV(s7, type) = IF Has(s6, type) THEN GetTLV(s6, type) ELSE GetTLV(t7, type)
  <2>1. s6 \in Seq(Tlv(V)) /\ t7 \in Seq(Tlv(V)) BY <1>8, <1>11
  <2>. QED BY <2>1, TlvChoice
<1>. HIDE DEF s7
<1>18. \A type : GetTLV(s, type) = GetTLV(s7, type) /\ (Has(s, type) <=> Has(s7, type))
  <2>1. t0 \in Seq(Tlv(V)) /\ s7 \in Seq(Tlv(V)) BY <1>8, <1>11
  <2>2. \A type : ~Has(t0, type) BY <1>9
  <2>3. \A type : /\ (Has(s, type) <=> Has(t0, type) \/ Has(s7, type))
                  /\ GetTLV(s, type) = IF Has(t0, type) THEN GetTLV(t0, type) ELSE GetTLV(s7, type)
    BY <2>1, TlvChoice
  <2>. QED BY <2>2, <2>3
<1>. HIDE DEF s
<1>19. GetTLV(s, 48) = U8(48, tech)
  BY <1>9, <1>10, <1>12, <1>13, <1>14, <1>15, <1>16, <1>17, <1>18
<1>20. GetTLV(s, 20) = IF c.apn # Null /\ ~cdma THEN Text(20, c.apn) ELSE Absent
  <2>1. ~Has(s, 20) => GetTLV(s, 20) = Absent BY TlvNone
  <2>. QED BY <2>1, <1>9, <1>10, <1>12, <1>13, <1>14, <1>15, <1>16, <1>17, <1>18
<1>21. GetTLV(s, 23) = IF user # Null THEN Text(23, user) ELSE Absent
  <2>1. ~Has(s, 23) => GetTLV(s, 23) = Absent BY TlvNone
  <2>. QED BY <2>1, <1>9, <1>10, <1>12, <1>13, <1>14, <1>15, <1>16, <1>17, <1>18
<1>22. GetTLV(s, 49) = IF cdma THEN Absent ELSE U8(49, c.pdp)
  <2>1. ~Has(s, 49) => GetTLV(s, 49) = Absent BY TlvNone
  <2>. QED BY <2>1, <1>9, <1>10, <1>12, <1>13, <1>14, <1>15, <1>16, <1>17, <1>18
<1>23. Absent.val = Null /\ Absent.len = 0 BY DEF Absent
<1>24. Value(m, 48) = tech /\ Value(m, 23) = user
  BY <1>1, <1>7, <1>19, <1>21, <1>23 DEF Value
<1>25. Value(m, 20) = (IF cdma THEN Null ELSE c.apn)
  BY <1>1, <1>7, <1>20, <1>23 DEF Value
<1>26. Number(m, 49) = (IF cdma THEN 0 ELSE c.pdp)
  BY <1>1, <1>7, <1>22, <1>23 DEF Number, Value
<1>. QED BY <1>3, <1>4, <1>24, <1>25, <1>26 DEF m

\* What it reads in the request for a profile with an APN, user and password.
LEMMA ModifyValues ==
  ASSUME NEW c, NEW iptype, {Len(c.apn), Len(c.user), Len(c.password)} \subseteq Nat,
         c.apn # Null, c.user # Null, c.password # Null
  PROVE  LET m == WdsModifyProfileSettingsReq(c, iptype)
         IN /\ Value(m, 17) = iptype /\ Value(m, 20) = c.apn /\ Value(m, 27) = c.user
            /\ Value(m, 28) = c.password /\ Value(m, 29) = c.auth
<1>. DEFINE V == {c.pdp, iptype, c.apn, c.user, c.password, c.auth}
            t0 == <<ProfileField(c.pdp)>>
            t1 == <<U8(17, iptype)>>
            t2 == <<Text(20, c.apn)>>
            t3 == <<Text(27, c.user)>>
            t4 == <<Text(28, c.password)>>
            t5 == <<U8(29, c.auth)>>
            s2 == t1 \o t2
            s3 == s2 \o t3
            s4 == s3 \o t4
            s5 == s4 \o t5
            s == t0 \o s5
            m == WdsModifyProfileSettingsReq(c, iptype)
<1>1. m.tlvs = s BY DEF WdsModifyProfileSettingsReq, Appended, ComposeQMUXMsg, If
<1>. HIDE DEF m
<1>2. {c.pdp, iptype, c.apn, c.user, c.password, c.auth} = V OBVIOUS
<1>. HIDE DEF V
<1>3. /\ U8(17, iptype) \in Tlv(V) /\ Text(20, c.apn) \in Tlv(V) /\ Text(27, c.user) \in Tlv(V)
      /\ Text(28, c.password) \in Tlv(V) /\ U8(29, c.auth) \in Tlv(V)
  BY <1>2, FieldsType
<1>4. ProfileField(c.pdp) \in Tlv(V) BY <1>2 DEF ProfileField, Tlv
<1>5. /\ ProfileField(c.pdp).type = 1 /\ U8(17, iptype).type = 17 /\ Text(20, c.apn).type = 20
      /\ Text(27, c.user).type = 27 /\ Text(28, c.password).type = 28 /\ U8(29, c.auth).type = 29
      /\ U8(17, iptype).val = iptype /\ Text(20, c.apn).val = c.apn
      /\ Text(27, c.user).val = c.user /\ Text(28, c.password).val = c.password
      /\ U8(29, c.auth).val = c.auth
  BY DEF ProfileField, U8, Text
<1>6. /\ t0 \in Seq(Tlv(V)) /\ t1 \in Seq(Tlv(V)) /\ t2 \in Seq(Tlv(V)) /\ t3 \in Seq(Tlv(V))
      /\ t4 \in Seq(Tlv(V)) /\ t5 \in Seq(Tlv(V))
  BY <1>3, <1>4
<1>7. GetTLV(t0, 1) = ProfileField(c.pdp) /\ \A type : Has(t0, type) <=> type = 1
  <2>1. GetTLV(t0, ProfileField(c.pdp).type) = ProfileField(c.pdp) /\ \A type : Has(t0, type) <=> type = ProfileField(c.pdp).type
    BY TlvOne, Zenon
  <2>. QED BY <1>5, <2>1
<1>8. GetTLV(t1, 17) = U8(17, iptype) /\ \A type : Has(t1, type) <=> type = 17
  <2>1. GetTLV(t1, U8(17, iptype).type) = U8(17, iptype) /\ \A type : Has(t1, type) <=> type = U8(17, iptype).type
    BY TlvOne, Zenon
  <2>. QED BY <1>5, <2>1
<1>9. GetTLV(t2, 20) = Text(20, c.apn) /\ \A type : Has(t2, type) <=> type = 20
  <2>1. GetTLV(t2, Text(20, c.apn).type) = Text(20, c.apn) /\ \A type : Has(t2, type) <=> type = Text(20, c.apn).type
    BY TlvOne, Zenon
  <2>. QED BY <1>5, <2>1
<1>10. GetTLV(t3, 27) = Text(27, c.user) /\ \A type : Has(t3, type) <=> type = 27
  <2>1. GetTLV(t3, Text(27, c.user).type) = Text(27, c.user) /\ \A type : Has(t3, type) <=> type = Text(27, c.user).type
    BY TlvOne, Zenon
  <2>. QED BY <1>5, <2>1
<1>11. GetTLV(t4, 28) = Text(28, c.password) /\ \A type : Has(t4, type) <=> type = 28
  <2>1. GetTLV(t4, Text(28, c.password).type) = Text(28, c.password) /\ \A type : Has(t4, type) <=> type = Text(28, c.password).type
    BY TlvOne, Zenon
  <2>. QED BY <1>5, <2>1
<1>12. GetTLV(t5, 29) = U8(29, c.auth) /\ \A type : Has(t5, type) <=> type = 29
  <2>1. GetTLV(t5, U8(29, c.auth).type) = U8(29, c.auth) /\ \A type : Has(t5, type) <=> type = U8(29, c.auth).type
    BY TlvOne, Zenon
  <2>. QED BY <1>5, <2>1
<1>. HIDE DEF t0, t1, t2, t3, t4, t5
<1>13. /\ s2 \in Seq(Tlv(V)) /\ s3 \in Seq(Tlv(V)) /\ s4 \in Seq(Tlv(V)) /\ s5 \in Seq(Tlv(V))
  BY <1>6
<1>14. \A type : /\ (Has(s2, type) <=> Has(t1, type) \/ Has(t2, type))
                 /\ GetTLV(s2, type) = IF Has(t1, type) THEN GetTLV(t1, type) ELSE GetTLV(t2, type)
  <2>1. t1 \in Seq(Tlv(V)) /\ t2 \in Seq(Tlv(V)) BY <1>6
  <2>. QED BY <2>1, TlvChoice
<1>. HIDE DEF s2
<1>15. \A type : /\ (Has(s3, type) <=> Has(s2, type) \/ Has(t3, type))
                 /\ GetTLV(s3, type) = IF Has(s2, type) THEN GetTLV(s2, type) ELSE GetTLV(t3, type)
  <2>1. s2 \in Seq(Tlv(V)) /\ t3 \in Seq(Tlv(V)) BY <1>6, <1>13
  <2>. QED BY <2>1, TlvChoice
<1>. HIDE DEF s3
<1>16. \A type : /\ (Has(s4, type) <=> Has(s3, type) \/ Has(t4, type))
                 /\ GetTLV(s4, type) = IF Has(s3, type) THEN GetTLV(s3, type) ELSE GetTLV(t4, type)
  <2>1. s3 \in Seq(Tlv(V)) /\ t4 \in Seq(Tlv(V)) BY <1>6, <1>13
  <2>. QED BY <2>1, TlvChoice
<1>. HIDE DEF s4
<1>17. \A type : /\ (Has(s5, type) <=> Has(s4, type) \/ Has(t5, type))
                 /\ GetTLV(s5, type) = IF Has(s4, type) THEN GetTLV(s4, type) ELSE GetTLV(t5, type)
  <2>1. s4 \in Seq(Tlv(V)) /\ t5 \in Seq(Tlv(V)) BY <1>6, <1>13
  <2>. QED BY <2>1, TlvChoice
<1>. HIDE DEF s5
<1>18. \A type : GetTLV(s, type) = IF Has(t0, type) THEN GetTLV(t0, type) ELSE GetTLV(s5, type)
  <2>1. t0 \in Seq(Tlv(V)) /\ s5 \in Seq(Tlv(V)) BY <1>6, <1>13
  <2>. QED BY <2>1, TlvChoice
<1>. HIDE DEF s
<1>19. /\ GetTLV(s, 17) = U8(17, iptype) /\ GetTLV(s, 20) = Text(20, c.apn)
       /\ GetTLV(s, 27) = Text(27, c.user) /\ GetTLV(s, 28) = Text(28, c.password)
       /\ GetTLV(s, 29) = U8(29, c.auth)
  BY <1>7, <1>8, <1>9, <1>10, <1>11, <1>12, <1>14, <1>15, <1>16, <1>17, <1>18
<1>. QED BY <1>1, <1>5, <1>19 DEF m, Value

-----------------------------------------------------------------------------
(* The network's account                                                   *)

Kinds == Statuses \cup Infos \cup {"other"}
LteKinds == {"LTE", "NR5G", "LTEinfo"}
CdmaKinds == {"CDMA", "HDR", "CDMAinfo", "HDRinfo"}
Registration == [ps : BOOLEAN, lte : BOOLEAN, cdma : BOOLEAN]

\* One field of the account: LTE is remembered and outweighs CDMA, whichever comes
\* first, and only system information says that there is service.
LEMMA OneKind ==
  ASSUME NEW r \in Registration, NEW kind \in Kinds, NEW next,
         next = SystemInfo(ServiceStatus(r, kind), kind)
  PROVE  /\ next \in Registration
         /\ next.lte <=> r.lte \/ kind \in LteKinds
         /\ next.cdma <=> IF kind \in LteKinds THEN FALSE
                          ELSE IF kind \in CdmaKinds THEN ~r.lte ELSE r.cdma
         /\ next.ps <=> r.ps \/ kind \in Infos
<1>1. kind \in {"CDMA", "HDR", "GSM", "LTE", "NR5G", "CDMAinfo", "HDRinfo", "GSMinfo", "LTEinfo",
                "NR5Ginfo", "other"}
  BY DEF Kinds, Statuses, Infos
<1>. DEFINE s == ServiceStatus(r, kind)
<1>2. /\ s \in Registration /\ s.ps = r.ps
      /\ s.lte = (r.lte \/ kind \in {"LTE", "NR5G"})
      /\ s.cdma = IF kind \in {"LTE", "NR5G"} THEN FALSE
                  ELSE IF kind \in {"CDMA", "HDR"} THEN ~r.lte ELSE r.cdma
  <2>1. CASE kind \in {"CDMA", "HDR"} BY <2>1 DEF ServiceStatus, Registration
  <2>2. CASE kind \in {"LTE", "NR5G"} BY <2>2 DEF ServiceStatus, Registration
  <2>3. CASE kind \notin {"CDMA", "HDR", "LTE", "NR5G"} BY <2>3 DEF ServiceStatus, Registration
  <2>. QED BY <2>1, <2>2, <2>3
<1>3. next = SystemInfo(s, kind) OBVIOUS
<1>. HIDE DEF s
<1>4. CASE kind \in {"CDMAinfo", "HDRinfo"}
  BY <1>2, <1>3, <1>4 DEF SystemInfo, Registration, LteKinds, CdmaKinds, Infos
<1>5. CASE kind \in {"GSMinfo", "NR5Ginfo"}
  BY <1>2, <1>3, <1>5 DEF SystemInfo, Registration, LteKinds, CdmaKinds, Infos
<1>6. CASE kind = "LTEinfo"
  BY <1>2, <1>3, <1>6 DEF SystemInfo, Registration, LteKinds, CdmaKinds, Infos
<1>7. CASE kind \in {"CDMA", "HDR", "GSM", "LTE", "NR5G", "other"}
  <2>1. next = s BY <1>3, <1>7 DEF SystemInfo
  <2>. QED BY <1>2, <1>7, <2>1 DEF Registration, LteKinds, CdmaKinds, Infos
<1>. QED BY <1>1, <1>4, <1>5, <1>6, <1>7

\* The network is CDMA's if some field says so and none says LTE, in whatever order
\* they come; there is service if a field of system information says so.
LEMMA RegistrationIs ==
  ASSUME NEW account \in Seq(Kinds)
  PROVE  LET r == requestRegistrationState2(account)
         IN /\ r \in Registration
            /\ r.cdma <=> /\ \E i \in DOMAIN account : account[i] \in CdmaKinds
                          /\ ~ \E i \in DOMAIN account : account[i] \in LteKinds
            /\ r.ps <=> \E i \in DOMAIN account : account[i] \in Infos
<1>. DEFINE N == Len(account)
            Next1(r, n) == SystemInfo(ServiceStatus(r, account[n]), account[n])
            step == [n \in 1..N |-> [r \in Registration |-> Next1(r, n)]]
            E(f) == f = [n \in 0..N |-> IF n = 0 THEN NoRegistration ELSE Next1(f[n - 1], n)]
            g == CHOOSE f : E(f)
<1>1. N \in Nat /\ DOMAIN account = 1..N /\ \A n \in 1..N : account[n] \in Kinds OBVIOUS
<1>2. NoRegistration \in Registration BY DEF NoRegistration, Registration
<1>3. requestRegistrationState2(account) = g[N] BY DEF requestRegistrationState2
<1>4. \A n \in 1..N : \A r \in Registration : Next1(r, n) \in Registration
  BY <1>1, OneKind
<1>5. ASSUME NEW r \in Registration, NEW n \in 1..N
      PROVE  LET x == Next1(r, n)
             IN /\ x.lte <=> r.lte \/ account[n] \in LteKinds
                /\ x.cdma <=> IF account[n] \in LteKinds THEN FALSE
                              ELSE IF account[n] \in CdmaKinds THEN ~r.lte ELSE r.cdma
                /\ x.ps <=> r.ps \/ account[n] \in Infos
  BY <1>1, OneKind
<1>. HIDE DEF Next1, N
<1>6. step \in [1..N -> [Registration -> Registration]] BY <1>4
<1>7. E(g)
  <2>1. PICK f \in [0..N -> Registration] : Steps(NoRegistration, step, N, f)
    <3>. HIDE DEF step
    <3>. QED BY <1>1, <1>2, <1>6, StepsExist
  <2>2. ASSUME NEW n \in 0..N
        PROVE  f[n] = IF n = 0 THEN NoRegistration ELSE Next1(f[n - 1], n)
    <3>1. CASE n = 0 BY <2>1, <3>1 DEF Steps
    <3>2. CASE n # 0
      <4>1. n \in 1..N /\ n - 1 \in 0..N BY <1>1, <3>2
      <4>2. f[n] = step[n][f[n - 1]] /\ f[n - 1] \in Registration BY <2>1, <4>1 DEF Steps
      <4>. QED BY <3>2, <4>1, <4>2
    <3>. QED BY <3>1, <3>2
  <2>. DEFINE e == [n \in 0..N |-> IF n = 0 THEN NoRegistration ELSE Next1(f[n - 1], n)]
  <2>3. \A n \in 0..N : f[n] = e[n] BY <2>2, Zenon
  <2>4. f = [n \in 0..N |-> f[n]] OBVIOUS
  <2>5. f = e BY <2>3, <2>4
  <2>6. E(f) BY <2>5
  <2>. HIDE DEF E
  <2>. QED BY <2>6
<1>. HIDE DEF g, step
<1>8. g[0] = NoRegistration /\ \A n \in 1..N : g[n] = Next1(g[n - 1], n)
  <2>1. 0 \in 0..N /\ \A n \in 1..N : n \in 0..N /\ n # 0 BY <1>1
  <2>. QED BY <1>7, <2>1
<1>. HIDE DEF E
<1>. DEFINE Some(n, K) == \E i \in 1..n : account[i] \in K
            Good(n) == /\ g[n] \in Registration
                       /\ g[n].lte <=> Some(n, LteKinds)
                       /\ g[n].cdma <=> Some(n, CdmaKinds) /\ ~Some(n, LteKinds)
                       /\ g[n].ps <=> Some(n, Infos)
            T == {n \in 0..N : Good(n)}
<1>9. 0 \in T
  <2>1. \A K : ~Some(0, K) OBVIOUS
  <2>2. 0 \in 0..N BY <1>1
  <2>. QED BY <1>2, <1>8, <2>1, <2>2 DEF NoRegistration
<1>10. ASSUME NEW n \in 1..N, n - 1 \in T PROVE n \in T
  <2>1. /\ n \in 0..N /\ n \in 1..n /\ \A i \in 1..(n - 1) : i \in 1..n
        /\ \A i \in 1..n : i = n \/ i \in 1..(n - 1)
    BY <1>1
  <2>2. \A K : Some(n, K) <=> Some(n - 1, K) \/ account[n] \in K BY <2>1
  <2>. HIDE DEF Some
  <2>3. Good(n - 1) BY <1>10
  <2>4. g[n] = Next1(g[n - 1], n) /\ g[n - 1] \in Registration BY <1>8, <2>3
  <2>5. g[n] \in Registration BY <1>4, <2>4
  <2>6. /\ g[n].lte <=> g[n - 1].lte \/ account[n] \in LteKinds
        /\ g[n].cdma <=> IF account[n] \in LteKinds THEN FALSE
                         ELSE IF account[n] \in CdmaKinds THEN ~g[n - 1].lte ELSE g[n - 1].cdma
        /\ g[n].ps <=> g[n - 1].ps \/ account[n] \in Infos
    BY <1>5, <2>4
  <2>7. Good(n) BY <2>2, <2>3, <2>5, <2>6
  <2>. QED BY <2>1, <2>7
<1>11. Good(N)
  <2>. HIDE DEF T, Good
  <2>1. \A n \in 0..N : n \in T BY <1>1, <1>9, <1>10, Induction
  <2>2. N \in 0..N BY <1>1
  <2>3. N \in T BY <2>1, <2>2
  <2>. QED BY <2>3 DEF T
<1>. QED BY <1>1, <1>3, <1>11

\* What the network's account says is what the program takes it to say; a modem that
\* has not attached says nothing.
LEMMA AccountRead ==
  ASSUME reg \in Seq(Kinds)
  PROVE  /\ requestRegistrationState2(reg).cdma \in BOOLEAN
         /\ requestRegistrationState2(reg).ps \in BOOLEAN
         /\ requestRegistrationState2(reg).cdma = IsCdma
         /\ requestRegistrationState2(<<"other">>).ps = FALSE
         /\ requestRegistrationState2(<<"other">>).cdma \in BOOLEAN
<1>1. \A K : Says(K) <=> \E i \in DOMAIN reg : reg[i] \in K BY DEF Says, Range
<1>2. IsCdma \in BOOLEAN /\ (IsCdma <=> Says(CdmaKinds) /\ ~Says(LteKinds))
  BY DEF IsCdma, CdmaKinds, LteKinds
<1>3. requestRegistrationState2(reg) \in Registration /\ (requestRegistrationState2(reg).cdma <=> IsCdma)
  BY <1>1, <1>2, RegistrationIs
<1>. DEFINE o == <<"other">>
<1>4. o \in Seq(Kinds) BY DEF Kinds
<1>5. ~ \E i \in DOMAIN o : o[i] \in Infos BY DEF Infos
<1>. HIDE DEF o
<1>6. requestRegistrationState2(o) \in Registration /\ ~requestRegistrationState2(o).ps
  BY <1>4, <1>5, RegistrationIs
<1>. QED BY <1>2, <1>3, <1>6 DEF Registration, o

-----------------------------------------------------------------------------
(* The inductive invariant                                                 *)

Services == {"WDS", "WDS6"}
Pieces == {"gen", "card", "pin", "link", "qmap", "mux", "family", "profile", "busy",
           "attached", "call", "loop", "confused"}

\* What the command line can ask for, as far as the requests are made of it: who
\* gives an APN gives user and password, though they may be empty, and no password
\* without a user.
CommandInv ==
  /\ cmd.pin \in Texts /\ cmd.apn \in Texts /\ cmd.user \in Texts /\ cmd.password \in Texts
  /\ cmd.apn # Null => cmd.user # Null /\ cmd.password # Null
  /\ Empty(cmd.user) => Empty(cmd.password)
  /\ cmd.loopback \in BOOLEAN

\* What the network can say of itself.
AccountInv == reg \in Seq(Kinds)

\* Modem and profile keep their parts, and bounds are kept.
Shape ==
  /\ DOMAIN modem = Pieces /\ DOMAIN modem.mux = Services /\ DOMAIN modem.family = Services
  /\ DOMAIN prof = {"qmap", "muxid", "adapter", "rawIP", "loopback", "old", "iptype"}
  /\ pc \in Labels /\ session \in 1..MaxSessions /\ faults \in 0..MaxFaults
  /\ s_9x07 \in BOOLEAN /\ s_is_cdma \in BOOLEAN /\ ps \in BOOLEAN
  /\ prof.rawIP \in BOOLEAN /\ prof.loopback \in BOOLEAN
  /\ sim \in {"SIM_ABSENT", "SIM_READY", "SIM_PIN", "SIM_PUK"}
  /\ driver \in {"eth", "raw"}

\* QMAP is used with the drivers that have it, from the detection on.
Multiplexing == host.driver # "none"
QmapInv ==
  /\ Qmap => Multiplexing
  /\ pc # "detect" => (Multiplexing => Qmap)
  /\ Multiplexing => host.mode # 0
  /\ modem.gen = "old" => ~Multiplexing
  /\ host.wda \in BOOLEAN
  /\ ~host.wda => Multiplexing

Unsettled(kinds) == trouble \cap kinds # {}

\* How the modem frames packets: as its generation does or as it was asked to, unless
\* it was asked and did not answer.
LinkInv ==
  /\ modem.gen = "old" => modem.link = "eth"
  /\ modem.gen = "new" => modem.link = "ip"
  /\ modem.link \in {"eth", "ip"} /\ modem.qmap \in BOOLEAN
  /\ ~host.wda => modem.qmap
  /\ pc \notin {"detect", "format"} /\ "SetDataFormat" \notin trouble =>
       IF Multiplexing THEN modem.qmap ELSE modem.gen \in {"old", "new"} \/ modem.link = "eth"

\* A driver without QMAP is in raw mode only for a modem that always is, after DHCP
\* has failed, or for a modem that was asked for Ethernet and did not answer.
DriverInv ==
  host.driver = "none" =>
    /\ driver = "raw" =>
         \/ modem.gen = "new" \/ Unsettled({"dhcp", "stuck"})
         \/ "SetDataFormat" \in trouble /\ pc = "up" /\ modem.link = "ip"
    /\ pc = "up" /\ ~Unsettled({"dhcp", "stuck"}) => driver = (IF modem.link = "ip" THEN "raw" ELSE "eth")

\* Where a call can have been started.
Dialled == {"loop", "address", "dhcp", "up"}

\* Service is CDMA's or not as the network says, in whatever order it says it;
\* without -l nothing is dialled without service.
ServiceInv ==
  /\ ps => s_is_cdma = IsCdma
  /\ ~cmd.loopback => ~prof.loopback /\ modem.loop = "off"
  /\ modem.call # NoCall => pc \in Dialled

\* The profile was read, and it is the one asked for once it is dialled.
ProfileInv ==
  cmd.apn # Null /\ ~Unsettled({"GetProfile", "CreateProfile", "ModifyProfile"}) =>
    /\ pc = "setprofile" => prof.old = modem.profile
    /\ pc \in {"registration"} \cup Dialled => modem.profile = Wanted

\* The call is what was asked for.
CallInv ==
  modem.call # NoCall /\ ~cmd.loopback =>
    /\ modem.call.tech = (IF IsCdma THEN 2 ELSE 1)
    /\ modem.call.apn = (IF IsCdma THEN Null ELSE cmd.apn)
    /\ modem.call.pdp = (IF IsCdma THEN 0 ELSE cmd.pdp)
    /\ modem.call.user = (IF IsCdma /\ Empty(cmd.user) THEN "ctnet@mycdma.cn" ELSE cmd.user)

IInv ==
  /\ CommandInv /\ AccountInv /\ Shape /\ Understood /\ QmapInv
  /\ LinkInv /\ DriverInv /\ ServiceInv /\ ProfileInv /\ CallInv

-----------------------------------------------------------------------------
(* What leaves a part of the invariant alone                               *)

\* The parts of the modem that stay as they are.
Keeps(pieces) == DOMAIN modem' = DOMAIN modem /\ \A x \in pieces : modem'[x] = modem[x]
Grows == \A x \in trouble : x \in trouble'
ToDialled == pc \in Dialled => pc' \in Dialled

\* What the modem frames by is left alone, after requestSetEthMode has been through
\* the data format or before it is there.
LEMMA LinkFrame ==
  ASSUME LinkInv, UNCHANGED host, Keeps({"gen", "link", "qmap"}), Grows,
         pc' \in {"detect", "format"} \/ pc \notin {"detect", "format"}
  PROVE  LinkInv'
<1>1. modem'.gen = modem.gen /\ modem'.link = modem.link /\ modem'.qmap = modem.qmap
  BY DEF Keeps
<1>. QED BY <1>1 DEF LinkInv, Multiplexing, Grows

\* A step of the program outside udhcpc_start leaves the driver alone.
LEMMA DriverFrame ==
  ASSUME DriverInv, UNCHANGED <<host, driver>>, Keeps({"gen"}), Grows,
         \/ pc # "up" /\ pc' # "up"
         \/ pc' = pc /\ Keeps({"link"})
  PROVE  DriverInv'
<1>1. modem'.gen = modem.gen BY DEF Keeps
<1>2. Unsettled({"dhcp", "stuck"}) => Unsettled({"dhcp", "stuck"})' BY DEF Unsettled, Grows
<1>3. CASE pc # "up" /\ pc' # "up" BY <1>1, <1>2, <1>3 DEF DriverInv
<1>4. CASE pc' = pc /\ Keeps({"link"})
  <2>1. modem'.link = modem.link BY <1>4 DEF Keeps
  <2>. QED BY <1>1, <1>2, <1>4, <2>1 DEF DriverInv, Grows
<1>. QED BY <1>3, <1>4

\* Multiplexing was found once and for all.
LEMMA QmapFrame ==
  ASSUME QmapInv, UNCHANGED host, prof'.qmap = prof.qmap, Keeps({"gen"}),
         pc' = "detect" \/ pc # "detect"
  PROVE  QmapInv'
<1>1. modem'.gen = modem.gen BY DEF Keeps
<1>. QED BY <1>1 DEF QmapInv, Qmap, Multiplexing

\* A step that neither asks for registration nor starts a call.
LEMMA ServiceFrame ==
  ASSUME ServiceInv, UNCHANGED <<cmd, reg, ps, s_is_cdma>>, prof'.loopback = prof.loopback,
         Keeps({"loop", "call"}), ToDialled
  PROVE  ServiceInv'
<1>1. modem'.loop = modem.loop /\ modem'.call = modem.call BY DEF Keeps
<1>. QED BY <1>1 DEF ServiceInv, ToDialled, IsCdma, Says, NoCall

\* A step between the requests about the profile.
LEMMA ProfileFrame ==
  ASSUME ProfileInv, UNCHANGED cmd, Grows, prof'.old = prof.old, prof'.iptype = prof.iptype,
         Keeps({"profile"}),
         pc' = "setprofile" => pc = "setprofile",
         pc' \in {"registration"} \cup Dialled => pc \in {"registration"} \cup Dialled
  PROVE  ProfileInv'
<1>1. modem'.profile = modem.profile BY DEF Keeps
<1>2. Unsettled({"GetProfile", "CreateProfile", "ModifyProfile"}) =>
        Unsettled({"GetProfile", "CreateProfile", "ModifyProfile"})'
  BY DEF Unsettled, Grows
<1>. QED BY <1>1, <1>2 DEF ProfileInv, Wanted

\* The call stays what it was.
LEMMA CallFrame ==
  ASSUME CallInv, UNCHANGED <<cmd, reg>>, Keeps({"call"})
  PROVE  CallInv'
<1>1. modem'.call = modem.call BY DEF Keeps
<1>. QED BY <1>1 DEF CallInv, IsCdma, Says, NoCall

\* The labels by what has been settled.
Before == {"bind4", "pref4", "bind6", "pref6", "auto", "loopback", "sim", "pinstatus", "pin",
           "getprofile", "create"}
Underway == {"loop", "address", "dhcp"}

\* A step that is about none of what the invariant relates.
LEMMA QuietStep ==
  ASSUME IInv, UNCHANGED <<chosen, session, prof, ps, s_is_cdma, s_9x07, driver>>,
         faults' \in 0..MaxFaults, Grows,
         sim' \in {"SIM_ABSENT", "SIM_READY", "SIM_PIN", "SIM_PUK"},
         Keeps({"gen", "link", "qmap", "profile", "call", "loop", "confused"}),
         DOMAIN modem'.mux = Services, DOMAIN modem'.family = Services,
         \/ pc' = pc
         \/ pc \in Before /\ pc' \in Before
         \/ pc \in Underway /\ pc' \in Underway
  PROVE  IInv'
<1>. USE DEF IInv, chosen
<1>1. \A P \in SUBSET {"gen", "link", "qmap", "profile", "call", "loop", "confused"} : Keeps(P)
  BY DEF Keeps
<1>2. pc' \in Labels
  BY DEF Shape, Labels, Before, Underway
<1>3. CommandInv' /\ AccountInv' BY DEF CommandInv, AccountInv, Empty
<1>4. Shape' BY <1>1, <1>2 DEF Shape, Keeps
<1>5. Understood' BY DEF Understood, Keeps
<1>6. \/ pc' = pc
      \/ /\ pc # "up" /\ pc' # "up"
         /\ pc \notin {"detect", "format"} /\ pc' \notin {"detect", "format"}
  <2>1. ASSUME pc \in Before, pc' \in Before
        PROVE  /\ pc # "up" /\ pc' # "up"
               /\ pc \notin {"detect", "format"} /\ pc' \notin {"detect", "format"}
    BY <2>1 DEF Before
  <2>2. ASSUME pc \in Underway, pc' \in Underway
        PROVE  /\ pc # "up" /\ pc' # "up"
               /\ pc \notin {"detect", "format"} /\ pc' \notin {"detect", "format"}
    BY <2>2 DEF Underway
  <2>. QED BY <2>1, <2>2
<1>7. QmapInv' BY <1>1, <1>6, QmapFrame
<1>8. LinkInv' BY <1>1, <1>6, LinkFrame
<1>9. DriverInv' BY <1>1, <1>6, DriverFrame
<1>10. ToDialled BY DEF ToDialled, Before, Underway, Dialled
<1>11. ServiceInv' BY <1>1, <1>10, ServiceFrame
<1>12. ProfileInv'
  <2>1. /\ pc' = "setprofile" => pc = "setprofile"
        /\ pc' \in {"registration"} \cup Dialled => pc \in {"registration"} \cup Dialled
    BY DEF Before, Underway, Dialled
  <2>. QED BY <1>1, <2>1, ProfileFrame
<1>13. CallInv' BY <1>1, CallFrame
<1>. QED BY <1>3, <1>4, <1>5, <1>7, <1>8, <1>9, <1>11, <1>12, <1>13

-----------------------------------------------------------------------------
(* Requests that are about none of it                                      *)

\* The texts of the command line, and those put in their place, have lengths.
LEMMA TextLengths ==
  ASSUME CommandInv
  PROVE  /\ {Len(cmd.apn), Len(cmd.user), Len(cmd.password), Len("ctnet@mycdma.cn"), Len("vnet.mobi")}
              \subseteq Nat
         /\ Len(cmd.pin) \in Nat
BY TextAssumption DEF CommandInv

\* Whom the requests are for, and what they are.
LEMMA Headers ==
  ASSUME NEW service, NEW req, NEW v, NEW w
  PROVE  /\ Bare(service, req).service = service /\ Bare(service, req).req = req
         /\ LET m == WdsSetClientIPFamilyPref(service, v)
            IN m.service = service /\ m.req = "FamilyPref"
         /\ WdsSetAutoConnect(v).service = "WDS" /\ WdsSetAutoConnect(v).req = "AutoConnect"
         /\ LET m == WdsSetQMUXBindMuxDataPort(service, v)
            IN m.service = service /\ m.req = "BindMux"
         /\ WdaSetLoopBackReq(v).service = "WDA" /\ WdaSetLoopBackReq(v).req = "SetLoopBack"
         /\ LET m == WdsCreateProfileSettingsReqSend(v)
            IN m.service = "WDS" /\ m.req = "CreateProfile"
         /\ LET m == WdsGetProfileSettingsReqSend(v)
            IN m.service = "WDS" /\ m.req = "GetProfile"
         /\ LET m == WdsModifyProfileSettingsReq(v, w)
            IN m.service = "WDS" /\ m.req = "ModifyProfile"
         /\ LET m == WdsGetRuntimeSettingReq(service)
            IN m.service = service /\ m.req = "RuntimeSettings"
         /\ DmsUIMVerifyPinReqSend(v).service = "DMS" /\ DmsUIMVerifyPinReqSend(v).req = "VerifyPin"
         /\ UimVerifyPinReqSend(v).service = "UIM" /\ UimVerifyPinReqSend(v).req = "VerifyPin"
BY DEF Bare, WdsSetClientIPFamilyPref, WdsSetAutoConnect, WdsSetQMUXBindMuxDataPort,
       WdaSetLoopBackReq, WdsCreateProfileSettingsReqSend, WdsGetProfileSettingsReqSend,
       WdsModifyProfileSettingsReq, WdsGetRuntimeSettingReq, DmsUIMVerifyPinReqSend,
       UimVerifyPinReqSend, Filled, Appended, ComposeQMUXMsg

Quiet == {"BindMux", "FamilyPref", "AutoConnect", "CardStatus", "UimState", "PinStatus", "VerifyPin",
          "RuntimeSettings", "SysInfo", "ServingSystem"}
Lasting == {"gen", "link", "qmap", "profile", "call", "loop", "confused"}

\* The modem answers such a request without a change of what the invariant relates.
LEMMA QuietReply ==
  ASSUME Shape, NEW m, Readable(m), m.req \in Quiet
  PROVE  LET w == Reply(m).modem
         IN /\ DOMAIN w = DOMAIN modem /\ \A x \in Lasting : w[x] = modem[x]
            /\ DOMAIN w.mux = Services /\ DOMAIN w.family = Services
<1>. USE DEF Ok, Refused
<1>. DEFINE w == Reply(m).modem
            Kept(u) == /\ DOMAIN u = DOMAIN modem /\ \A x \in Lasting : u[x] = modem[x]
                       /\ DOMAIN u.mux = Services /\ DOMAIN u.family = Services
<1>1. Kept(modem) BY DEF Shape
<1>2. \A v : Kept([modem EXCEPT !.mux[m.service] = v]) BY DEF Shape, Lasting, Pieces
<1>3. \A v : Kept([modem EXCEPT !.family[m.service] = v]) BY DEF Shape, Lasting, Pieces
<1>4. Kept([modem EXCEPT !.busy = FALSE]) /\ Kept([modem EXCEPT !.pin = "ready"])
  BY DEF Shape, Lasting, Pieces
<1>5. [Refused("unsupported") EXCEPT !.modem.busy = FALSE].modem = [modem EXCEPT !.busy = FALSE]
  OBVIOUS
<1>. HIDE DEF Kept
<1>6. Kept(w)
  <2>1. CASE m.service = "UIM" /\ modem.gen = "old" BY <1>1, <2>1 DEF Reply
  <2>2. CASE m.service # "UIM" \/ modem.gen # "old"
    <3>. HIDE DEF w
    <3>1. ASSUME m.req = "BindMux" PROVE Kept(Reply(m).modem)
      <4>1. Reply(m) = Ok([modem EXCEPT !.mux[m.service] = Value(m, 17)], <<>>)
        BY <2>2, <3>1, ReplyIs
      <4>2. Reply(m).modem = [modem EXCEPT !.mux[m.service] = Value(m, 17)] BY <4>1
      <4>. QED BY <1>2, <4>2
    <3>2. ASSUME m.req = "FamilyPref" PROVE Kept(Reply(m).modem)
      <4>1. Reply(m) = Ok([modem EXCEPT !.family[m.service] = Value(m, 1)], <<>>)
        BY <2>2, <3>2, ReplyIs
      <4>2. Reply(m).modem = [modem EXCEPT !.family[m.service] = Value(m, 1)] BY <4>1
      <4>. QED BY <1>3, <4>2
    <3>3. ASSUME m.req \in {"CardStatus", "UimState"} PROVE Kept(Reply(m).modem)
      <4>1. CASE modem.busy
        <5>1. Reply(m) = [Refused("unsupported") EXCEPT !.modem.busy = FALSE]
          BY <2>2, <3>3, <4>1, ReplyIs
        <5>. QED BY <1>4, <1>5, <5>1
      <4>2. CASE ~modem.busy
        <5>1. Reply(m).modem = modem BY <2>2, <3>3, <4>2, ReplyIs
        <5>. QED BY <1>1, <5>1
      <4>. QED BY <4>1, <4>2
    <3>4. m.req \in {"AutoConnect", "PinStatus"} => Kept(Reply(m).modem) BY <1>1, <2>2, ReplyIs
    <3>5. m.req = "VerifyPin" => Kept(Reply(m).modem) BY <1>1, <1>4, <2>2, ReplyIs DEF TryPin
    <3>6. m.req \in {"RuntimeSettings", "SysInfo", "ServingSystem"} => Kept(Reply(m).modem)
      BY <1>1, <2>2 DEF Reply
    <3>. QED BY <3>1, <3>2, <3>3, <3>4, <3>5, <3>6 DEF Quiet, w
  <2>. QED BY <2>1, <2>2
<1>. QED BY <1>6 DEF Kept

\* And so does the program's asking, whether an answer comes or not.
LEMMA QuietRequest ==
  ASSUME IInv, NEW m, Readable(m), m.req \in Quiet, NEW out \in Outcomes(m), Request(m, out)
  PROVE  /\ UNCHANGED <<chosen, session, driver>> /\ faults' \in 0..MaxFaults /\ Grows
         /\ Keeps(Lasting) /\ DOMAIN modem'.mux = Services /\ DOMAIN modem'.family = Services
<1>1. Shape /\ faults \in 0..MaxFaults BY DEF IInv, Shape
<1>2. /\ UNCHANGED <<chosen, session, driver>> /\ modem' \in {modem, Reply(m).modem}
      /\ faults' \in 0..MaxFaults /\ Grows
  BY <1>1, Asked DEF Grows
<1>3. CASE modem' = modem BY <1>1, <1>2, <1>3 DEF Keeps, Shape
<1>4. CASE modem' = Reply(m).modem BY <1>1, <1>2, <1>4, QuietReply DEF Keeps
<1>. QED BY <1>2, <1>3, <1>4

-----------------------------------------------------------------------------
(* The steps that keep the invariant: those that are about none of it      *)

\* A request about none of it, between two labels of one kind.
LEMMA QuietAction ==
  ASSUME IInv, NEW m, Readable(m), m.req \in Quiet, NEW out \in Outcomes(m), Request(m, out),
         UNCHANGED <<prof, s_9x07, s_is_cdma, ps>>,
         sim' \in {"SIM_ABSENT", "SIM_READY", "SIM_PIN", "SIM_PUK"},
         \/ pc \in Before /\ pc' \in Before
         \/ pc \in Underway /\ pc' \in Underway
  PROVE  IInv'
BY QuietRequest, QuietStep DEF Lasting

\* A step to the next label that asks for nothing.
LEMMA QuietMove ==
  ASSUME IInv, UNCHANGED <<chosen, session, trouble, faults, prof, known, modem, driver>>,
         pc \in Before, pc' \in Before
  PROVE  IInv'
<1>1. Shape BY DEF IInv
<1>2. Keeps(Lasting) /\ Grows BY DEF Keeps, Grows
<1>3. /\ faults' \in 0..MaxFaults /\ DOMAIN modem'.mux = Services
      /\ DOMAIN modem'.family = Services
      /\ sim' \in {"SIM_ABSENT", "SIM_READY", "SIM_PIN", "SIM_PUK"}
  BY <1>1 DEF Shape, known
<1>. QED BY <1>2, <1>3, QuietStep DEF Lasting, known

\* Binding and family preference, of either family.
LEMMA BindKeeps == ASSUME IInv, Bind4 \/ Bind6 PROVE IInv'
<1>1. Shape BY DEF IInv
<1>2. ASSUME NEW label \in Before, NEW next \in Before, NEW service \in Services, NEW wanted \in BOOLEAN,
             Bind(label, next, service, wanted)
      PROVE  IInv'
  <2>. DEFINE m == WdsSetQMUXBindMuxDataPort(service, prof.muxid)
  <2>1. CASE wanted /\ prof.adapter # 0
    <3>1. PICK out \in Outcomes(m) : Request(m, out) /\ Done(out, next)
      BY <1>2, <2>1 DEF Bind
    <3>2. pc \in Before /\ pc' \in Before /\ UNCHANGED <<prof, known>>
      BY <1>2, <3>1 DEF Bind, Done, Goto, Before
    <3>3. Readable(m) /\ m.req \in Quiet BY FixedReadable, Headers DEF Quiet
    <3>. HIDE DEF m
    <3>. QED BY <1>1, <3>1, <3>2, <3>3, QuietAction DEF known, Shape
  <2>2. CASE ~(wanted /\ prof.adapter # 0)
    <3>1. /\ pc \in Before /\ pc' \in Before
          /\ UNCHANGED <<chosen, session, trouble, faults, prof, known, modem, driver>>
      BY <1>2, <2>2 DEF Bind, Goto
    <3>. QED BY <3>1, QuietMove
  <2>. QED BY <2>1, <2>2
<1>3. IPv6 \in BOOLEAN BY DEF IPv6
<1>. QED BY <1>2, <1>3 DEF Bind4, Bind6, Before, Services

\* The family preferences and auto-connect.
LEMMA PreferKeeps == ASSUME IInv, Prefer4 \/ Prefer6 \/ AutoConnect PROVE IInv'
<1>1. Shape BY DEF IInv
<1>2. CASE Prefer4
  <2>. DEFINE m == WdsSetClientIPFamilyPref("WDS", 4)
  <2>1. PICK out \in Outcomes(m) : Request(m, out) BY <1>2 DEF Prefer4
  <2>2. pc \in Before /\ pc' \in Before /\ UNCHANGED <<prof, known>>
    BY <1>2 DEF Prefer4, Goto, Before
  <2>3. Readable(m) /\ m.req \in Quiet BY FixedReadable, Headers DEF Quiet
  <2>. HIDE DEF m
  <2>. QED BY <1>1, <2>1, <2>2, <2>3, QuietAction DEF known, Shape
<1>3. CASE Prefer6
  <2>. DEFINE m == WdsSetClientIPFamilyPref("WDS6", 6)
  <2>1. CASE IPv6
    <3>1. PICK out \in Outcomes(m) : Request(m, out) /\ Done(out, "auto") BY <1>3, <2>1 DEF Prefer6
    <3>2. pc \in Before /\ pc' \in Before /\ UNCHANGED <<prof, known>>
      BY <1>3, <3>1 DEF Prefer6, Goto, Before, Done
    <3>3. Readable(m) /\ m.req \in Quiet BY FixedReadable, Headers DEF Quiet
    <3>. HIDE DEF m
    <3>. QED BY <1>1, <3>1, <3>2, <3>3, QuietAction DEF known, Shape
  <2>2. CASE ~IPv6
    <3>1. /\ pc \in Before /\ pc' \in Before
          /\ UNCHANGED <<chosen, session, trouble, faults, prof, known, modem, driver>>
      BY <1>3, <2>2 DEF Prefer6, Goto, Before
    <3>. QED BY <3>1, QuietMove
  <2>. QED BY <2>1, <2>2
<1>4. CASE AutoConnect
  <2>. DEFINE m == WdsSetAutoConnect(0)
  <2>1. PICK out \in Outcomes(m) : Request(m, out) BY <1>4 DEF AutoConnect
  <2>2. pc \in Before /\ pc' \in Before /\ UNCHANGED <<prof, known>>
    BY <1>4 DEF AutoConnect, Goto, Before
  <2>3. Readable(m) /\ m.req \in Quiet BY FixedReadable, Headers DEF Quiet
  <2>. HIDE DEF m
  <2>. QED BY <1>1, <2>1, <2>2, <2>3, QuietAction DEF known, Shape
<1>. QED BY <1>2, <1>3, <1>4

\* The SIM is asked about and unlocked.
LEMMA SimKeeps == ASSUME IInv, SetSim PROVE IInv'
<1>1. Shape /\ CommandInv BY DEF IInv
<1>2. \A pin : SimState(pin) \in {"SIM_ABSENT", "SIM_READY", "SIM_PIN", "SIM_PUK"} BY DEF SimState
<1>3. CASE GetSIMStatus
  <2>. DEFINE m == Bare(IF s_9x07 THEN "UIM" ELSE "DMS", IF s_9x07 THEN "CardStatus" ELSE "UimState")
  <2>1. PICK out \in Outcomes(m) :
          /\ Request(m, out)
          /\ sim' \in {sim, "SIM_ABSENT", SimState(Value(out.r, IF s_9x07 THEN 16 ELSE 1))}
          /\ pc' \in {"sim", "pinstatus", "pin"}
    BY <1>3 DEF GetSIMStatus
  <2>2. pc \in Before /\ pc' \in Before /\ UNCHANGED <<prof, s_9x07, s_is_cdma, ps>>
    BY <1>3, <2>1 DEF GetSIMStatus, Before
  <2>3. sim' \in {"SIM_ABSENT", "SIM_READY", "SIM_PIN", "SIM_PUK"} BY <1>1, <1>2, <2>1 DEF Shape
  <2>4. Readable(m) /\ m.req \in Quiet BY FixedReadable, Headers DEF Quiet
  <2>. HIDE DEF m
  <2>. QED BY <2>1, <2>2, <2>3, <2>4, QuietAction
<1>4. CASE GetPINStatus
  <2>. DEFINE m == Bare("DMS", "PinStatus")
  <2>1. PICK out \in Outcomes(m) :
          Request(m, out) /\ sim' \in {sim, SimState(Value(out.r, 17))}
    BY <1>4 DEF GetPINStatus
  <2>2. pc \in Before /\ pc' \in Before /\ UNCHANGED <<prof, s_9x07, s_is_cdma, ps>>
    BY <1>4 DEF GetPINStatus, Before, Goto
  <2>3. sim' \in {"SIM_ABSENT", "SIM_READY", "SIM_PIN", "SIM_PUK"} BY <1>1, <1>2, <2>1 DEF Shape
  <2>4. Readable(m) /\ m.req \in Quiet BY FixedReadable, Headers DEF Quiet
  <2>. HIDE DEF m
  <2>. QED BY <2>1, <2>2, <2>3, <2>4, QuietAction
<1>5. CASE EnterSimPin
  <2>. DEFINE m == IF s_9x07 THEN UimVerifyPinReqSend(cmd.pin) ELSE DmsUIMVerifyPinReqSend(cmd.pin)
  <2>1. pc \in Before /\ pc' \in Before /\ UNCHANGED <<prof, known>>
    BY <1>5 DEF EnterSimPin, Before, Goto
  <2>2. CASE sim = "SIM_PIN" /\ cmd.pin # Null
    <3>1. PICK out \in Outcomes(m) : Request(m, out) BY <1>5, <2>2 DEF EnterSimPin
    <3>2. Readable(m) /\ m.req \in Quiet
      <4>1. Len(cmd.pin) \in Nat BY <1>1, TextLengths
      <4>2. /\ Readable(DmsUIMVerifyPinReqSend(cmd.pin)) /\ Readable(UimVerifyPinReqSend(cmd.pin))
            /\ DmsUIMVerifyPinReqSend(cmd.pin).req = "VerifyPin"
            /\ UimVerifyPinReqSend(cmd.pin).req = "VerifyPin"
        BY <4>1, PinReadable, Headers
      <4>. QED BY <4>2 DEF Quiet
    <3>. HIDE DEF m
    <3>. QED BY <1>1, <2>1, <3>1, <3>2, QuietAction DEF known, Shape
  <2>3. CASE ~(sim = "SIM_PIN" /\ cmd.pin # Null)
    <3>1. UNCHANGED <<chosen, session, trouble, faults, modem, driver>>
      BY <1>5, <2>3 DEF EnterSimPin
    <3>. QED BY <2>1, <3>1, QuietMove
  <2>. QED BY <2>2, <2>3
<1>. QED BY <1>3, <1>4, <1>5 DEF SetSim

\* The address is asked for.
LEMMA AddressKeeps == ASSUME IInv, GetIPAddress PROVE IInv'
<1>1. Shape BY DEF IInv
<1>. DEFINE m == WdsGetRuntimeSettingReq("WDS")
<1>2. PICK out \in Outcomes(m) : Request(m, out) /\ pc' \in {"dhcp", "loop"}
  BY DEF GetIPAddress, Goto
<1>3. pc \in Underway /\ pc' \in Underway /\ UNCHANGED <<prof, known>>
  BY <1>2 DEF GetIPAddress, Underway
<1>4. Readable(m) /\ m.req \in Quiet BY FixedReadable, Headers DEF Quiet
<1>. HIDE DEF m
<1>. QED BY <1>1, <1>2, <1>3, <1>4, QuietAction DEF known, Shape

\* The modem finds its network.
LEMMA AttachKeeps == ASSUME IInv, Attach PROVE IInv'
<1>1. Shape BY DEF IInv
<1>2. /\ Keeps(Lasting) /\ DOMAIN modem'.mux = Services /\ DOMAIN modem'.family = Services
  BY <1>1 DEF Attach, Shape, Keeps, Lasting, Pieces
<1>3. /\ UNCHANGED <<chosen, session, prof, ps, s_is_cdma, s_9x07, driver, pc>>
      /\ faults' \in 0..MaxFaults /\ Grows
      /\ sim' \in {"SIM_ABSENT", "SIM_READY", "SIM_PIN", "SIM_PUK"}
  BY <1>1 DEF Attach, Shape, known, Grows
<1>. QED BY <1>2, <1>3, QuietStep DEF Lasting

-----------------------------------------------------------------------------
(* The steps that keep the invariant: detection and data format            *)

\* What was chosen at the start stays.
LEMMA ChosenKept == ASSUME IInv, UNCHANGED chosen PROVE CommandInv' /\ AccountInv'
BY DEF IInv, chosen, CommandInv, AccountInv, Empty

\* Detection finds QMAP with the drivers that have it.
LEMMA DetectKeeps == ASSUME IInv, Detect PROVE IInv'
<1>1. /\ pc = "detect" /\ pc' = "format"
      /\ UNCHANGED <<chosen, session, trouble, faults, known, modem, driver>>
  BY DEF Detect, Goto
<1>2. Shape /\ QmapInv BY DEF IInv
<1>3. /\ DOMAIN prof' = DOMAIN prof
      /\ prof'.rawIP = prof.rawIP /\ prof'.loopback = prof.loopback
      /\ prof'.old = prof.old /\ prof'.iptype = prof.iptype
      /\ IF Multiplexing THEN prof'.qmap # 0 ELSE prof'.qmap = prof.qmap
  <2>1. CASE host.driver = "none" /\ UNCHANGED prof BY <2>1 DEF Multiplexing
  <2>2. ASSUME NEW mode, NEW mux, NEW adapter, Multiplexed(mode, mux, adapter),
               mode # 0, host.driver # "none"
        PROVE  /\ DOMAIN prof' = DOMAIN prof
               /\ prof'.rawIP = prof.rawIP /\ prof'.loopback = prof.loopback
               /\ prof'.old = prof.old /\ prof'.iptype = prof.iptype
               /\ IF Multiplexing THEN prof'.qmap # 0 ELSE prof'.qmap = prof.qmap
    BY <1>2, <2>2 DEF Multiplexed, Shape, Multiplexing
  <2>3. host.driver # "none" => host.mode # 0 BY <1>2 DEF QmapInv, Multiplexing
  <2>4. CASE DetectRmnet BY <2>2, <2>3, <2>4 DEF DetectRmnet
  <2>5. CASE DetectSysfs BY <2>2, <2>3, <2>5 DEF DetectSysfs
  <2>6. CASE DetectQmimux BY <2>2, <2>6 DEF DetectQmimux
  <2>. QED BY <2>1, <2>4, <2>5, <2>6 DEF Detect
<1>4. \A P \in SUBSET Pieces : Keeps(P) BY <1>1 DEF Keeps
<1>5. Grows BY <1>1 DEF Grows
<1>6. CommandInv' /\ AccountInv' BY <1>1, ChosenKept
<1>7. Shape' BY <1>1, <1>2, <1>3 DEF Shape, known, Labels
<1>8. Understood' BY <1>1 DEF IInv, Understood
<1>9. QmapInv' BY <1>1, <1>2, <1>3 DEF QmapInv, Qmap, Multiplexing, chosen
<1>10. LinkInv' BY <1>1, <1>4, <1>5, LinkFrame DEF IInv, chosen, Pieces
<1>11. DriverInv' BY <1>1, <1>4, <1>5, DriverFrame DEF IInv, chosen, Pieces
<1>12. ServiceInv'
  BY <1>1, <1>3, <1>4, ServiceFrame DEF IInv, chosen, known, Pieces, ToDialled, Dialled
<1>13. ProfileInv' BY <1>1, <1>3, <1>4, <1>5, ProfileFrame DEF IInv, chosen, Pieces, Dialled
<1>14. CallInv' BY <1>1, <1>4, CallFrame DEF IInv, chosen, Pieces
<1>. QED BY <1>6, <1>7, <1>8, <1>9, <1>10, <1>11, <1>12, <1>13, <1>14 DEF IInv

\* The driver that frames QMAP itself leaves nothing to ask the modem.
LEMMA SkipKeeps == ASSUME IInv, SkipDataFormat PROVE IInv'
<1>1. /\ pc = "format" /\ pc' = "bind4" /\ Qmap /\ ~host.wda
      /\ UNCHANGED <<chosen, session, trouble, faults, s_is_cdma, ps, sim, modem, driver>>
      /\ s_9x07' = TRUE
  BY DEF SkipDataFormat, Goto
<1>2. Shape /\ QmapInv BY DEF IInv
<1>3. /\ DOMAIN prof' = DOMAIN prof /\ prof'.rawIP = TRUE
      /\ prof'.loopback = prof.loopback /\ prof'.qmap = prof.qmap
      /\ prof'.old = prof.old /\ prof'.iptype = prof.iptype
  BY <1>2 DEF SkipDataFormat, Shape
<1>4. \A P \in SUBSET Pieces : Keeps(P) BY <1>1 DEF Keeps
<1>5. Grows BY <1>1 DEF Grows
<1>6. CommandInv' /\ AccountInv' BY <1>1, ChosenKept
<1>7. Shape' BY <1>1, <1>2, <1>3 DEF Shape, Labels
<1>8. Understood' BY <1>1 DEF IInv, Understood
<1>9. QmapInv' BY <1>1, <1>3, <1>4, QmapFrame DEF IInv, chosen, Pieces
<1>10. LinkInv' BY <1>1, <1>2 DEF IInv, LinkInv, chosen, Multiplexing, QmapInv
<1>11. DriverInv' BY <1>1, <1>4, <1>5, DriverFrame DEF IInv, chosen, Pieces
<1>12. ServiceInv'
  BY <1>1, <1>3, <1>4, ServiceFrame DEF IInv, chosen, Pieces, ToDialled, Dialled
<1>13. ProfileInv' BY <1>1, <1>3, <1>4, <1>5, ProfileFrame DEF IInv, chosen, Pieces, Dialled
<1>14. CallInv' BY <1>1, <1>4, CallFrame DEF IInv, chosen, Pieces
<1>. QED BY <1>6, <1>7, <1>8, <1>9, <1>10, <1>11, <1>12, <1>13, <1>14 DEF IInv

\* The modem frames as it was asked to if its generation can; when the answer is lost
\* it may or may not.
LEMMA FormatKeeps == ASSUME IInv, SetDataFormat PROVE IInv'
<1>. DEFINE m == WdaSetDataFormat(Qmap, 5)
<1>1. PICK out \in Outcomes(m) :
        LET told == GetTLV(out.r.tlvs, 17)
            raw == IF told # Absent THEN told.val = "ip" ELSE Qmap
        IN /\ Request(m, out) /\ Done(out, "bind4")
           /\ prof' = [prof EXCEPT !.rawIP = IF told # Absent \/ Qmap THEN raw ELSE @]
           /\ s_9x07' = IF told # Absent \/ Qmap THEN raw ELSE s_9x07
  BY DEF SetDataFormat
<1>2. pc = "format" /\ ~(Qmap /\ ~host.wda) /\ UNCHANGED <<s_is_cdma, ps, sim>>
  BY DEF SetDataFormat
<1>3. pc' \in {"bind4", "loopback"} BY <1>1 DEF Done, Goto
<1>4. Shape /\ QmapInv /\ LinkInv BY DEF IInv
<1>5. Qmap \in BOOLEAN BY DEF Qmap
<1>6. /\ DOMAIN prof' = DOMAIN prof /\ prof'.rawIP \in BOOLEAN /\ s_9x07' \in BOOLEAN
      /\ prof'.loopback = prof.loopback /\ prof'.qmap = prof.qmap
      /\ prof'.old = prof.old /\ prof'.iptype = prof.iptype
  BY <1>1, <1>4, <1>5 DEF Shape
<1>7. /\ Readable(m) /\ m.service = "WDA" /\ m.req = "SetDataFormat"
      /\ Value(m, 17) = (IF Qmap THEN "ip" ELSE "eth")
      /\ Value(m, 19) = (IF Qmap THEN 5 ELSE 0)
  BY <1>5, FormatReadable, FixedValues DEF WdaSetDataFormat, Filled, ComposeQMUXMsg
<1>. HIDE DEF m
<1>8. Request(m, out) BY <1>1
<1>9. Reply(m) = SetLink(m) BY <1>7, ReplyIs
<1>10. /\ UNCHANGED <<chosen, session, driver>> /\ faults' \in 0..MaxFaults /\ Grows
       /\ modem' \in {modem, Reply(m).modem}
       /\ modem' = Reply(m).modem \/ "SetDataFormat" \in trouble'
  BY <1>4, <1>7, <1>8, Asked DEF Shape, Grows
<1>11. LET w == Reply(m).modem
       IN /\ DOMAIN w = DOMAIN modem
          /\ \A x \in Pieces \ {"link", "qmap"} : w[x] = modem[x]
          /\ w.link = (CASE modem.gen = "old" -> "eth" [] modem.gen = "new" -> "ip"
                         [] OTHER -> IF Qmap THEN "ip" ELSE "eth")
          /\ w.qmap = Qmap
  <2>. DEFINE link == CASE modem.gen = "old" -> "eth" [] modem.gen = "new" -> "ip"
                        [] OTHER -> Value(m, 17)
              with(l, q) == [modem EXCEPT !.link = l, !.qmap = q]
  <2>1. Reply(m).modem = with(link, Value(m, 19) # 0) BY <1>9 DEF SetLink, Ok
  <2>2. (Value(m, 19) # 0) = Qmap BY <1>5, <1>7
  <2>3. Reply(m).modem = with(link, Qmap) BY <2>1, <2>2
  <2>4. \A l, q : /\ DOMAIN with(l, q) = DOMAIN modem /\ with(l, q).link = l /\ with(l, q).qmap = q
                  /\ \A x \in Pieces \ {"link", "qmap"} : with(l, q)[x] = modem[x]
    BY <1>4 DEF Shape, Pieces
  <2>5. link = (CASE modem.gen = "old" -> "eth" [] modem.gen = "new" -> "ip"
                  [] OTHER -> IF Qmap THEN "ip" ELSE "eth")
    BY <1>7
  <2>. HIDE DEF with, link
  <2>. QED BY <2>3, <2>4, <2>5
<1>12. Keeps(Pieces \ {"link", "qmap"}) BY <1>10, <1>11 DEF Keeps
<1>13. \A P \in SUBSET (Pieces \ {"link", "qmap"}) : Keeps(P) BY <1>12 DEF Keeps
<1>14. CommandInv' /\ AccountInv' BY <1>10, ChosenKept
<1>15. Shape' BY <1>2, <1>3, <1>4, <1>6, <1>10, <1>12 DEF Shape, Labels, Keeps, Pieces
<1>16. Understood' BY <1>12 DEF IInv, Understood, Keeps, Pieces
<1>17. QmapInv' BY <1>2, <1>6, <1>10, <1>13, QmapFrame DEF IInv, chosen, Pieces
<1>18. LinkInv'
  <2>1. ~host.wda => modem.qmap /\ ~Qmap BY <1>2, <1>4 DEF LinkInv
  <2>2. Multiplexing <=> Qmap BY <1>2, <1>4 DEF QmapInv
  <2>3. CASE modem' = modem /\ "SetDataFormat" \in trouble'
    BY <1>4, <1>10, <2>3 DEF LinkInv, chosen
  <2>4. CASE modem' = Reply(m).modem
    <3>1. /\ modem'.gen = modem.gen /\ modem'.qmap = Qmap
          /\ modem'.link = (CASE modem.gen = "old" -> "eth" [] modem.gen = "new" -> "ip"
                              [] OTHER -> IF Qmap THEN "ip" ELSE "eth")
      BY <1>11, <2>4 DEF Pieces
    <3>2. host' = host BY <1>10 DEF chosen
    <3>3. ~host.wda => Qmap BY <1>4, <2>2 DEF QmapInv
    <3>. QED BY <1>5, <2>1, <2>2, <3>1, <3>2, <3>3 DEF LinkInv, Multiplexing
  <2>. QED BY <1>10, <2>3, <2>4
<1>19. DriverInv' BY <1>2, <1>3, <1>10, <1>13, DriverFrame DEF IInv, chosen, Pieces
<1>20. ServiceInv'
  BY <1>2, <1>6, <1>10, <1>13, ServiceFrame DEF IInv, chosen, Pieces, ToDialled, Dialled
<1>21. ProfileInv'
  BY <1>3, <1>6, <1>10, <1>13, ProfileFrame DEF IInv, chosen, Pieces, Dialled
<1>22. CallInv' BY <1>10, <1>13, CallFrame DEF IInv, chosen, Pieces
<1>. QED BY <1>14, <1>15, <1>16, <1>17, <1>18, <1>19, <1>20, <1>21, <1>22 DEF IInv

-----------------------------------------------------------------------------
(* The steps that keep the invariant: loopback and profile                 *)

\* Loopback is asked for only with -l.
LEMMA LoopBackKeeps == ASSUME IInv, LoopBack PROVE IInv'
<1>1. pc = "loopback" /\ pc' = "sim" /\ UNCHANGED known BY DEF LoopBack, Goto
<1>2. Shape /\ ServiceInv BY DEF IInv
<1>. DEFINE m == WdaSetLoopBackReq(1)
<1>3. CASE ~prof.loopback
  <2>1. UNCHANGED <<chosen, session, trouble, faults, modem, driver, prof>> BY <1>3 DEF LoopBack
  <2>. QED BY <1>1, <2>1, QuietMove DEF Before
<1>4. CASE prof.loopback
  <2>1. PICK out \in Outcomes(m) :
          Request(m, out) /\ prof' = [prof EXCEPT !.loopback = (out.r.err = "invalid")]
    BY <1>4 DEF LoopBack
  <2>2. Readable(m) /\ m.service = "WDA" /\ m.req = "SetLoopBack" BY FixedReadable, Headers
  <2>. HIDE DEF m
  <2>3. Request(m, out) BY <2>1
  <2>4. /\ UNCHANGED <<chosen, session, driver>> /\ faults' \in 0..MaxFaults /\ Grows
        /\ modem' \in {modem, Reply(m).modem}
    BY <1>2, <2>3, Asked DEF Shape, Grows
  <2>5. Reply(m).modem \in {modem, [modem EXCEPT !.loop = "pending"]}
    BY <2>2, ReplyIs DEF Ok, Refused
  <2>6. Keeps(Pieces \ {"loop"}) BY <1>2, <2>4, <2>5 DEF Keeps, Shape, Pieces
  <2>7. \A P \in SUBSET (Pieces \ {"loop"}) : Keeps(P) BY <2>6 DEF Keeps
  <2>8. /\ DOMAIN prof' = DOMAIN prof /\ prof'.loopback \in BOOLEAN
        /\ prof'.rawIP = prof.rawIP /\ prof'.qmap = prof.qmap
        /\ prof'.old = prof.old /\ prof'.iptype = prof.iptype
    BY <1>2, <2>1 DEF Shape
  <2>9. CommandInv' /\ AccountInv' BY <2>4, ChosenKept
  <2>10. Shape' BY <1>1, <1>2, <2>4, <2>6, <2>8 DEF Shape, Labels, Keeps, Pieces, known
  <2>11. Understood' BY <2>6 DEF IInv, Understood, Keeps, Pieces
  <2>12. QmapInv' BY <1>1, <2>4, <2>7, <2>8, QmapFrame DEF IInv, chosen, Pieces
  <2>13. LinkInv' BY <1>1, <2>4, <2>7, LinkFrame DEF IInv, chosen, Pieces
  <2>14. DriverInv' BY <1>1, <2>4, <2>7, DriverFrame DEF IInv, chosen, Pieces
  <2>15. ServiceInv'
    <3>1. cmd.loopback BY <1>2, <1>4 DEF ServiceInv, IInv, CommandInv
    <3>2. modem'.call = modem.call BY <2>6 DEF Keeps, Pieces
    <3>. QED BY <1>1, <1>2, <2>4, <3>1, <3>2
             DEF ServiceInv, chosen, known, IsCdma, Says, Dialled, NoCall
  <2>16. ProfileInv' BY <1>1, <2>4, <2>7, <2>8, ProfileFrame DEF IInv, chosen, Pieces, Dialled
  <2>17. CallInv' BY <2>4, <2>7, CallFrame DEF IInv, chosen, Pieces
  <2>. QED BY <2>9, <2>10, <2>11, <2>12, <2>13, <2>14, <2>15, <2>16, <2>17 DEF IInv
<1>. QED BY <1>3, <1>4

\* Its indication comes in the loop, and only if it was asked for.
LEMMA LoopBackIndKeeps == ASSUME IInv, LoopBackInd PROVE IInv'
<1>1. /\ pc = "loop" /\ modem.loop = "pending"
      /\ modem' = [modem EXCEPT !.loop = "on"] /\ prof' = [prof EXCEPT !.loopback = TRUE]
      /\ UNCHANGED <<chosen, pc, session, trouble, faults, known, driver>>
  BY DEF LoopBackInd
<1>2. Shape /\ ServiceInv BY DEF IInv
<1>3. Keeps(Pieces \ {"loop"}) BY <1>1, <1>2 DEF Keeps, Shape, Pieces
<1>4. \A P \in SUBSET (Pieces \ {"loop"}) : Keeps(P) BY <1>3 DEF Keeps
<1>5. /\ DOMAIN prof' = DOMAIN prof /\ prof'.loopback \in BOOLEAN
      /\ prof'.rawIP = prof.rawIP /\ prof'.qmap = prof.qmap
      /\ prof'.old = prof.old /\ prof'.iptype = prof.iptype
  BY <1>1, <1>2 DEF Shape
<1>6. Grows BY <1>1 DEF Grows
<1>7. CommandInv' /\ AccountInv' BY <1>1, ChosenKept
<1>8. Shape' BY <1>1, <1>2, <1>3, <1>5 DEF Shape, Keeps, Pieces, known
<1>9. Understood' BY <1>3 DEF IInv, Understood, Keeps, Pieces
<1>10. QmapInv' BY <1>1, <1>4, <1>5, QmapFrame DEF IInv, chosen, Pieces
<1>11. LinkInv' BY <1>1, <1>4, <1>6, LinkFrame DEF IInv, chosen, Pieces
<1>12. DriverInv' BY <1>1, <1>4, <1>6, DriverFrame DEF IInv, chosen, Pieces
<1>13. ServiceInv'
  <2>1. cmd.loopback BY <1>1, <1>2 DEF ServiceInv, IInv, CommandInv
  <2>2. modem'.call = modem.call BY <1>3 DEF Keeps, Pieces
  <2>. QED BY <1>1, <1>2, <2>1, <2>2 DEF ServiceInv, chosen, known, IsCdma, Says, NoCall
<1>14. ProfileInv' BY <1>1, <1>4, <1>5, <1>6, ProfileFrame DEF IInv, chosen, Pieces
<1>15. CallInv' BY <1>1, <1>4, CallFrame DEF IInv, chosen, Pieces
<1>. QED BY <1>7, <1>8, <1>9, <1>10, <1>11, <1>12, <1>13, <1>14, <1>15 DEF IInv

\* A request about the profile: what it takes to keep the rest of the invariant.
LEMMA ProfileStep ==
  ASSUME IInv, UNCHANGED <<chosen, session, known, driver>>, faults' \in 0..MaxFaults, Grows,
         Keeps(Pieces \ {"profile"}), DOMAIN prof' = DOMAIN prof,
         prof'.rawIP = prof.rawIP, prof'.loopback = prof.loopback, prof'.qmap = prof.qmap,
         pc \in {"getprofile", "create", "setprofile"},
         pc' \in {"getprofile", "create", "setprofile", "registration"},
         ProfileInv'
  PROVE  IInv'
<1>1. Shape BY DEF IInv
<1>2. \A P \in SUBSET (Pieces \ {"profile"}) : Keeps(P) BY DEF Keeps
<1>3. CommandInv' /\ AccountInv' BY ChosenKept
<1>4. Shape' BY <1>1 DEF Shape, Labels, Keeps, Pieces, known
<1>5. Understood' BY DEF IInv, Understood, Keeps, Pieces
<1>6. QmapInv' BY <1>2, QmapFrame DEF IInv, chosen, Pieces
<1>7. LinkInv' BY <1>2, LinkFrame DEF IInv, chosen, Pieces
<1>8. DriverInv' BY <1>2, DriverFrame DEF IInv, chosen, Pieces
<1>9. ServiceInv' BY <1>2, ServiceFrame DEF IInv, chosen, known, Pieces, ToDialled, Dialled
<1>10. CallInv' BY <1>2, CallFrame DEF IInv, chosen, Pieces
<1>. QED BY <1>3, <1>4, <1>5, <1>6, <1>7, <1>8, <1>9, <1>10 DEF IInv

\* The profile is read, unless it is not there or no answer comes.
LEMMA GetProfileKeeps == ASSUME IInv, GetProfile PROVE IInv'
<1>. DEFINE m == WdsGetProfileSettingsReqSend(cmd.pdp)
<1>1. PICK out \in Outcomes(m) :
        /\ Request(m, out)
        /\ prof' = [prof EXCEPT !.iptype = IpType,
                                !.old = IF out.r.err = "ok" THEN Value(out.r, 1) ELSE Blank]
        /\ pc' = IF out.r.err = "extended" THEN "create" ELSE "setprofile"
  BY DEF GetProfile, Goto
<1>2. pc = "getprofile" /\ UNCHANGED known BY DEF GetProfile
<1>3. Readable(m) /\ m.service = "WDS" /\ m.req = "GetProfile" BY FixedReadable, Headers
<1>. HIDE DEF m
<1>4. Shape /\ Request(m, out) BY <1>1 DEF IInv
<1>5. /\ UNCHANGED <<chosen, session, driver>> /\ modem' = out.r.modem /\ faults' \in 0..MaxFaults
      /\ Grows
      /\ \/ out.r = Reply(m)
         \/ out.r.modem \in {modem, Reply(m).modem} /\ "GetProfile" \in trouble'
  BY <1>3, <1>4, Asked DEF Shape, Grows
<1>6. Reply(m) = IF modem.profile = NoProfile THEN Refused("extended")
                 ELSE Ok(modem, <<[type |-> 1, len |-> 0, val |-> modem.profile]>>)
  BY <1>3, ReplyIsToo
<1>7. modem' = modem BY <1>5, <1>6 DEF Ok, Refused
<1>8. ProfileInv'
  <2>1. CASE "GetProfile" \in trouble' BY <2>1 DEF ProfileInv, Unsettled
  <2>2. CASE out.r = Refused("extended")
    <3>1. pc' = "create" BY <1>1, <2>2 DEF Refused
    <3>. QED BY <3>1 DEF ProfileInv, Dialled
  <2>3. CASE out.r = Ok(modem, <<[type |-> 1, len |-> 0, val |-> modem.profile]>>)
    <3>. DEFINE t == [type |-> 1, len |-> 0, val |-> modem.profile]
    <3>1. GetTLV(<<t>>, t.type) = t BY TlvOne, Zenon
    <3>2. Value(out.r, 1) = modem.profile BY <2>3, <3>1 DEF Value, Ok
    <3>3. out.r.err = "ok" BY <2>3 DEF Ok
    <3>4. pc' = "setprofile" /\ prof'.old = modem.profile BY <1>1, <1>4, <3>2, <3>3 DEF Shape
    <3>. QED BY <1>7, <3>4 DEF ProfileInv, Dialled
  <2>. QED BY <1>5, <1>6, <2>1, <2>2, <2>3
<1>9. Keeps(Pieces \ {"profile"}) BY <1>7 DEF Keeps
<1>10. /\ DOMAIN prof' = DOMAIN prof /\ prof'.rawIP = prof.rawIP
       /\ prof'.loopback = prof.loopback /\ prof'.qmap = prof.qmap
  BY <1>1, <1>4 DEF Shape
<1>11. pc' \in {"create", "setprofile"} BY <1>1
<1>. QED BY <1>2, <1>5, <1>8, <1>9, <1>10, <1>11, ProfileStep

\* One that is not there is made, and read again.
LEMMA CreateProfileKeeps == ASSUME IInv, CreateProfile PROVE IInv'
<1>. DEFINE m == WdsCreateProfileSettingsReqSend(cmd.pdp)
<1>1. PICK out \in Outcomes(m) :
        Request(m, out) /\ pc' = IF out.r.err = "ok" THEN "getprofile" ELSE "setprofile"
  BY DEF CreateProfile, Goto
<1>2. pc = "create" /\ UNCHANGED <<prof, known>> BY DEF CreateProfile
<1>3. Readable(m) /\ m.service = "WDS" /\ m.req = "CreateProfile" BY FixedReadable, Headers
<1>. HIDE DEF m
<1>4. Shape /\ Request(m, out) BY <1>1 DEF IInv
<1>5. /\ UNCHANGED <<chosen, session, driver>> /\ modem' \in {modem, Reply(m).modem}
      /\ faults' \in 0..MaxFaults /\ Grows
      /\ out.r = Reply(m) \/ "CreateProfile" \in trouble'
  BY <1>3, <1>4, Asked DEF Shape, Grows
<1>6. Reply(m) = Ok([modem EXCEPT !.profile = Blank], <<>>) BY <1>3, ReplyIsToo
<1>7. Keeps(Pieces \ {"profile"}) BY <1>4, <1>5, <1>6 DEF Keeps, Shape, Pieces, Ok
<1>8. /\ pc' \in {"getprofile", "setprofile"}
      /\ pc' = "getprofile" \/ "CreateProfile" \in trouble'
  <2>1. Reply(m).err = "ok" BY <1>6 DEF Ok
  <2>. QED BY <1>1, <1>5, <2>1
<1>9. ProfileInv' BY <1>8 DEF ProfileInv, Unsettled, Dialled
<1>. QED BY <1>2, <1>5, <1>7, <1>8, <1>9, ProfileStep

\* One that is not what was asked for is changed to that.
LEMMA SetProfileKeeps == ASSUME IInv, SetProfile PROVE IInv'
<1>. DEFINE m == WdsModifyProfileSettingsReq(cmd, prof.iptype)
<1>1. pc = "setprofile" /\ pc' = "registration" /\ UNCHANGED <<prof, known>>
  BY DEF SetProfile, Goto
<1>2. Shape /\ CommandInv /\ ProfileInv BY DEF IInv
<1>3. CASE cmd.apn = Null \/ prof.old = Wanted
  <2>1. UNCHANGED <<chosen, session, trouble, faults, modem, driver>> BY <1>3 DEF SetProfile
  <2>2. ProfileInv' BY <1>1, <1>2, <1>3, <2>1 DEF ProfileInv, Wanted, chosen, Unsettled
  <2>3. Keeps(Pieces \ {"profile"}) /\ Grows BY <2>1 DEF Keeps, Grows
  <2>. QED BY <1>1, <1>2, <2>1, <2>2, <2>3, ProfileStep DEF Shape
<1>4. CASE ~(cmd.apn = Null \/ prof.old = Wanted)
  <2>1. PICK out \in Outcomes(m) : Request(m, out) BY <1>4 DEF SetProfile
  <2>2. {Len(cmd.apn), Len(cmd.user), Len(cmd.password)} \subseteq Nat BY <1>2, TextLengths
  <2>3. Readable(m) /\ m.service = "WDS" /\ m.req = "ModifyProfile"
    BY <2>2, ModifyReadable, Headers
  <2>4. cmd.apn # Null /\ cmd.user # Null /\ cmd.password # Null BY <1>2, <1>4 DEF CommandInv
  <2>5. /\ Value(m, 17) = prof.iptype /\ Value(m, 20) = cmd.apn /\ Value(m, 27) = cmd.user
        /\ Value(m, 28) = cmd.password /\ Value(m, 29) = cmd.auth
    BY <2>2, <2>4, ModifyValues
  <2>. HIDE DEF m
  <2>6. /\ UNCHANGED <<chosen, session, driver>> /\ modem' \in {modem, Reply(m).modem}
        /\ faults' \in 0..MaxFaults /\ Grows
        /\ modem' = Reply(m).modem \/ "ModifyProfile" \in trouble'
    BY <1>2, <2>1, <2>3, Asked DEF Shape, Grows
  <2>7. Reply(m) = Ok([modem EXCEPT !.profile =
                         [apn |-> Value(m, 20), user |-> Value(m, 27), password |-> Value(m, 28),
                          auth |-> Value(m, 29), iptype |-> Value(m, 17)]], <<>>)
    BY <2>3, ReplyIsToo
  <2>8. Reply(m).modem = [modem EXCEPT !.profile = Wanted] BY <2>5, <2>7 DEF Ok, Wanted
  <2>9. Keeps(Pieces \ {"profile"}) BY <1>2, <2>6, <2>8 DEF Keeps, Shape, Pieces
  <2>10. ProfileInv'
    <3>1. CASE "ModifyProfile" \in trouble' BY <3>1 DEF ProfileInv, Unsettled
    <3>2. CASE modem' = Reply(m).modem
      <4>1. modem'.profile = Wanted BY <1>2, <2>8, <3>2 DEF Shape, Pieces
      <4>2. Wanted' = Wanted BY <1>1, <2>6 DEF Wanted, chosen
      <4>. QED BY <1>1, <4>1, <4>2 DEF ProfileInv
    <3>. QED BY <2>6, <3>1, <3>2
  <2>. QED BY <1>1, <2>6, <2>9, <2>10, ProfileStep
<1>. QED BY <1>3, <1>4

-----------------------------------------------------------------------------
(* The steps that keep the invariant: registration and the call            *)

\* Whoever asks for the registration learns what the network is, or that there is none.
LEMMA RegistrationKeeps == ASSUME IInv, RegistrationState PROVE IInv'
<1>1. /\ pc \in {"registration", "loop"} /\ pc' = "loop" /\ UNCHANGED <<prof, s_9x07, sim>>
  BY DEF RegistrationState, Goto
<1>2. Shape /\ AccountInv /\ ServiceInv BY DEF IInv
<1>. DEFINE Left == /\ UNCHANGED <<chosen, session, driver>> /\ faults' \in 0..MaxFaults /\ Grows
                    /\ Keeps(Lasting)
                    /\ DOMAIN modem'.mux = Services /\ DOMAIN modem'.family = Services
<1>3. IsCdma \in BOOLEAN BY DEF IsCdma, Says
<1>4. ASSUME GetSysInfo
      PROVE  /\ ps' \in BOOLEAN /\ s_is_cdma' \in BOOLEAN
             /\ ps' => s_is_cdma' = IsCdma
             /\ Left
  <2>. DEFINE m == Bare("NAS", "SysInfo")
  <2>1. PICK out \in Outcomes(m) :
          LET r == requestRegistrationState2(out.r.tlvs)
          IN /\ Request(m, out)
             /\ ps' = (out.r.err = "ok" /\ r.ps)
             /\ s_is_cdma' = IF out.r.err = "ok" THEN r.cdma ELSE s_is_cdma
    BY <1>4 DEF GetSysInfo
  <2>2. Readable(m) /\ m.service = "NAS" /\ m.req = "SysInfo" BY FixedReadable, Headers
  <2>. HIDE DEF m
  <2>3. m.req \in Quiet BY <2>2 DEF Quiet
  <2>4. Left BY <2>1, <2>2, <2>3, QuietRequest
  <2>5. out.r = Reply(m) \/ out.r.err = "timeout" BY <1>2, <2>1, <2>2, Asked DEF Shape
  <2>6. \/ out.r.err # "ok"
        \/ out.r.err = "ok" /\ out.r.tlvs \in {reg, <<"other">>}
    BY <2>2, <2>5, ReplyIsToo DEF Ok, Refused
  <2>7. CASE out.r.err # "ok" BY <1>2, <2>1, <2>4, <2>7 DEF Shape
  <2>8. CASE out.r.err = "ok" /\ out.r.tlvs \in {reg, <<"other">>}
    <3>1. LET r == requestRegistrationState2(out.r.tlvs)
          IN r.ps \in BOOLEAN /\ r.cdma \in BOOLEAN /\ (r.ps => r.cdma = IsCdma)
      BY <1>2, <2>8, AccountRead DEF AccountInv
    <3>2. LET r == requestRegistrationState2(out.r.tlvs) IN ps' = r.ps /\ s_is_cdma' = r.cdma
      BY <2>1, <2>8, <3>1
    <3>. QED BY <2>4, <3>1, <3>2
  <2>. QED BY <2>6, <2>7, <2>8
<1>5. ASSUME GetServingSystem
      PROVE  /\ ps' \in BOOLEAN /\ s_is_cdma' \in BOOLEAN
             /\ ps' => s_is_cdma' = IsCdma
             /\ Left
  <2>. DEFINE m == Bare("NAS", "ServingSystem")
  <2>1. PICK out \in Outcomes(m) :
          /\ Request(m, out)
          /\ ps' = IF out.r.err = "ok" THEN Value(out.r, 1) # "detached" ELSE ps
          /\ s_is_cdma' = IF out.r.err = "ok" THEN Value(out.r, 1) = "cdma" ELSE s_is_cdma
    BY <1>5 DEF GetServingSystem
  <2>2. Readable(m) /\ m.service = "NAS" /\ m.req = "ServingSystem" BY FixedReadable, Headers
  <2>. HIDE DEF m
  <2>3. m.req \in Quiet BY <2>2 DEF Quiet
  <2>4. Left BY <2>1, <2>2, <2>3, QuietRequest
  <2>5. out.r = Reply(m) \/ out.r.err = "timeout" BY <1>2, <2>1, <2>2, Asked DEF Shape
  <2>6. Reply(m) = Ok(modem, Serving) BY <2>2, ReplyIsToo
  <2>7. CASE out.r.err # "ok"
    <3>1. ps' = ps /\ s_is_cdma' = s_is_cdma BY <2>1, <2>7
    <3>. QED BY <1>2, <2>4, <3>1 DEF Shape, ServiceInv
  <2>8. CASE out.r.err = "ok"
    <3>. DEFINE said == IF ~modem.attached THEN "detached" ELSE IF IsCdma THEN "cdma" ELSE "3gpp"
                t == [type |-> 1, len |-> 6, val |-> said]
    <3>1. out.r = Ok(modem, <<t>>) BY <2>5, <2>6, <2>8 DEF Serving
    <3>2. GetTLV(<<t>>, t.type) = t BY TlvOne, Zenon
    <3>3. Value(out.r, 1) = said BY <3>1, <3>2 DEF Value, Ok
    <3>4. ps' = (said # "detached") /\ s_is_cdma' = (said = "cdma") BY <2>1, <2>8, <3>3
    <3>. QED BY <1>3, <2>4, <3>4
  <2>. QED BY <2>7, <2>8
<1>6. /\ ps' \in BOOLEAN /\ s_is_cdma' \in BOOLEAN
      /\ ps' => s_is_cdma' = IsCdma
      /\ Left
  BY <1>4, <1>5 DEF RegistrationState
<1>7. \A P \in SUBSET Lasting : Keeps(P) BY <1>6 DEF Keeps
<1>8. CommandInv' /\ AccountInv' BY <1>6, ChosenKept
<1>9. Shape' BY <1>1, <1>2, <1>6 DEF Shape, Labels, Keeps
<1>10. Understood' BY <1>6 DEF IInv, Understood, Keeps, Lasting
<1>11. QmapInv' BY <1>1, <1>6, <1>7, QmapFrame DEF IInv, chosen, Lasting
<1>12. LinkInv' BY <1>1, <1>6, <1>7, LinkFrame DEF IInv, chosen, Lasting
<1>13. DriverInv' BY <1>1, <1>6, <1>7, DriverFrame DEF IInv, chosen, Lasting
<1>14. ServiceInv'
  <2>1. modem'.loop = modem.loop /\ modem'.call = modem.call BY <1>6 DEF Keeps, Lasting
  <2>2. UNCHANGED <<cmd, reg>> /\ IsCdma' = IsCdma BY <1>6 DEF chosen, IsCdma, Says
  <2>3. ps' => s_is_cdma' = IsCdma' BY <1>6, <2>2
  <2>. QED BY <1>1, <1>2, <2>1, <2>2, <2>3 DEF ServiceInv, Dialled, NoCall
<1>15. ProfileInv' BY <1>1, <1>6, <1>7, ProfileFrame DEF IInv, chosen, Lasting, Dialled
<1>16. CallInv' BY <1>6, <1>7, CallFrame DEF IInv, chosen, Lasting
<1>. QED BY <1>8, <1>9, <1>10, <1>11, <1>12, <1>13, <1>14, <1>15, <1>16 DEF IInv

\* The call is asked for as the command line and the registration say.
LEMMA CallKeeps == ASSUME IInv, SetupDataCall PROVE IInv'
<1>. DEFINE m == WdsStartNwInterfaceReq("WDS", cmd, s_is_cdma, 4)
<1>1. PICK out \in Outcomes(m) : Request(m, out) /\ pc' \in {"address", "loop"}
  BY DEF SetupDataCall, Goto
<1>2. pc = "loop" /\ (ps \/ prof.loopback) /\ UNCHANGED <<prof, known>> BY DEF SetupDataCall
<1>3. Shape /\ CommandInv /\ ServiceInv BY DEF IInv
<1>4. {Len(cmd.apn), Len(cmd.user), Len(cmd.password), Len("ctnet@mycdma.cn"), Len("vnet.mobi")}
        \subseteq Nat
  BY <1>3, TextLengths
<1>5. Readable(m) /\ m.service = "WDS" /\ m.req = "StartNw"
  <2>1. Readable(m) BY <1>3, <1>4, StartReadable DEF Shape
  <2>2. m.service = "WDS" /\ m.req = "StartNw"
    BY DEF WdsStartNwInterfaceReq, Appended, ComposeQMUXMsg
  <2>. QED BY <2>1, <2>2
<1>6. /\ Value(m, 48) = (IF s_is_cdma THEN 2 ELSE 1)
      /\ Value(m, 20) = (IF s_is_cdma THEN Null ELSE cmd.apn)
      /\ Value(m, 23) = (IF s_is_cdma /\ Empty(cmd.user) THEN "ctnet@mycdma.cn" ELSE cmd.user)
      /\ Number(m, 49) = (IF s_is_cdma THEN 0 ELSE cmd.pdp)
  BY <1>3, <1>4, StartValues DEF Shape, CommandInv
<1>. HIDE DEF m
<1>7. /\ UNCHANGED <<chosen, session, driver>> /\ modem' \in {modem, Reply(m).modem}
      /\ faults' \in 0..MaxFaults /\ Grows
  BY <1>1, <1>3, <1>5, Asked DEF Shape, Grows
<1>8. \/ Reply(m).modem = modem
      \/ \E call : /\ Reply(m).modem = [modem EXCEPT !.call = call]
                   /\ call.tech = Value(m, 48) /\ call.apn = Value(m, 20)
                   /\ call.user = Value(m, 23) /\ call.pdp = Number(m, 49)
  <2>1. Reply(m) = StartCall(m) BY <1>5, ReplyIsToo
  <2>. DEFINE call == [tech |-> Value(m, 48), apn |-> Value(m, 20), user |-> Value(m, 23),
                       password |-> Value(m, 24), auth |-> Number(m, 22), family |-> Value(m, 25),
                       pdp |-> Number(m, 49), mux |-> modem.mux[m.service], service |-> m.service]
  <2>2. Reply(m).modem \in {modem, [modem EXCEPT !.call = call]}
    BY <2>1 DEF StartCall, Ok, Refused
  <2>3. /\ call.tech = Value(m, 48) /\ call.apn = Value(m, 20)
        /\ call.user = Value(m, 23) /\ call.pdp = Number(m, 49)
    OBVIOUS
  <2>. HIDE DEF call
  <2>. QED BY <2>2, <2>3
<1>9. Keeps(Pieces \ {"call"})
  <2>1. \A v : /\ DOMAIN [modem EXCEPT !.call = v] = DOMAIN modem
               /\ \A x \in Pieces \ {"call"} : [modem EXCEPT !.call = v][x] = modem[x]
    BY <1>3 DEF Shape
  <2>2. modem' = modem \/ \E v : modem' = [modem EXCEPT !.call = v] BY <1>7, <1>8
  <2>. QED BY <2>1, <2>2 DEF Keeps
<1>10. \A P \in SUBSET (Pieces \ {"call"}) : Keeps(P) BY <1>9 DEF Keeps
<1>11. CommandInv' /\ AccountInv' BY <1>7, ChosenKept
<1>12. Shape' BY <1>1, <1>2, <1>3, <1>7, <1>9 DEF Shape, Labels, Keeps, Pieces, known
<1>13. Understood' BY <1>9 DEF IInv, Understood, Keeps, Pieces
<1>14. QmapInv' BY <1>2, <1>7, <1>10, QmapFrame DEF IInv, chosen, Pieces
<1>15. LinkInv' BY <1>2, <1>7, <1>10, LinkFrame DEF IInv, chosen, Pieces
<1>16. DriverInv' BY <1>1, <1>2, <1>7, <1>10, DriverFrame DEF IInv, chosen, Pieces
<1>17. UNCHANGED <<cmd, reg, ps, s_is_cdma>> /\ IsCdma' = IsCdma
  BY <1>2, <1>7 DEF chosen, known, IsCdma, Says
<1>18. ServiceInv'
  <2>1. modem'.loop = modem.loop BY <1>9 DEF Keeps, Pieces
  <2>. QED BY <1>1, <1>2, <1>3, <1>17, <2>1 DEF ServiceInv, Dialled
<1>19. ProfileInv'
  BY <1>1, <1>2, <1>7, <1>10, ProfileFrame DEF IInv, chosen, Pieces, Dialled
<1>20. CallInv'
  <2>1. CASE modem' = modem BY <1>7, <2>1, CallFrame DEF IInv, chosen, Keeps
  <2>2. CASE ~cmd.loopback /\ modem' # modem
    <3>1. s_is_cdma = IsCdma BY <1>2, <1>3, <2>2 DEF ServiceInv
    <3>2. PICK call : /\ modem' = [modem EXCEPT !.call = call]
                      /\ call.tech = Value(m, 48) /\ call.apn = Value(m, 20)
                      /\ call.user = Value(m, 23) /\ call.pdp = Number(m, 49)
      BY <1>7, <1>8, <2>2
    <3>3. modem'.call = call BY <1>3, <3>2 DEF Shape, Pieces
    <3>. QED BY <1>6, <1>17, <3>1, <3>2, <3>3 DEF CallInv
  <2>3. CASE cmd.loopback BY <1>17, <2>3 DEF CallInv
  <2>. QED BY <1>3, <2>1, <2>2, <2>3 DEF CommandInv
<1>. QED BY <1>11, <1>12, <1>13, <1>14, <1>15, <1>16, <1>18, <1>19, <1>20 DEF IInv

\* The driver is switched to what the modem does, when it is switched.
LEMMA DhcpKeeps == ASSUME IInv, udhcpc_start PROVE IInv'
<1>1. pc = "dhcp" /\ pc' = "up" /\ UNCHANGED <<chosen, session, prof, known, modem>>
  BY DEF udhcpc_start, Goto
<1>2. Shape /\ LinkInv /\ DriverInv /\ QmapInv BY DEF IInv
<1>3. PICK luck \in {TRUE} \cup {faults = MaxFaults} :
        /\ faults' = IF luck THEN faults ELSE faults + 1
        /\ trouble' = IF luck \/ ~Framed THEN trouble ELSE trouble \cup {"dhcp"}
        /\ driver' = IF driver = "eth" /\ ~(luck /\ Framed) THEN "raw" ELSE driver
  BY DEF udhcpc_start
<1>4. luck \in BOOLEAN /\ Framed \in BOOLEAN BY <1>2 DEF Framed, LinkInv
<1>5. faults' \in 0..MaxFaults /\ Grows /\ driver' \in {"eth", "raw"}
  <2>1. ~luck => faults # MaxFaults BY <1>3
  <2>. QED BY <1>2, <1>3, <1>4, <2>1, BoundsAssumption DEF Shape, Grows
<1>6. \A P : Keeps(P) BY <1>1 DEF Keeps
<1>7. CommandInv' /\ AccountInv' BY <1>1, ChosenKept
<1>8. Shape' BY <1>1, <1>2, <1>5 DEF Shape, Labels, known
<1>9. Understood' BY <1>1 DEF IInv, Understood
<1>10. QmapInv' BY <1>1, <1>6, QmapFrame DEF IInv, chosen
<1>11. LinkInv' BY <1>1, <1>5, <1>6, LinkFrame DEF IInv, chosen
<1>12. DriverInv'
  <2>1. SUFFICES ASSUME host.driver = "none" PROVE DriverInv'
    BY <1>1 DEF DriverInv, chosen
  <2>2. ~Qmap /\ ~Multiplexing BY <1>2, <2>1 DEF QmapInv, Multiplexing
  <2>3. Framed <=> driver = (IF modem.link = "ip" THEN "raw" ELSE "eth") BY <2>2 DEF Framed
  <2>4. Unsettled({"dhcp", "stuck"}) => Unsettled({"dhcp", "stuck"})' BY <1>5 DEF Unsettled, Grows
  <2>5. ~luck /\ Framed => Unsettled({"dhcp", "stuck"})' BY <1>3 DEF Unsettled
  <2>6. modem.link \in {"eth", "ip"} /\ driver \in {"eth", "raw"} BY <1>2 DEF LinkInv, Shape
  <2>7. modem.gen = "new" => modem.link = "ip" BY <1>2 DEF LinkInv
  <2>8. "SetDataFormat" \in trouble \/ modem.gen \in {"old", "new"} \/ modem.link = "eth"
    BY <1>1, <1>2, <2>2 DEF LinkInv
  <2>9. modem.gen = "old" => modem.link = "eth" BY <1>2 DEF LinkInv
  <2>10. driver = "raw" => modem.gen = "new" \/ Unsettled({"dhcp", "stuck"})
    BY <1>1, <1>2, <2>1 DEF DriverInv
  <2>11. CASE ~luck /\ Framed BY <2>5, <2>11 DEF DriverInv
  <2>12. CASE driver = "raw"
    <3>1. driver' = "raw" BY <1>3, <2>12
    <3>. QED BY <1>1, <2>4, <2>7, <2>10, <2>12, <3>1 DEF DriverInv
  <2>13. CASE driver = "eth" /\ luck /\ Framed
    <3>1. driver' = "eth" /\ modem.link = "eth" BY <1>3, <2>3, <2>6, <2>13
    <3>. QED BY <1>1, <3>1 DEF DriverInv
  <2>14. CASE driver = "eth" /\ ~Framed
    <3>1. driver' = "raw" /\ modem.link = "ip" BY <1>3, <2>3, <2>6, <2>14
    <3>2. modem.gen = "new" \/ "SetDataFormat" \in trouble' BY <1>5, <2>8, <2>9, <3>1 DEF Grows
    <3>. QED BY <1>1, <3>1, <3>2 DEF DriverInv
  <2>. QED BY <1>4, <2>6, <2>11, <2>12, <2>13, <2>14
<1>13. ServiceInv' BY <1>1, <1>6, ServiceFrame DEF IInv, chosen, known, ToDialled, Dialled
<1>14. ProfileInv' BY <1>1, <1>5, <1>6, ProfileFrame DEF IInv, chosen, Dialled
<1>15. CallInv' BY <1>1, <1>6, CallFrame DEF IInv, chosen
<1>. QED BY <1>7, <1>8, <1>9, <1>10, <1>11, <1>12, <1>13, <1>14, <1>15 DEF IInv

-----------------------------------------------------------------------------
(* A restart, the start, and the theorems                                  *)

\* A restart leaves of the modem its generation and profile, and what the program keeps.
LEMMA RestartKeeps == ASSUME IInv, Restart PROVE IInv'
<1>1. PICK busy \in BOOLEAN : modem' = Booted(modem.gen, modem.card, modem.profile, busy)
  BY DEF Restart
<1>2. /\ session < MaxSessions /\ faults < MaxFaults
      /\ session' = session + 1 /\ faults' = faults + 1
      /\ driver' \in {driver, IF host.driver = "none" THEN "eth" ELSE "raw"}
      /\ trouble' = IF driver' = "raw" /\ trouble \cap {"dhcp", "SetDataFormat", "stuck"} # {}
                    THEN {"stuck"} ELSE {}
      /\ pc' = "detect" /\ ps' = FALSE /\ sim' = "SIM_ABSENT"
      /\ UNCHANGED <<chosen, prof, s_9x07, s_is_cdma>>
  BY DEF Restart, Goto
<1>3. Shape /\ QmapInv /\ DriverInv /\ ServiceInv BY DEF IInv
<1>4. /\ DOMAIN modem' = Pieces /\ DOMAIN modem'.mux = Services /\ DOMAIN modem'.family = Services
      /\ modem'.gen = modem.gen /\ modem'.link = DefaultLink(modem.gen)
      /\ modem'.qmap = ~host.wda /\ modem'.call = NoCall /\ modem'.loop = "off"
      /\ modem'.confused = FALSE
  BY <1>1 DEF Booted, Pieces, Services
<1>5. CommandInv' /\ AccountInv' BY <1>2, ChosenKept
<1>6. Shape'
  <2>1. session' \in 1..MaxSessions /\ faults' \in 0..MaxFaults
    BY <1>2, <1>3, BoundsAssumption DEF Shape
  <2>2. pc' \in Labels /\ driver' \in {"eth", "raw"} BY <1>2, <1>3 DEF Shape, Labels
  <2>. QED BY <1>2, <1>3, <1>4, <2>1, <2>2 DEF Shape
<1>7. Understood' BY <1>4 DEF Understood
<1>8. QmapInv' BY <1>2, <1>3, <1>4 DEF QmapInv, Qmap, Multiplexing, chosen
<1>9. LinkInv' BY <1>2, <1>3, <1>4 DEF LinkInv, QmapInv, DefaultLink, chosen
<1>10. DriverInv'
  <2>1. SUFFICES ASSUME host.driver = "none", driver' = "raw"
                 PROVE  modem.gen = "new" \/ Unsettled({"dhcp", "stuck"})'
    BY <1>2, <1>4 DEF DriverInv, chosen
  <2>2. driver = "raw" BY <1>2, <2>1
  <2>3. modem.gen = "new" \/ trouble \cap {"dhcp", "SetDataFormat", "stuck"} # {}
    BY <1>3, <2>1, <2>2 DEF DriverInv, Unsettled
  <2>. QED BY <1>2, <2>1, <2>3 DEF Unsettled
<1>11. ServiceInv' BY <1>2, <1>3, <1>4 DEF ServiceInv, chosen, NoCall
<1>12. ProfileInv' BY <1>2 DEF ProfileInv, Dialled
<1>13. CallInv' BY <1>4 DEF CallInv, NoCall
<1>. QED BY <1>5, <1>6, <1>7, <1>8, <1>9, <1>10, <1>11, <1>12, <1>13 DEF IInv

\* What the invariant needs of a case.
Sound(case) ==
  /\ {case.cmd.pin, case.cmd.apn, case.cmd.user, case.cmd.password} \subseteq Texts
  /\ case.cmd.apn # Null => case.cmd.user # Null /\ case.cmd.password # Null
  /\ Empty(case.cmd.user) => Empty(case.cmd.password)
  /\ case.cmd.loopback \in BOOLEAN
  /\ \/ case.host = NoQmap
     \/ /\ case.host.driver # "none" /\ case.host.mode \in 1..2 /\ case.host.wda \in BOOLEAN
        /\ case.host.table \in Tables
  /\ case.reg \in Seq(Kinds)

\* The cases are.
LEMMA CasesSound == ASSUME NEW case \in SetupCases \cup SimCases \cup NetCases PROVE Sound(case)
<1>1. {Null, "3gnet", "", "carl", "1234", "4321"} \subseteq Texts BY DEF Texts
<1>2. \A a \in Infos : <<a>> \in Seq(Kinds) BY DEF Infos, Kinds
<1>3. <<"LTEinfo">> \in Seq(Kinds) BY <1>2 DEF Infos
<1>4. \A a \in Accounts : a \in Seq(Kinds)
  <2>1. ASSUME NEW n \in 1..MaxTlvs, NEW s \in [1..n -> Statuses \cup Infos \cup {"other"}]
        PROVE  s \in Seq(Kinds)
    <3>1. n \in Nat OBVIOUS
    <3>. QED BY <3>1 DEF Kinds
  <2>. QED BY <2>1 DEF Accounts
<1>5. ASSUME NEW h \in Hosts
      PROVE  \/ h = NoQmap
             \/ h.driver # "none" /\ h.mode \in 1..2 /\ h.wda \in BOOLEAN /\ h.table \in Tables
  BY DEF Hosts
<1>6. CASE case \in SetupCases
  <2>1. PICK p \in 1..2, o \in Options, h \in Hosts, g \in Generations, v \in Ways :
          case = Setup(p, o, h, g, v)
    BY <1>6 DEF SetupCases
  <2>2. v.loopback \in BOOLEAN
    <3>1. CASE v \in [family : {4}, loopback : BOOLEAN] BY <3>1
    <3>2. CASE v = [family |-> 46, loopback |-> FALSE] BY <3>2
    <3>. QED BY <3>1, <3>2 DEF Ways
  <2>3. /\ case.cmd.pin = Null /\ case.cmd.apn = "3gnet" /\ case.cmd.user = ""
        /\ case.cmd.password = "" /\ case.cmd.loopback = v.loopback
        /\ case.host = h /\ case.reg = <<"LTEinfo">>
    BY <2>1 DEF Setup, Plain
  <2>. QED BY <1>1, <1>3, <1>5, <2>2, <2>3 DEF Sound, Empty, Null
<1>7. CASE case \in SimCases
  <2>1. PICK c \in {Given(d, "1234") : d \in Credentials}
                   \cup {[Plain EXCEPT !.pin = p] : p \in {Null, "4321"}} :
          case.cmd = c /\ case.host = NoQmap /\ case.reg = <<"LTEinfo">>
    BY <1>7 DEF SimCases
  <2>2. ASSUME NEW d \in Credentials, c = Given(d, "1234") PROVE Sound(case)
    <3>1. /\ c.pin = "1234" /\ c.apn = d.apn /\ c.user = d.user /\ c.password = d.password
          /\ c.loopback = FALSE
      BY <2>2 DEF Given, Plain
    <3>2. /\ d.apn \in Texts /\ d.user \in Texts /\ d.password \in Texts
          /\ d.apn # Null => d.user # Null /\ d.password # Null
          /\ Empty(d.user) => Empty(d.password)
      <4>1. CASE d = [apn |-> Null, user |-> Null, password |-> Null, auth |-> 0]
        BY <4>1 DEF Texts, Empty
      <4>2. CASE d = [apn |-> "3gnet", user |-> "", password |-> "", auth |-> 0]
        BY <4>2 DEF Texts, Empty, Null
      <4>3. CASE d = [apn |-> "3gnet", user |-> "carl", password |-> "1234", auth |-> 2]
        BY <4>3 DEF Texts, Empty, Null
      <4>. QED BY <4>1, <4>2, <4>3 DEF Credentials
    <3>. QED BY <1>1, <1>3, <2>1, <3>1, <3>2 DEF Sound, Empty
  <2>3. ASSUME NEW p \in {Null, "4321"}, c = [Plain EXCEPT !.pin = p] PROVE Sound(case)
    <3>1. /\ c.pin = p /\ c.apn = "3gnet" /\ c.user = "" /\ c.password = "" /\ c.loopback = FALSE
      BY <2>3 DEF Plain
    <3>. QED BY <1>1, <1>3, <2>1, <3>1 DEF Sound, Empty, Null
  <2>. QED BY <2>2, <2>3
<1>8. CASE case \in NetCases
  <2>1. \/ \E c \in {Plain, [Plain EXCEPT !.user = "carl"]}, a \in Accounts :
             case.cmd = [c EXCEPT !.pdp = 2] /\ case.host = NoQmap /\ case.reg = a
        \/ \E a \in Infos : case.cmd = Plain /\ case.host = NoQmap /\ case.reg = <<a>>
    BY <1>8 DEF NetCases
  <2>2. /\ case.cmd.pin = Null /\ case.cmd.apn = "3gnet" /\ case.cmd.user \in {"", "carl"}
        /\ case.cmd.password = "" /\ case.cmd.loopback = FALSE
    <3>. Plain.pin = Null /\ Plain.apn = "3gnet" /\ Plain.user = "" /\ Plain.password = ""
      BY DEF Plain
    <3>. Plain.loopback = FALSE BY DEF Plain
    <3>1. CASE case.cmd = Plain BY <3>1
    <3>2. CASE case.cmd = [Plain EXCEPT !.pdp = 2] BY <3>2 DEF Plain
    <3>3. CASE case.cmd = [[Plain EXCEPT !.user = "carl"] EXCEPT !.pdp = 2] BY <3>3 DEF Plain
    <3>. QED BY <2>1, <3>1, <3>2, <3>3
  <2>3. case.host = NoQmap /\ case.reg \in Seq(Kinds) BY <1>2, <1>4, <2>1
  <2>. QED BY <1>1, <2>2, <2>3 DEF Sound, Empty, Null
<1>. QED BY <1>6, <1>7, <1>8

\* What a session begins with satisfies the invariant.
LEMMA InitKeeps == Init => IInv
<1>. SUFFICES ASSUME Init PROVE IInv
  OBVIOUS
<1>1. PICK case \in SetupCases \cup SimCases \cup NetCases :
        /\ case.gen = "old" => case.host = NoQmap
        /\ cmd = case.cmd /\ host = case.host /\ reg = case.reg
        /\ modem = Booted(case.gen, case.card, case.profile, FALSE)
  BY DEF Init
<1>2. /\ pc = "detect" /\ session = 1 /\ trouble = {} /\ faults = 0
      /\ prof = [qmap |-> 0, muxid |-> IF cmd.mux = 0 THEN 0 ELSE cmd.mux + 128, adapter |-> 0,
                 rawIP |-> FALSE, loopback |-> cmd.loopback, old |-> Blank, iptype |-> 0]
      /\ s_9x07 = TRUE /\ s_is_cdma = FALSE /\ ps = FALSE /\ sim = "SIM_ABSENT"
      /\ driver = IF host.driver = "none" THEN "eth" ELSE "raw"
  BY DEF Init
<1>3. Sound(case) BY CasesSound
<1>4. CommandInv /\ AccountInv BY <1>1, <1>3 DEF Sound, CommandInv, AccountInv
<1>5. /\ DOMAIN modem = Pieces /\ DOMAIN modem.mux = Services /\ DOMAIN modem.family = Services
      /\ modem.gen = case.gen /\ modem.link = DefaultLink(case.gen)
      /\ modem.qmap = ~host.wda /\ modem.call = NoCall /\ modem.loop = "off"
      /\ modem.confused = FALSE
  BY <1>1 DEF Booted, Pieces, Services
<1>6. /\ DOMAIN prof = {"qmap", "muxid", "adapter", "rawIP", "loopback", "old", "iptype"}
      /\ prof.rawIP = FALSE /\ prof.loopback = cmd.loopback /\ prof.qmap = 0
  BY <1>2
<1>7. Shape
  <2>1. session \in 1..MaxSessions /\ faults \in 0..MaxFaults /\ pc \in Labels
    BY <1>2, BoundsAssumption DEF Labels
  <2>2. driver \in {"eth", "raw"} /\ cmd.loopback \in BOOLEAN BY <1>2, <1>4 DEF CommandInv
  <2>. QED BY <1>2, <1>5, <1>6, <2>1, <2>2 DEF Shape
<1>8. Understood BY <1>5 DEF Understood
<1>9. /\ host.wda \in BOOLEAN
      /\ case.gen = "old" => ~Multiplexing
      /\ Multiplexing => host.mode # 0
  <2>1. NoQmap.wda = TRUE /\ NoQmap.driver = "none" BY DEF NoQmap
  <2>2. CASE host = NoQmap BY <2>1, <2>2 DEF Multiplexing
  <2>3. CASE host.driver # "none" /\ host.mode \in 1..2 /\ host.wda \in BOOLEAN
    BY <1>1, <2>1, <2>3 DEF Multiplexing
  <2>. QED BY <1>1, <1>3, <2>2, <2>3 DEF Sound
<1>10. ~host.wda => Multiplexing
  <2>1. NoQmap.wda = TRUE BY DEF NoQmap
  <2>. QED BY <1>1, <1>3, <2>1 DEF Sound, Multiplexing
<1>11. QmapInv BY <1>2, <1>5, <1>6, <1>9, <1>10 DEF QmapInv, Qmap
<1>12. LinkInv BY <1>2, <1>5, <1>9 DEF LinkInv, DefaultLink
<1>13. DriverInv BY <1>2 DEF DriverInv
<1>14. ServiceInv BY <1>2, <1>4, <1>5, <1>6 DEF ServiceInv, CommandInv
<1>15. ProfileInv BY <1>2 DEF ProfileInv, Dialled
<1>16. CallInv BY <1>5 DEF CallInv
<1>. QED BY <1>4, <1>7, <1>8, <1>11, <1>12, <1>13, <1>14, <1>15, <1>16 DEF IInv

\* Every step keeps it.
LEMMA NextKeeps == IInv /\ [Next]_vars => IInv'
<1>. SUFFICES ASSUME IInv, [Next]_vars PROVE IInv'
  OBVIOUS
<1>1. CASE UNCHANGED vars
  <2>1. UNCHANGED vars BY <1>1
  <2>. USE DEF vars, chosen, known
  <2>2. CommandInv' /\ AccountInv' BY <2>1, ChosenKept
  <2>3. Shape' /\ Understood' BY <2>1 DEF IInv, Shape, Understood
  <2>4. \A P : Keeps(P) BY <2>1 DEF Keeps
  <2>5. Grows BY <2>1 DEF Grows
  <2>6. QmapInv' /\ LinkInv' BY <2>1 DEF IInv, QmapInv, Qmap, Multiplexing, LinkInv
  <2>7. DriverInv' BY <2>1, <2>4, <2>5, DriverFrame DEF IInv
  <2>8. ServiceInv' BY <2>1, <2>4, ServiceFrame DEF IInv, ToDialled
  <2>9. ProfileInv' BY <2>1, <2>4, <2>5, ProfileFrame DEF IInv
  <2>10. CallInv' BY <2>1, <2>4, CallFrame DEF IInv
  <2>. QED BY <2>2, <2>3, <2>6, <2>7, <2>8, <2>9, <2>10 DEF IInv
<1>2. CASE Detect BY <1>2, DetectKeeps
<1>3. CASE SkipDataFormat \/ SetDataFormat BY <1>3, SkipKeeps, FormatKeeps
<1>4. CASE Bind4 \/ Bind6 BY <1>4, BindKeeps
<1>5. CASE Prefer4 \/ Prefer6 \/ AutoConnect BY <1>5, PreferKeeps
<1>6. CASE LoopBack \/ LoopBackInd BY <1>6, LoopBackKeeps, LoopBackIndKeeps
<1>7. CASE SetSim BY <1>7, SimKeeps
<1>8. CASE SetApn BY <1>8, GetProfileKeeps, CreateProfileKeeps, SetProfileKeeps DEF SetApn
<1>9. CASE RegistrationState \/ SetupDataCall BY <1>9, RegistrationKeeps, CallKeeps
<1>10. CASE GetIPAddress \/ udhcpc_start BY <1>10, AddressKeeps, DhcpKeeps
<1>11. CASE Attach \/ Restart BY <1>11, AttachKeeps, RestartKeeps
<1>. QED BY <1>1, <1>2, <1>3, <1>4, <1>5, <1>6, <1>7, <1>8, <1>9, <1>10, <1>11
         DEF Next, Program, SetEthMode

\* The inductive invariant of the set-up, for any drivers, generations, mux ids and
\* options, and any number of faults and sessions.
THEOREM Invariance == Spec => []IInv
BY InitKeeps, NextKeeps, PTL DEF Spec

\* The modem can read every request of the set-up: what QMIThread.c composes over the
\* structs of MPQMUX.h announces the lengths it has, whatever was asked for.
THEOREM RequestsUnderstood == Spec => []Understood
<1>1. IInv => Understood BY DEF IInv
<1>. QED BY <1>1, Invariance, PTL

\* Once the interface is up driver and modem frame packets alike, but for a failed
\* DHCP, and for a lost answer with QMAP (requestSetEthMode, ql_raw_ip_mode_check).
THEOREM FramingCorrect == Spec => []FramingAgrees
<1>1. IInv => FramingAgrees
  <2>. SUFFICES ASSUME IInv, pc = "up", ~Unsettled({"dhcp", "stuck"}),
                       Qmap => "SetDataFormat" \notin trouble
                PROVE  Framed
    BY DEF FramingAgrees, Unsettled
  <2>1. QmapInv /\ LinkInv /\ DriverInv BY DEF IInv
  <2>2. CASE Qmap BY <2>1, <2>2 DEF QmapInv, LinkInv, Framed
  <2>3. CASE ~Qmap
    <3>1. host.driver = "none" BY <2>1, <2>3 DEF QmapInv, Multiplexing
    <3>. QED BY <2>1, <2>3, <3>1 DEF DriverInv, Framed
  <2>. QED BY <2>2, <2>3
<1>. QED BY <1>1, Invariance, PTL

\* The call is the one asked for, of the network's technology and with the profile of
\* the command line in the modem (WdsStartNwInterfaceReq, requestRegistrationState2,
\* requestSetProfile).
THEOREM CallCorrect == Spec => []CallAsAsked
<1>1. IInv => CallAsAsked
  <2>. SUFFICES ASSUME IInv, modem.call # NoCall, ~cmd.loopback PROVE CallAsAsked
    BY DEF CallAsAsked
  <2>1. ServiceInv /\ ProfileInv /\ CallInv BY DEF IInv
  <2>2. pc \in Dialled BY <2>1 DEF ServiceInv
  <2>3. cmd.apn # Null /\ trouble \cap {"GetProfile", "CreateProfile", "ModifyProfile"} = {}
          => modem.profile = Wanted
    BY <2>1, <2>2 DEF ProfileInv, Unsettled
  <2>. QED BY <2>1, <2>3 DEF CallInv, CallAsAsked
<1>. QED BY <1>1, Invariance, PTL
-----------------------------------------------------------------------------
(* The mux ids                                                             *)

\* Located, whatever the session.
Settled ==
  \/ host.driver \in {"none", "sysfs"} \/ host.mode = 1
  \/ host.table = Quectels /\ cmd.mux <= 2

Ids == (0..255) \ {128}

\* The mux id is one; where the table is read at the right place in every session, it
\* is the adapter's, which is there.
AdapterInv ==
  /\ cmd.pdp \in 1..2 /\ cmd.mux \in 0..9 /\ host.mode \in 0..2 /\ host.table \in Tables
  /\ prof.muxid \in Ids /\ prof.qmap \in 0..2 /\ prof.adapter \in -128..127
  /\ host.driver = "sysfs" => prof.muxid \in {0} \cup 129..137
  /\ host.table = Quectels /\ cmd.mux <= 2 => prof.muxid \in {0, 129, 130}
  /\ Qmap => host.driver \in {"rmnet", "sysfs", "qmimux"} /\ prof.adapter # 0
  /\ Qmap /\ Settled => prof.adapter \in 0..9 /\ AdapterMux(prof.adapter) = prof.muxid
  /\ ~Qmap => prof.adapter = 0

\* Without -m the first detection finds the adapter of the PDN, whatever its mux id.
FirstInv ==
  session = 1 /\ cmd.mux = 0 =>
    IF pc = "detect" THEN prof.muxid = 0 /\ ~Qmap
    ELSE Qmap => prof.adapter \in 0..9 /\ AdapterMux(prof.adapter) = prof.muxid

\* The data port is bound to it, and the call uses that.
BoundInv ==
  /\ host.driver = "none" => modem.mux["WDS"] = 0
  /\ ~Unsettled({"SetDataFormat", "BindMux"}) /\ pc \notin {"detect", "format", "bind4"} =>
       modem.mux["WDS"] = (IF Qmap THEN prof.muxid ELSE 0)
  /\ modem.call # NoCall => modem.call.mux = modem.mux["WDS"]

MuxInv == AdapterInv /\ BoundInv

\* What detection found stays until the next detection.
LEMMA AdapterFrame ==
  ASSUME AdapterInv, UNCHANGED <<cmd, host>>,
         prof'.qmap = prof.qmap, prof'.muxid = prof.muxid, prof'.adapter = prof.adapter
  PROVE  AdapterInv' /\ (Qmap <=> Qmap')
BY DEF AdapterInv, Settled, Qmap, AdapterMux, Muxes

\* A step that binds nothing, starts no call and is not in the middle of the binding.
LEMMA BoundFrame ==
  ASSUME MuxInv, UNCHANGED <<cmd, host>>,
         prof'.qmap = prof.qmap, prof'.muxid = prof.muxid, prof'.adapter = prof.adapter,
         modem'.mux["WDS"] = modem.mux["WDS"], modem'.call = modem.call, Grows,
         \/ pc' \in {"detect", "format", "bind4"}
         \/ pc \notin {"detect", "format", "bind4"}
         \/ "SetDataFormat" \in trouble'
  PROVE  MuxInv'
<1>1. AdapterInv' /\ (Qmap <=> Qmap') BY AdapterFrame DEF MuxInv
<1>2. Unsettled({"SetDataFormat", "BindMux"}) => Unsettled({"SetDataFormat", "BindMux"})'
  BY DEF Unsettled, Grows
<1>3. "SetDataFormat" \in trouble' => Unsettled({"SetDataFormat", "BindMux"})' BY DEF Unsettled
<1>4. BoundInv' BY <1>1, <1>2, <1>3 DEF MuxInv, BoundInv, NoCall
<1>. QED BY <1>1, <1>4 DEF MuxInv

Others == {"SetDataFormat", "FamilyPref", "AutoConnect", "SetLoopBack", "CardStatus", "UimState",
           "PinStatus", "VerifyPin", "GetProfile", "CreateProfile", "ModifyProfile", "SysInfo",
           "ServingSystem", "RuntimeSettings"}

\* Other requests leave bindings and call alone.
LEMMA OthersReply ==
  ASSUME Shape, NEW m, m.req \in Others
  PROVE  Reply(m).modem.mux = modem.mux /\ Reply(m).modem.call = modem.call
<1>. DEFINE Same(w) == w.mux = modem.mux /\ w.call = modem.call
<1>1. /\ Same(modem) /\ Same([modem EXCEPT !.confused = TRUE]) /\ Same([modem EXCEPT !.busy = FALSE])
      /\ Same([modem EXCEPT !.pin = "ready"]) /\ Same([modem EXCEPT !.loop = "pending"])
  BY DEF Shape, Pieces
<1>2. \A v : Same([modem EXCEPT !.family[m.service] = v]) BY DEF Shape, Pieces
<1>3. \A v : Same([modem EXCEPT !.profile = v]) BY DEF Shape, Pieces
<1>. USE DEF Ok, Refused
<1>4. [Refused("unsupported") EXCEPT !.modem.busy = FALSE].modem = [modem EXCEPT !.busy = FALSE]
  OBVIOUS
<1>. SUFFICES Same(Reply(m).modem)
  OBVIOUS
<1>. HIDE DEF Same
<1>5. CASE ~Readable(m)
  <2>1. Reply(m).modem = [modem EXCEPT !.confused = TRUE] BY <1>5 DEF Reply
  <2>. QED BY <1>1, <2>1
<1>6. CASE Readable(m) /\ m.service = "UIM" /\ modem.gen = "old"
  <2>1. Reply(m).modem = modem BY <1>6 DEF Reply
  <2>. QED BY <1>1, <2>1
<1>7. CASE Readable(m) /\ ~(m.service = "UIM" /\ modem.gen = "old")
  <2>1. CASE m.req = "SetDataFormat"
    <3>. DEFINE link == CASE modem.gen = "old" -> "eth" [] modem.gen = "new" -> "ip"
                          [] OTHER -> Value(m, 17)
                with(l, q) == [modem EXCEPT !.link = l, !.qmap = q]
    <3>1. Reply(m) = SetLink(m) BY <1>7, <2>1, ReplyIs
    <3>2. Reply(m).modem = with(link, Value(m, 19) # 0) BY <3>1 DEF SetLink
    <3>. HIDE DEF link
    <3>. QED BY <3>2 DEF Same, Shape, Pieces
  <2>2. CASE m.req = "FamilyPref"
    <3>1. m.service # "UIM" \/ modem.gen # "old" BY <1>7
    <3>2. Reply(m).modem = [modem EXCEPT !.family[m.service] = Value(m, 1)]
      BY <1>7, <2>2, <3>1, ReplyIs
    <3>. QED BY <3>2 DEF Same, Shape, Pieces
  <2>3. CASE m.req = "SetLoopBack" BY <1>1, <1>7, <2>3, ReplyIs
  <2>4. CASE m.req \in {"CardStatus", "UimState"}
    <3>1. CASE modem.busy
      <4>1. Reply(m) = [Refused("unsupported") EXCEPT !.modem.busy = FALSE]
        BY <1>7, <2>4, <3>1, ReplyIs
      <4>. QED BY <1>1, <1>4, <4>1
    <3>2. CASE ~modem.busy
      <4>1. Reply(m).modem = modem BY <1>7, <2>4, <3>2, ReplyIs
      <4>. QED BY <1>1, <4>1
    <3>. QED BY <3>1, <3>2
  <2>5. CASE m.req \in {"AutoConnect", "PinStatus"} BY <1>1, <1>7, <2>5, ReplyIs
  <2>6. CASE m.req = "VerifyPin" BY <1>1, <1>7, <2>6, ReplyIs DEF TryPin
  <2>7. CASE m.req \in {"CreateProfile", "ModifyProfile"} BY <1>3, <1>7, <2>7 DEF Reply
  <2>8. CASE m.req \in {"GetProfile", "SysInfo", "ServingSystem", "RuntimeSettings"}
    BY <1>1, <1>7, <2>8 DEF Reply
  <2>. QED BY <2>1, <2>2, <2>3, <2>4, <2>5, <2>6, <2>7, <2>8 DEF Others
<1>. QED BY <1>5, <1>6, <1>7

\* A step whose request, if it makes one, is another.
LEMMA OthersStep ==
  ASSUME Shape, MuxInv, UNCHANGED prof \/ (/\ prof'.qmap = prof.qmap /\ prof'.muxid = prof.muxid
                                           /\ prof'.adapter = prof.adapter),
         NEW m, m.req \in Others, Readable(m), NEW out \in Outcomes(m), Request(m, out),
         \/ pc' \in {"detect", "format", "bind4"}
         \/ pc \notin {"detect", "format", "bind4"}
         \/ "SetDataFormat" \in trouble'
  PROVE  MuxInv'
<1>1. /\ UNCHANGED chosen /\ Grows /\ modem' \in {modem, Reply(m).modem}
  BY Asked DEF Shape, Grows
<1>2. modem'.mux = modem.mux /\ modem'.call = modem.call BY <1>1, OthersReply
<1>. QED BY <1>1, <1>2, BoundFrame DEF chosen

\* The table has two adapters, whose ids are bytes other than 0 and 0x80.
LEMMA TableIds ==
  ASSUME host.table \in Tables
  PROVE  /\ DOMAIN Muxes = 1..2 /\ \A i \in 1..2 : Muxes[i] \in Ids \ {0}
         /\ \A i \in 1..2 : MuxAt(i) = {Muxes[i]}
         /\ \A i, mux : mux \in MuxAt(i) => mux \in Ids
<1>1. MuxIds \subseteq Ids \ {0}
  <2>1. ASSUME NEW h \in 0..9, NEW l \in 0..9, 16 * h + l \notin {0, 128}
        PROVE  16 * h + l \in Ids \ {0}
    BY <2>1 DEF Ids
  <2>. QED BY <2>1, MuxAssumption
<1>2. CASE host.table = Quectels
  <2>1. DOMAIN Muxes = 1..2 /\ Muxes[1] = 129 /\ Muxes[2] = 130 BY <1>2 DEF Muxes, Quectels
  <2>. QED BY <2>1 DEF MuxAt, Beyond, Ids
<1>3. CASE host.table \in [1..2 -> MuxIds]
  <2>1. DOMAIN Muxes = 1..2 /\ \A i \in 1..2 : Muxes[i] \in MuxIds BY <1>3 DEF Muxes
  <2>2. \A i \in 1..2 : Muxes[i] \in Ids \ {0} BY <1>1, <2>1
  <2>3. \A i \in 1..2 : MuxAt(i) = {Muxes[i]} BY <2>1 DEF MuxAt
  <2>4. Beyond \subseteq Ids BY DEF Beyond, Ids
  <2>5. ASSUME NEW i, NEW mux \in MuxAt(i) PROVE mux \in Ids
    <3>1. CASE i \in 1..2 BY <2>2, <2>3, <2>5, <3>1
    <3>2. CASE i \notin 1..2 BY <2>1, <2>4, <2>5, <3>2 DEF MuxAt
    <3>. QED BY <3>1, <3>2
  <2>. QED BY <2>1, <2>2, <2>3, <2>5
<1>. QED BY <1>2, <1>3 DEF Tables

\* What a detection finds: the id in mux for an adapter, the driver's for it if the
\* place in the table was the right one.
Sited(mode, mux, adapter) ==
  /\ prof'.qmap = mode /\ prof'.muxid = mux /\ prof'.adapter = adapter
  /\ mode \in 1..2 /\ mux \in Ids /\ adapter \in -128..127 /\ adapter # 0
  /\ host.driver \in {"rmnet", "sysfs", "qmimux"}
  /\ host.driver = "sysfs" => mux \in 129..137
  /\ host.table = Quectels /\ cmd.mux <= 2 => mux \in {129, 130}
  /\ Settled \/ prof.muxid = 0 => adapter \in 0..9 /\ AdapterMux(adapter) = mux

\* Detection finds a mux id, and the adapter the driver has for it as long as the
\* table is read at the right place.
LEMMA DetectFinds ==
  ASSUME IInv, AdapterInv, Detect
  PROVE  \/ host.driver = "none" /\ UNCHANGED prof
         \/ \E mode, mux, adapter : Sited(mode, mux, adapter)
<1>1. Shape /\ QmapInv BY DEF IInv
<1>2. /\ host.driver # "none" => host.mode \in 1..2
      /\ cmd.pdp \in 1..2 /\ prof.muxid \in Ids /\ host.table \in Tables
      /\ host.table = Quectels /\ cmd.mux <= 2 => prof.muxid \in {0, 129, 130}
  BY <1>1 DEF AdapterInv, QmapInv, Multiplexing
<1>3. /\ DOMAIN Muxes = 1..2 /\ \A i \in 1..2 : Muxes[i] \in Ids \ {0}
      /\ \A i \in 1..2 : MuxAt(i) = {Muxes[i]}
      /\ \A i, mux : mux \in MuxAt(i) => mux \in Ids
  BY <1>2, TableIds
<1>4. host.table = Quectels => \A i \in 1..2 : Muxes[i] = 128 + i BY DEF Muxes, Quectels
<1>5. /\ prof.muxid = 0 => Indexed = cmd.pdp
      /\ prof.muxid # 0 => Indexed = prof.muxid - 128
      /\ Indexed \in -128..127 /\ Indexed # 0
  BY <1>2 DEF Indexed, Ids
<1>6. host.table = Quectels /\ cmd.mux <= 2 => Indexed \in 1..2 BY <1>2, <1>5
<1>7. \A mode, mux, adapter :
        Multiplexed(mode, mux, adapter) =>
          prof'.qmap = mode /\ prof'.muxid = mux /\ prof'.adapter = adapter
  BY <1>1 DEF Multiplexed, Shape
<1>8. \A i \in 1..2 : host.driver # "sysfs" => AdapterMux(i) = Muxes[i] BY <1>3 DEF AdapterMux
<1>9. CASE DetectRmnet
  <2>1. host.driver = "rmnet" /\ host.mode \in 1..2 BY <1>2, <1>9 DEF DetectRmnet
  <2>2. CASE host.mode = 1
    <3>1. Multiplexed(1, Muxes[1], 1) BY <1>3, <1>9, <2>2 DEF DetectRmnet
    <3>2. host.table = Quectels => Muxes[1] = 129 BY <1>4
    <3>3. Sited(1, Muxes[1], 1) BY <1>3, <1>7, <1>8, <2>1, <3>1, <3>2 DEF Sited
    <3>. QED BY <3>3
  <2>3. CASE host.mode = 2
    <3>1. PICK mux \in MuxAt(Indexed) : Multiplexed(2, mux, Indexed)
      BY <1>9, <2>3 DEF DetectRmnet
    <3>2. Settled => host.table = Quectels /\ cmd.mux <= 2 BY <2>1, <2>3 DEF Settled
    <3>3. Indexed \in 1..2 => mux = Muxes[Indexed] BY <1>3, <3>1
    <3>4. Settled \/ prof.muxid = 0 => Indexed \in 1..2 BY <1>2, <1>5, <1>6, <3>2
    <3>5. host.table = Quectels /\ cmd.mux <= 2 => mux \in {129, 130} BY <1>4, <1>6, <3>3
    <3>6. Settled \/ prof.muxid = 0 => Indexed \in 0..9 /\ AdapterMux(Indexed) = mux
      BY <1>8, <2>1, <3>3, <3>4
    <3>7. Sited(2, mux, Indexed) BY <1>3, <1>5, <1>7, <2>1, <3>1, <3>5, <3>6 DEF Sited
    <3>. QED BY <3>7
  <2>. QED BY <2>1, <2>2, <2>3
<1>10. CASE DetectSysfs
  <2>. DEFINE mux == CASE host.mode = 1 -> 129
                       [] host.mode > 1 /\ prof.muxid = 0 -> cmd.pdp + 128
                       [] OTHER -> prof.muxid
  <2>1. host.driver = "sysfs" /\ host.mode \in 1..2 BY <1>2, <1>10 DEF DetectSysfs
  <2>2. mux \in 129..137 BY <1>2, <2>1 DEF AdapterInv
  <2>3. host.table = Quectels /\ cmd.mux <= 2 => mux \in {129, 130} BY <1>2, <2>1
  <2>4. Multiplexed(host.mode, mux, mux - 128) BY <1>10 DEF DetectSysfs
  <2>. HIDE DEF mux
  <2>5. mux - 128 \in 1..9 /\ 128 + (mux - 128) = mux BY <2>2
  <2>6. AdapterMux(mux - 128) = mux BY <2>1, <2>5 DEF AdapterMux
  <2>7. mux \in Ids BY <2>2 DEF Ids
  <2>8. Sited(host.mode, mux, mux - 128)
    BY <1>7, <2>1, <2>2, <2>3, <2>4, <2>5, <2>6, <2>7 DEF Sited
  <2>. QED BY <2>8
<1>11. CASE DetectQmimux
  <2>1. host.driver = "qmimux" /\ host.mode \in 1..2 BY <1>2, <1>11 DEF DetectQmimux
  <2>2. CASE host.mode = 1
    <3>1. Multiplexed(1, Muxes[1], 1) BY <1>11, <2>2 DEF DetectQmimux
    <3>2. host.table = Quectels => Muxes[1] = 129 BY <1>4
    <3>3. Sited(1, Muxes[1], 1) BY <1>3, <1>7, <1>8, <2>1, <3>1, <3>2 DEF Sited
    <3>. QED BY <3>3
  <2>3. CASE host.mode = 2
    <3>. DEFINE adapter(mux) == IF prof.muxid = 0 THEN cmd.pdp ELSE mux - 128
    <3>1. PICK mux \in MuxAt(Indexed) : Multiplexed(2, mux, adapter(mux))
      BY <1>11, <2>3 DEF DetectQmimux
    <3>2. Settled => host.table = Quectels /\ cmd.mux <= 2 BY <2>1, <2>3 DEF Settled
    <3>3. Indexed \in 1..2 => mux = Muxes[Indexed] BY <1>3, <3>1
    <3>4. host.table = Quectels /\ cmd.mux <= 2 => mux = 128 + Indexed BY <1>4, <1>6, <3>3
    <3>5. host.table = Quectels /\ cmd.mux <= 2 => mux \in {129, 130} BY <1>6, <3>4
    <3>6. mux \in Ids BY <1>3, <3>1
    <3>7. adapter(mux) \in -128..127 /\ adapter(mux) # 0 BY <1>2, <3>6 DEF Ids
    <3>8. CASE prof.muxid = 0
      <4>1. adapter(mux) = cmd.pdp /\ mux = Muxes[cmd.pdp] BY <1>2, <1>5, <3>3, <3>8
      <4>2. AdapterMux(cmd.pdp) = mux /\ cmd.pdp \in 0..9 BY <1>2, <1>8, <2>1, <4>1
      <4>. HIDE DEF adapter
      <4>4. adapter(mux) \in 0..9 /\ AdapterMux(adapter(mux)) = mux BY <4>1, <4>2
      <4>3. Sited(2, mux, adapter(mux)) BY <1>7, <2>1, <3>1, <3>5, <3>6, <3>7, <4>4 DEF Sited
      <4>. QED BY <4>3
    <3>9. CASE prof.muxid # 0
      <4>1. Settled => adapter(mux) = Indexed /\ Indexed \in 1..2
        BY <1>6, <3>2, <3>4, <3>9
      <4>. HIDE DEF adapter
      <4>2. Settled => adapter(mux) \in 0..9 /\ AdapterMux(adapter(mux)) = mux
        BY <1>8, <2>1, <3>3, <4>1
      <4>3. Sited(2, mux, adapter(mux))
        BY <1>7, <2>1, <3>1, <3>5, <3>6, <3>7, <3>9, <4>2 DEF Sited
      <4>. QED BY <4>3
    <3>. QED BY <3>8, <3>9
  <2>. QED BY <2>1, <2>2, <2>3
<1>. QED BY <1>9, <1>10, <1>11 DEF Detect

\* Detection leaves the mux id and the adapter it found.
LEMMA DetectBinds == ASSUME IInv, MuxInv, Detect PROVE MuxInv'
<1>1. pc' = "format" /\ UNCHANGED <<cmd, host, trouble, modem>>
  BY DEF Detect, Goto, chosen
<1>2. AdapterInv BY DEF MuxInv
<1>3. ASSUME UNCHANGED prof PROVE AdapterInv'
  BY <1>1, <1>2, <1>3, AdapterFrame
<1>4. ASSUME NEW mode, NEW mux, NEW adapter, Sited(mode, mux, adapter) PROVE AdapterInv'
  <2>1. AdapterMux(adapter)' = AdapterMux(adapter)
    BY <1>1 DEF AdapterMux, Muxes
  <2>2. Qmap' BY <1>4 DEF Qmap, Sited
  <2>3. Settled' = Settled BY <1>1 DEF Settled
  <2>4. prof'.adapter = adapter /\ prof'.muxid = mux BY <1>4 DEF Sited
  <2>5. Settled => adapter \in 0..9 /\ AdapterMux(adapter) = mux BY <1>4 DEF Sited
  <2>6. Settled' => prof'.adapter \in 0..9 /\ AdapterMux(prof.adapter)' = prof'.muxid
    BY <1>1, <2>3, <2>4, <2>5 DEF AdapterMux, Muxes
  <2>. QED BY <1>1, <1>2, <1>4, <2>2, <2>6 DEF AdapterInv, Sited
<1>5. AdapterInv' BY <1>2, <1>3, <1>4, DetectFinds
<1>6. BoundInv' BY <1>1 DEF MuxInv, BoundInv, NoCall
<1>. QED BY <1>5, <1>6 DEF MuxInv

\* A step that asks nothing, outside the binding.
LEMMA StillBound ==
  ASSUME MuxInv, UNCHANGED <<cmd, host>>,
         prof'.qmap = prof.qmap, prof'.muxid = prof.muxid, prof'.adapter = prof.adapter,
         modem'.mux = modem.mux, modem'.call = modem.call, Grows,
         pc' \in {"detect", "format", "bind4"} \/ pc \notin {"detect", "format", "bind4"}
  PROVE  MuxInv'
BY BoundFrame

\* The data format is settled before the binding, or else it is not bound.
LEMMA FormatBinds == ASSUME IInv, MuxInv, SkipDataFormat \/ SetDataFormat PROVE MuxInv'
<1>1. Shape BY DEF IInv
<1>2. CASE SkipDataFormat
  <2>1. /\ pc' = "bind4" /\ UNCHANGED <<cmd, host, modem, trouble>>
        /\ prof' = [prof EXCEPT !.rawIP = TRUE]
    BY <1>2 DEF SkipDataFormat, Goto, chosen
  <2>2. prof'.qmap = prof.qmap /\ prof'.muxid = prof.muxid /\ prof'.adapter = prof.adapter
    BY <1>1, <2>1 DEF Shape
  <2>. QED BY <2>1, <2>2, StillBound DEF Grows
<1>3. CASE SetDataFormat
  <2>. DEFINE m == WdaSetDataFormat(Qmap, 5)
  <2>1. PICK out \in Outcomes(m) :
          LET told == GetTLV(out.r.tlvs, 17)
              raw == IF told # Absent THEN told.val = "ip" ELSE Qmap
          IN /\ Request(m, out) /\ Done(out, "bind4")
             /\ prof' = [prof EXCEPT !.rawIP = IF told # Absent \/ Qmap THEN raw ELSE @]
    BY <1>3 DEF SetDataFormat
  <2>2. Qmap \in BOOLEAN BY DEF Qmap
  <2>3. Readable(m) /\ m.service = "WDA" /\ m.req = "SetDataFormat"
    BY <2>2, FormatReadable DEF WdaSetDataFormat, Filled, ComposeQMUXMsg
  <2>. HIDE DEF m
  <2>4. prof'.qmap = prof.qmap /\ prof'.muxid = prof.muxid /\ prof'.adapter = prof.adapter
    BY <1>1, <2>1 DEF Shape
  <2>5. Request(m, out) /\ Done(out, "bind4") BY <2>1
  <2>6. out.r = Reply(m) \/ "SetDataFormat" \in trouble'
    BY <1>1, <2>3, <2>5, Asked DEF Shape
  <2>7. Reply(m).err = "ok"
    <3>1. Reply(m) = SetLink(m) BY <2>3, ReplyIs
    <3>2. \A w, tlvs : Ok(w, tlvs).err = "ok" BY DEF Ok
    <3>. QED BY <3>1, <3>2 DEF SetLink
  <2>8. pc' = "bind4" \/ "SetDataFormat" \in trouble' BY <2>5, <2>6, <2>7 DEF Done, Goto
  <2>9. m.req \in Others BY <2>3 DEF Others
  <2>. QED BY <1>1, <2>3, <2>4, <2>5, <2>8, <2>9, OthersStep
<1>. QED BY <1>2, <1>3

\* A modem that was asked has bound the data port to the mux id; without an adapter
\* there is none, and nothing to bind.
LEMMA BindBinds == ASSUME IInv, MuxInv, Bind4 \/ Bind6 PROVE MuxInv'
<1>1. Shape /\ ServiceInv /\ QmapInv BY DEF IInv
<1>2. ASSUME NEW label \in Before, NEW next, NEW service \in Services, NEW wanted \in BOOLEAN,
             Bind(label, next, service, wanted), label = "bind4" => service = "WDS" /\ wanted
      PROVE  MuxInv'
  <2>1. /\ pc = label /\ UNCHANGED prof /\ modem.call = NoCall
        /\ prof'.qmap = prof.qmap /\ prof'.muxid = prof.muxid /\ prof'.adapter = prof.adapter
    BY <1>1, <1>2 DEF Bind, ServiceInv, Before, Dialled
  <2>. DEFINE m == WdsSetQMUXBindMuxDataPort(service, prof.muxid)
  <2>2. CASE wanted /\ prof.adapter # 0
    <3>1. PICK out \in Outcomes(m) : Request(m, out) /\ Done(out, next)
      BY <1>2, <2>2 DEF Bind
    <3>2. Readable(m) /\ m.service = service /\ m.req = "BindMux" BY FixedReadable, Headers
    <3>3. Value(m, 17) = prof.muxid BY FixedValues
    <3>. HIDE DEF m
    <3>4. /\ UNCHANGED chosen /\ modem' \in {modem, Reply(m).modem} /\ Grows
          /\ modem' = Reply(m).modem \/ "BindMux" \in trouble'
      BY <1>1, <3>1, <3>2, Asked DEF Shape, Grows
    <3>5. m.service # "UIM" BY <3>2 DEF Services
    <3>6. Reply(m).modem = [modem EXCEPT !.mux[service] = prof.muxid]
      BY <3>2, <3>3, <3>5, ReplyIs DEF Ok
    <3>7. /\ Reply(m).modem.call = NoCall
          /\ Reply(m).modem.mux["WDS"] = (IF service = "WDS" THEN prof.muxid ELSE modem.mux["WDS"])
      BY <1>1, <2>1, <3>6 DEF Shape, Pieces, Services
    <3>8. modem'.call = NoCall BY <2>1, <3>4, <3>7
    <3>9. Qmap /\ host.driver # "none"
      BY <1>1, <2>2 DEF MuxInv, AdapterInv, QmapInv, Multiplexing
    <3>10. AdapterInv' /\ (Qmap <=> Qmap') BY <2>1, <3>4, AdapterFrame DEF MuxInv, chosen
    <3>11. BoundInv'
      <4>1. CASE "BindMux" \in trouble'
        BY <3>4, <3>8, <3>9, <4>1 DEF BoundInv, Unsettled, NoCall, chosen
      <4>2. CASE modem' = Reply(m).modem /\ service = "WDS"
        <5>1. modem'.mux["WDS"] = prof.muxid BY <3>7, <4>2
        <5>. QED BY <2>1, <3>4, <3>8, <3>9, <3>10, <5>1 DEF BoundInv, NoCall, chosen
      <4>3. CASE modem' = Reply(m).modem /\ service # "WDS"
        <5>1. modem'.mux["WDS"] = modem.mux["WDS"] BY <3>7, <4>3
        <5>2. pc \notin {"detect", "format", "bind4"} BY <1>2, <2>1, <4>3 DEF Before
        <5>. QED BY <2>1, <3>4, <3>8, <5>1, <5>2, BoundFrame DEF MuxInv, chosen
      <4>. QED BY <3>4, <4>1, <4>2, <4>3
    <3>. QED BY <3>10, <3>11 DEF MuxInv
  <2>3. CASE ~(wanted /\ prof.adapter # 0)
    <3>1. UNCHANGED <<chosen, trouble, modem>> BY <1>2, <2>3 DEF Bind
    <3>2. CASE label # "bind4"
      <4>1. pc \notin {"detect", "format", "bind4"} BY <2>1, <3>2, <1>2 DEF Before
      <4>. QED BY <2>1, <3>1, <4>1, StillBound DEF chosen, Grows
    <3>3. CASE label = "bind4"
      <4>1. ~Qmap BY <1>2, <2>3, <3>3 DEF MuxInv, AdapterInv
      <4>2. host.driver = "none" BY <1>1, <2>1, <3>3, <4>1 DEF QmapInv, Multiplexing
      <4>3. modem.mux["WDS"] = 0 BY <4>2 DEF MuxInv, BoundInv
      <4>4. AdapterInv' /\ (Qmap <=> Qmap') BY <2>1, <3>1, AdapterFrame DEF MuxInv, chosen
      <4>5. BoundInv' BY <2>1, <3>1, <4>1, <4>3, <4>4 DEF BoundInv, NoCall
      <4>. QED BY <4>4, <4>5 DEF MuxInv
    <3>. QED BY <3>2, <3>3
  <2>. QED BY <2>2, <2>3
<1>3. IPv6 \in BOOLEAN BY DEF IPv6
<1>. QED BY <1>2, <1>3 DEF Bind4, Bind6, Before, Services

\* The steps between binding and call, and the loop's other requests.
LEMMA SetupBinds ==
  ASSUME IInv, MuxInv, Prefer4 \/ Prefer6 \/ AutoConnect \/ LoopBack \/ SetSim \/ SetApn
  PROVE  MuxInv'
<1>1. Shape /\ CommandInv BY DEF IInv
<1>3. ASSUME NEW m, m.req \in Others, Readable(m), NEW out \in Outcomes(m), Request(m, out),
             prof'.qmap = prof.qmap, prof'.muxid = prof.muxid, prof'.adapter = prof.adapter,
             pc \notin {"detect", "format", "bind4"}
      PROVE  MuxInv'
  BY <1>1, <1>3, OthersStep
<1>4. ASSUME UNCHANGED <<chosen, trouble, modem, prof>>, pc \notin {"detect", "format", "bind4"}
      PROVE  MuxInv'
  BY <1>4, StillBound DEF chosen, Grows
<1>5. CASE Prefer4 \/ Prefer6
  <2>1. UNCHANGED prof /\ pc \notin {"detect", "format", "bind4"} BY <1>5 DEF Prefer4, Prefer6
  <2>2. \/ \E service \in Services, family \in {4, 6} :
             \E out \in Outcomes(WdsSetClientIPFamilyPref(service, family)) :
               Request(WdsSetClientIPFamilyPref(service, family), out)
        \/ UNCHANGED <<chosen, trouble, modem>>
    BY <1>5 DEF Prefer4, Prefer6, Services
  <2>3. ASSUME NEW service \in Services, NEW family \in {4, 6},
               NEW out \in Outcomes(WdsSetClientIPFamilyPref(service, family)),
               Request(WdsSetClientIPFamilyPref(service, family), out)
        PROVE  MuxInv'
    <3>. DEFINE m == WdsSetClientIPFamilyPref(service, family)
    <3>1. Readable(m) /\ m.req \in Others BY FixedReadable, Headers DEF Others
    <3>. HIDE DEF m
    <3>. QED BY <1>3, <2>1, <2>3, <3>1 DEF m
  <2>. QED BY <1>4, <2>1, <2>2, <2>3
<1>6. CASE AutoConnect
  <2>. DEFINE m == WdsSetAutoConnect(0)
  <2>1. PICK out \in Outcomes(m) : Request(m, out) BY <1>6 DEF AutoConnect
  <2>2. UNCHANGED prof /\ pc \notin {"detect", "format", "bind4"} BY <1>6 DEF AutoConnect
  <2>3. Readable(m) /\ m.req \in Others BY FixedReadable, Headers DEF Others
  <2>. HIDE DEF m
  <2>. QED BY <1>3, <2>1, <2>2, <2>3
<1>7. CASE LoopBack
  <2>. DEFINE m == WdaSetLoopBackReq(1)
  <2>1. pc \notin {"detect", "format", "bind4"} BY <1>7 DEF LoopBack
  <2>2. CASE ~prof.loopback
    <3>1. UNCHANGED <<chosen, trouble, modem, prof>> BY <1>7, <2>2 DEF LoopBack
    <3>. QED BY <1>4, <2>1, <3>1
  <2>3. CASE prof.loopback
    <3>1. PICK out \in Outcomes(m) :
            Request(m, out) /\ prof' = [prof EXCEPT !.loopback = (out.r.err = "invalid")]
      BY <1>7, <2>3 DEF LoopBack
    <3>2. Readable(m) /\ m.req \in Others BY FixedReadable, Headers DEF Others
    <3>. HIDE DEF m
    <3>3. prof'.qmap = prof.qmap /\ prof'.muxid = prof.muxid /\ prof'.adapter = prof.adapter
      BY <1>1, <3>1 DEF Shape
    <3>. QED BY <1>3, <2>1, <3>1, <3>2, <3>3
  <2>. QED BY <2>2, <2>3
<1>8. CASE GetSIMStatus
  <2>. DEFINE m == Bare(IF s_9x07 THEN "UIM" ELSE "DMS", IF s_9x07 THEN "CardStatus" ELSE "UimState")
  <2>1. PICK out \in Outcomes(m) : Request(m, out) BY <1>8 DEF GetSIMStatus
  <2>2. UNCHANGED prof /\ pc \notin {"detect", "format", "bind4"} BY <1>8 DEF GetSIMStatus
  <2>3. Readable(m) /\ m.req \in Others BY FixedReadable, Headers DEF Others
  <2>. HIDE DEF m
  <2>. QED BY <1>3, <2>1, <2>2, <2>3
<1>9. CASE GetPINStatus
  <2>. DEFINE m == Bare("DMS", "PinStatus")
  <2>1. PICK out \in Outcomes(m) : Request(m, out) BY <1>9 DEF GetPINStatus
  <2>2. UNCHANGED prof /\ pc \notin {"detect", "format", "bind4"} BY <1>9 DEF GetPINStatus
  <2>3. Readable(m) /\ m.req \in Others BY FixedReadable, Headers DEF Others
  <2>. HIDE DEF m
  <2>. QED BY <1>3, <2>1, <2>2, <2>3
<1>10. CASE EnterSimPin
  <2>. DEFINE m == IF s_9x07 THEN UimVerifyPinReqSend(cmd.pin) ELSE DmsUIMVerifyPinReqSend(cmd.pin)
  <2>1. UNCHANGED prof /\ pc \notin {"detect", "format", "bind4"} BY <1>10 DEF EnterSimPin
  <2>2. \/ \E out \in Outcomes(m) : Request(m, out)
        \/ UNCHANGED <<chosen, trouble, modem>>
    BY <1>10 DEF EnterSimPin
  <2>3. Readable(m) /\ m.req \in Others
    <3>1. Len(cmd.pin) \in Nat BY <1>1, TextLengths
    <3>2. /\ Readable(DmsUIMVerifyPinReqSend(cmd.pin)) /\ Readable(UimVerifyPinReqSend(cmd.pin))
          /\ DmsUIMVerifyPinReqSend(cmd.pin).req = "VerifyPin"
          /\ UimVerifyPinReqSend(cmd.pin).req = "VerifyPin"
      BY <3>1, PinReadable, Headers
    <3>. QED BY <3>2 DEF Others
  <2>. HIDE DEF m
  <2>. QED BY <1>3, <1>4, <2>1, <2>2, <2>3
<1>11. CASE GetProfile
  <2>. DEFINE m == WdsGetProfileSettingsReqSend(cmd.pdp)
  <2>1. PICK out \in Outcomes(m) :
          /\ Request(m, out)
          /\ prof' = [prof EXCEPT !.iptype = IpType,
                                  !.old = IF out.r.err = "ok" THEN Value(out.r, 1) ELSE Blank]
    BY <1>11 DEF GetProfile
  <2>2. pc \notin {"detect", "format", "bind4"} BY <1>11 DEF GetProfile
  <2>3. Readable(m) /\ m.req \in Others BY FixedReadable, Headers DEF Others
  <2>. HIDE DEF m
  <2>4. prof'.qmap = prof.qmap /\ prof'.muxid = prof.muxid /\ prof'.adapter = prof.adapter
    BY <1>1, <2>1 DEF Shape
  <2>. QED BY <1>3, <2>1, <2>2, <2>3, <2>4
<1>12. CASE CreateProfile
  <2>. DEFINE m == WdsCreateProfileSettingsReqSend(cmd.pdp)
  <2>1. PICK out \in Outcomes(m) : Request(m, out) BY <1>12 DEF CreateProfile
  <2>2. UNCHANGED prof /\ pc \notin {"detect", "format", "bind4"} BY <1>12 DEF CreateProfile
  <2>3. Readable(m) /\ m.req \in Others BY FixedReadable, Headers DEF Others
  <2>. HIDE DEF m
  <2>. QED BY <1>3, <2>1, <2>2, <2>3
<1>13. CASE SetProfile
  <2>. DEFINE m == WdsModifyProfileSettingsReq(cmd, prof.iptype)
  <2>1. UNCHANGED prof /\ pc \notin {"detect", "format", "bind4"} BY <1>13 DEF SetProfile
  <2>2. \/ \E out \in Outcomes(m) : Request(m, out)
        \/ UNCHANGED <<chosen, trouble, modem>>
    BY <1>13 DEF SetProfile
  <2>3. Readable(m) /\ m.req \in Others
    BY <1>1, TextLengths, ModifyReadable, Headers DEF Others
  <2>. HIDE DEF m
  <2>. QED BY <1>3, <1>4, <2>1, <2>2, <2>3
<1>. QED BY <1>5, <1>6, <1>7, <1>8, <1>9, <1>10, <1>11, <1>12, <1>13 DEF SetSim, SetApn

\* Registration, address, DHCP, loopback's indication and the modem's own step.
LEMMA LoopBinds ==
  ASSUME IInv, MuxInv,
         RegistrationState \/ GetIPAddress \/ udhcpc_start \/ LoopBackInd \/ Attach
  PROVE  MuxInv'
<1>1. Shape BY DEF IInv
<1>2. ASSUME NEW m, m.req \in Others, Readable(m), NEW out \in Outcomes(m), Request(m, out),
             UNCHANGED prof, pc \notin {"detect", "format", "bind4"}
      PROVE  MuxInv'
  BY <1>1, <1>2, OthersStep
<1>3. CASE RegistrationState
  <2>1. UNCHANGED prof /\ pc \notin {"detect", "format", "bind4"} BY <1>3 DEF RegistrationState
  <2>2. \E req \in {"SysInfo", "ServingSystem"} :
          \E out \in Outcomes(Bare("NAS", req)) : Request(Bare("NAS", req), out)
    BY <1>3 DEF RegistrationState, GetSysInfo, GetServingSystem
  <2>3. PICK req \in {"SysInfo", "ServingSystem"} :
          \E out \in Outcomes(Bare("NAS", req)) : Request(Bare("NAS", req), out)
    BY <2>2
  <2>. DEFINE m == Bare("NAS", req)
  <2>4. Readable(m) /\ m.req \in Others BY FixedReadable, Headers DEF Others
  <2>. HIDE DEF m
  <2>. QED BY <1>2, <2>1, <2>3, <2>4 DEF m
<1>4. CASE GetIPAddress
  <2>. DEFINE m == WdsGetRuntimeSettingReq("WDS")
  <2>1. PICK out \in Outcomes(m) : Request(m, out) BY <1>4 DEF GetIPAddress
  <2>2. UNCHANGED prof /\ pc \notin {"detect", "format", "bind4"} BY <1>4 DEF GetIPAddress
  <2>3. Readable(m) /\ m.req \in Others BY FixedReadable, Headers DEF Others
  <2>. HIDE DEF m
  <2>. QED BY <1>2, <2>1, <2>2, <2>3
<1>5. CASE udhcpc_start
  <2>1. UNCHANGED <<cmd, host, prof, modem>> /\ pc = "dhcp" BY <1>5 DEF udhcpc_start, chosen
  <2>2. Grows BY <1>5 DEF udhcpc_start, Grows
  <2>. QED BY <2>1, <2>2, StillBound
<1>6. CASE LoopBackInd
  <2>1. UNCHANGED <<cmd, host, trouble>> /\ pc = "loop" BY <1>6 DEF LoopBackInd, chosen
  <2>2. prof'.qmap = prof.qmap /\ prof'.muxid = prof.muxid /\ prof'.adapter = prof.adapter
    BY <1>1, <1>6 DEF LoopBackInd, Shape
  <2>3. modem'.mux = modem.mux /\ modem'.call = modem.call
    BY <1>1, <1>6 DEF LoopBackInd, Shape, Pieces
  <2>. QED BY <2>1, <2>2, <2>3, StillBound DEF Grows
<1>7. CASE Attach
  <2>1. UNCHANGED <<cmd, host, trouble, pc, prof>> BY <1>7 DEF Attach, chosen
  <2>2. modem'.mux = modem.mux /\ modem'.call = modem.call
    BY <1>1, <1>7 DEF Attach, Shape, Pieces
  <2>. QED BY <2>1, <2>2, StillBound DEF Grows
<1>. QED BY <1>3, <1>4, <1>5, <1>6, <1>7

\* A call goes where its data port is bound to.
LEMMA CallBinds == ASSUME IInv, MuxInv, SetupDataCall PROVE MuxInv'
<1>. DEFINE m == WdsStartNwInterfaceReq("WDS", cmd, s_is_cdma, 4)
<1>1. PICK out \in Outcomes(m) : Request(m, out) BY DEF SetupDataCall
<1>2. pc = "loop" /\ UNCHANGED prof BY DEF SetupDataCall
<1>3. Shape /\ CommandInv BY DEF IInv
<1>4. Readable(m) BY <1>3, TextLengths, StartReadable DEF Shape
<1>5. m.service = "WDS" /\ m.req = "StartNw"
  BY DEF WdsStartNwInterfaceReq, Appended, ComposeQMUXMsg
<1>. HIDE DEF m
<1>6. UNCHANGED chosen /\ modem' \in {modem, Reply(m).modem} /\ Grows
  BY <1>1, <1>3, <1>4, <1>5, Asked DEF Shape, Grows
<1>7. \/ Reply(m).modem = modem
      \/ \E call : Reply(m).modem = [modem EXCEPT !.call = call] /\ call.mux = modem.mux["WDS"]
  <2>1. Reply(m) = StartCall(m) BY <1>4, <1>5, ReplyIsToo
  <2>. DEFINE call == [tech |-> Value(m, 48), apn |-> Value(m, 20), user |-> Value(m, 23),
                       password |-> Value(m, 24), auth |-> Number(m, 22), family |-> Value(m, 25),
                       pdp |-> Number(m, 49), mux |-> modem.mux[m.service], service |-> m.service]
  <2>2. Reply(m).modem \in {modem, [modem EXCEPT !.call = call]}
    BY <2>1 DEF StartCall, Ok, Refused
  <2>3. call.mux = modem.mux["WDS"] BY <1>5
  <2>. HIDE DEF call
  <2>. QED BY <2>2, <2>3
<1>8. CASE modem' = modem BY <1>2, <1>6, <1>8, StillBound DEF chosen
<1>9. ASSUME NEW call, modem' = [modem EXCEPT !.call = call], call.mux = modem.mux["WDS"]
      PROVE  MuxInv'
  <2>1. modem'.mux = modem.mux /\ modem'.call = call BY <1>3, <1>9 DEF Shape, Pieces
  <2>2. AdapterInv' /\ (Qmap <=> Qmap') BY <1>2, <1>6, AdapterFrame DEF MuxInv, chosen
  <2>3. UNCHANGED host BY <1>6 DEF chosen
  <2>4. Unsettled({"SetDataFormat", "BindMux"}) => Unsettled({"SetDataFormat", "BindMux"})'
    BY <1>6 DEF Unsettled, Grows
  <2>5. BoundInv' BY <1>2, <1>9, <2>1, <2>2, <2>3, <2>4 DEF MuxInv, BoundInv
  <2>. QED BY <2>2, <2>5 DEF MuxInv
<1>. QED BY <1>6, <1>7, <1>8, <1>9

\* After a restart nothing is bound, and what detection found is kept.
LEMMA RestartBinds == ASSUME IInv, MuxInv, Restart PROVE MuxInv'
<1>1. PICK busy \in BOOLEAN : modem' = Booted(modem.gen, modem.card, modem.profile, busy)
  BY DEF Restart
<1>2. pc' = "detect" /\ UNCHANGED <<cmd, host, prof>> BY DEF Restart, Goto, chosen
<1>3. modem'.mux["WDS"] = 0 /\ modem'.call = NoCall BY <1>1 DEF Booted
<1>4. AdapterInv' BY <1>2, AdapterFrame DEF MuxInv
<1>5. BoundInv' BY <1>2, <1>3 DEF BoundInv, NoCall
<1>. QED BY <1>4, <1>5 DEF MuxInv

\* At the start nothing is bound, and the mux id is that of -m.
LEMMA InitBinds == Init => MuxInv /\ FirstInv
<1>. SUFFICES ASSUME Init PROVE MuxInv /\ FirstInv
  OBVIOUS
<1>1. PICK case \in SetupCases \cup SimCases \cup NetCases :
        /\ cmd = case.cmd /\ host = case.host
        /\ modem = Booted(case.gen, case.card, case.profile, FALSE)
  BY DEF Init
<1>2. /\ pc = "detect"
      /\ prof = [qmap |-> 0, muxid |-> IF cmd.mux = 0 THEN 0 ELSE cmd.mux + 128, adapter |-> 0,
                 rawIP |-> FALSE, loopback |-> cmd.loopback, old |-> Blank, iptype |-> 0]
  BY DEF Init
<1>3. cmd.pdp \in 1..2 /\ cmd.mux \in 0..9
  <2>1. Plain.pdp = 1 /\ Plain.mux = 0 BY DEF Plain
  <2>2. \A d, pin : Given(d, pin).pdp = 1 /\ Given(d, pin).mux = 0 BY DEF Given, Plain
  <2>3. CASE case \in SetupCases
    <3>1. PICK p \in 1..2, o \in Options, h \in Hosts, g \in Generations, v \in Ways :
            case = Setup(p, o, h, g, v)
      BY <2>3 DEF SetupCases
    <3>2. case.cmd.pdp = p /\ case.cmd.mux = o BY <3>1 DEF Setup, Plain
    <3>. QED BY <1>1, <3>2, MuxAssumption
  <2>4. CASE case \in SimCases
    <3>1. \/ \E d \in Credentials : case.cmd = Given(d, "1234")
          \/ \E p \in {Null, "4321"} : case.cmd = [Plain EXCEPT !.pin = p]
      BY <2>4 DEF SimCases
    <3>2. ASSUME NEW d, case.cmd = Given(d, "1234") PROVE cmd.pdp = 1 /\ cmd.mux = 0
      BY <1>1, <2>2, <3>2
    <3>3. ASSUME NEW p, case.cmd = [Plain EXCEPT !.pin = p] PROVE cmd.pdp = 1 /\ cmd.mux = 0
      BY <1>1, <3>3 DEF Plain
    <3>. QED BY <3>1, <3>2, <3>3
  <2>5. CASE case \in NetCases
    <3>1. \/ \E c \in {Plain, [Plain EXCEPT !.user = "carl"]} : case.cmd = [c EXCEPT !.pdp = 2]
          \/ case.cmd = Plain
      BY <2>5 DEF NetCases
    <3>2. CASE case.cmd = Plain BY <1>1, <2>1, <3>2
    <3>3. CASE case.cmd = [Plain EXCEPT !.pdp = 2]
      <4>1. case.cmd.pdp = 2 /\ case.cmd.mux = 0 BY <3>3 DEF Plain
      <4>. QED BY <1>1, <4>1
    <3>4. CASE case.cmd = [[Plain EXCEPT !.user = "carl"] EXCEPT !.pdp = 2]
      BY <1>1, <3>4 DEF Plain
    <3>. QED BY <3>1, <3>2, <3>3, <3>4
  <2>. QED BY <2>3, <2>4, <2>5
<1>4. host.mode \in 0..2 /\ host.table \in Tables
  <2>1. NoQmap.mode = 0 /\ NoQmap.table \in Tables BY DEF NoQmap, Tables
  <2>. QED BY <1>1, <2>1, CasesSound DEF Sound
<1>5. modem.mux["WDS"] = 0 /\ modem.call = NoCall BY <1>1 DEF Booted
<1>6. /\ prof.qmap = 0 /\ prof.muxid = (IF cmd.mux = 0 THEN 0 ELSE cmd.mux + 128)
      /\ prof.adapter = 0
  BY <1>2
<1>7. /\ prof.muxid \in Ids /\ prof.muxid \in {0} \cup 129..137
      /\ cmd.mux <= 2 => prof.muxid \in {0, 129, 130}
  BY <1>3, <1>6 DEF Ids
<1>8. ~Qmap BY <1>6 DEF Qmap
<1>9. AdapterInv BY <1>3, <1>4, <1>6, <1>7, <1>8 DEF AdapterInv
<1>10. BoundInv BY <1>2, <1>5 DEF BoundInv
<1>11. FirstInv BY <1>2, <1>6, <1>8 DEF FirstInv
<1>. QED BY <1>9, <1>10, <1>11 DEF MuxInv

\* Every step keeps the binding.
LEMMA NextBinds == IInv /\ MuxInv /\ [Next]_vars => MuxInv'
<1>. SUFFICES ASSUME IInv, MuxInv, [Next]_vars PROVE MuxInv'
  OBVIOUS
<1>1. CASE UNCHANGED vars BY <1>1, StillBound DEF vars, chosen, Grows
<1>2. CASE Detect BY <1>2, DetectBinds
<1>3. CASE SkipDataFormat \/ SetDataFormat BY <1>3, FormatBinds
<1>4. CASE Bind4 \/ Bind6 BY <1>4, BindBinds
<1>5. CASE Prefer4 \/ Prefer6 \/ AutoConnect \/ LoopBack \/ SetSim \/ SetApn BY <1>5, SetupBinds
<1>6. CASE RegistrationState \/ GetIPAddress \/ udhcpc_start \/ LoopBackInd \/ Attach
  BY <1>6, LoopBinds
<1>7. CASE SetupDataCall BY <1>7, CallBinds
<1>8. CASE Restart BY <1>8, RestartBinds
<1>. QED BY <1>1, <1>2, <1>3, <1>4, <1>5, <1>6, <1>7, <1>8 DEF Next, Program, SetEthMode

\* A step in a session, behind its detection or of the modem.
Onward ==
  /\ UNCHANGED <<cmd, host, session>>
  /\ prof'.qmap = prof.qmap /\ prof'.muxid = prof.muxid /\ prof'.adapter = prof.adapter
  /\ pc' = pc \/ (pc # "detect" /\ pc' # "detect")

\* Only detection and a restart are anything else.
LEMMA MostOnward ==
  ASSUME Shape, [Next]_vars, ~Detect, ~Restart
  PROVE  Onward
<1>. USE DEF Onward, chosen, Goto, Done, Request, Shape
<1>1. CASE UNCHANGED vars BY <1>1 DEF vars
<1>2. CASE SkipDataFormat BY <1>2 DEF SkipDataFormat
<1>3. CASE SetDataFormat BY <1>3 DEF SetDataFormat
<1>4. CASE Bind4 \/ Bind6 BY <1>4 DEF Bind4, Bind6, Bind
<1>5. CASE Prefer4 \/ Prefer6 BY <1>5 DEF Prefer4, Prefer6
<1>6. CASE AutoConnect BY <1>6 DEF AutoConnect
<1>7. CASE LoopBack BY <1>7 DEF LoopBack
<1>8. CASE GetSIMStatus BY <1>8 DEF GetSIMStatus
<1>9. CASE GetPINStatus BY <1>9 DEF GetPINStatus
<1>10. CASE EnterSimPin BY <1>10 DEF EnterSimPin
<1>11. CASE GetProfile BY <1>11 DEF GetProfile
<1>12. CASE CreateProfile BY <1>12 DEF CreateProfile
<1>13. CASE SetProfile BY <1>13 DEF SetProfile
<1>14. CASE RegistrationState BY <1>14 DEF RegistrationState, GetSysInfo, GetServingSystem
<1>15. CASE SetupDataCall BY <1>15 DEF SetupDataCall
<1>16. CASE GetIPAddress BY <1>16 DEF GetIPAddress
<1>17. CASE udhcpc_start BY <1>17 DEF udhcpc_start
<1>18. CASE LoopBackInd BY <1>18 DEF LoopBackInd
<1>19. CASE Attach BY <1>19 DEF Attach
<1>. HIDE DEF Onward
<1>. QED
  BY <1>1, <1>2, <1>3, <1>4, <1>5, <1>6, <1>7, <1>8, <1>9, <1>10, <1>11, <1>12, <1>13,
     <1>14, <1>15, <1>16, <1>17, <1>18, <1>19
     DEF Next, Program, SetEthMode, SetSim, SetApn

\* What the first detection found stays for its session.
LEMMA NextFirst == IInv /\ MuxInv /\ FirstInv /\ [Next]_vars => FirstInv'
<1>. SUFFICES ASSUME IInv, MuxInv, FirstInv, [Next]_vars PROVE FirstInv'
  OBVIOUS
<1>1. Shape /\ AdapterInv BY DEF IInv, MuxInv
<1>2. CASE Detect
  <2>1. pc = "detect" /\ pc' = "format" /\ UNCHANGED <<cmd, host, session>>
    BY <1>2 DEF Detect, Goto, chosen
  <2>2. CASE host.driver = "none" /\ UNCHANGED prof
    <3>1. ~Qmap' BY <1>1, <2>1, <2>2 DEF AdapterInv, Qmap
    <3>. QED BY <2>1, <3>1 DEF FirstInv
  <2>3. ASSUME NEW mode, NEW mux, NEW adapter, Sited(mode, mux, adapter) PROVE FirstInv'
    <3>1. prof'.adapter = adapter /\ prof'.muxid = mux BY <2>3 DEF Sited
    <3>2. prof.muxid = 0 => adapter \in 0..9 /\ AdapterMux(adapter) = mux BY <2>3 DEF Sited
    <3>3. prof.muxid = 0 => prof'.adapter \in 0..9 /\ AdapterMux(prof.adapter)' = prof'.muxid
      BY <2>1, <3>1, <3>2 DEF AdapterMux, Muxes
    <3>. QED BY <2>1, <3>3 DEF FirstInv
  <2>. QED BY <1>1, <1>2, <2>2, <2>3, DetectFinds
<1>3. CASE Restart
  <2>1. session' = session + 1 BY <1>3 DEF Restart
  <2>2. session' # 1 BY <1>1, <2>1, BoundsAssumption DEF Shape
  <2>. QED BY <2>2 DEF FirstInv
<1>4. CASE Onward BY <1>4 DEF Onward, FirstInv, Qmap, AdapterMux, Muxes
<1>. QED BY <1>1, <1>2, <1>3, <1>4, MostOnward

\* The mux id stays the adapter's, wherever the table is read at the right place.
THEOREM MuxInvariance == Spec => [](MuxInv /\ FirstInv)
<1>1. Init => MuxInv /\ FirstInv BY InitBinds
<1>2. IInv /\ IInv' /\ MuxInv /\ FirstInv /\ [Next]_vars => (MuxInv /\ FirstInv)'
  BY NextBinds, NextFirst
<1>. QED BY <1>1, <1>2, Invariance, PTL DEF Spec

\* The call goes to the mux id found, and that is the adapter's that is brought up,
\* after restarts and with -m wherever the driver's table is read at the right place
\* (qmap_bridge_mode.c, WdsSetQMUXBindMuxDataPort).
THEOREM BindingCorrect == Spec => []BoundToAdapter
<1>1. IInv /\ MuxInv /\ FirstInv => BoundToAdapter
  <2>. SUFFICES ASSUME IInv, MuxInv, FirstInv, modem.call # NoCall,
                       trouble \cap {"SetDataFormat", "BindMux"} = {}
                PROVE  /\ modem.call.mux = (IF Qmap THEN prof.muxid ELSE 0)
                       /\ Qmap /\ Located => prof.muxid = AdapterMux(prof.adapter)
    BY DEF BoundToAdapter
  <2>1. ServiceInv /\ AdapterInv /\ BoundInv BY DEF IInv, MuxInv
  <2>2. pc \notin {"detect", "format", "bind4"} BY <2>1 DEF ServiceInv, Dialled
  <2>3. modem.call.mux = (IF Qmap THEN prof.muxid ELSE 0) BY <2>1, <2>2 DEF BoundInv, Unsettled
  <2>4. Qmap /\ Located => prof.muxid = AdapterMux(prof.adapter)
    BY <2>1, <2>2 DEF AdapterInv, FirstInv, Located, Settled
  <2>. QED BY <2>3, <2>4
<1>. QED BY <1>1, Invariance, MuxInvariance, PTL

\* What detection and requests leave in PROFILE_T is what they may: a mux id, and
\* without an adapter of the driver's only where the table was read at the wrong place.
THEOREM TypeCorrect == Spec => []TypeOK
<1>1. IInv /\ MuxInv /\ FirstInv => TypeOK
  <2>. SUFFICES ASSUME IInv, MuxInv, FirstInv PROVE TypeOK
    OBVIOUS
  <2>1. Shape /\ AdapterInv BY DEF IInv, MuxInv
  <2>2. prof.muxid \in 0..255 BY <2>1 DEF AdapterInv, Ids
  <2>3. Located => prof.adapter \in 0..9
    <3>1. ~Qmap => prof.adapter = 0 BY <2>1 DEF AdapterInv
    <3>2. Qmap /\ Located => prof.adapter \in 0..9
      BY <2>1 DEF AdapterInv, FirstInv, Located, Settled
    <3>. QED BY <3>1, <3>2
  <2>. QED BY <2>1, <2>2, <2>3 DEF Shape, AdapterInv, TypeOK
<1>. QED BY <1>1, Invariance, MuxInvariance, PTL
=============================================================================
