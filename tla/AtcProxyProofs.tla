--------------------------- MODULE AtcProxyProofs ---------------------------
(***************************************************************************)
(* Proofs about AtcProxy and the channel AtChannel under it: for any       *)
(* descriptors, and number of commands, settings, tries and faults.        *)
(***************************************************************************)
EXTENDS AtcProxy, SequenceTheorems, FiniteSetTheorems, WellFoundedInduction, TLAPS

-----------------------------------------------------------------------------
(* Sequences                                                               *)

\* A set of numbers that has no least element is empty: induction.
LEMMA LeastNumber ==
  ASSUME NEW T \in SUBSET Nat, T # {}
  PROVE  \E x \in T : \A y \in T : x =< y
<1>1. PICK x \in T : \A y \in T : ~ (<<y, x>> \in OpToRel(<, Nat))
  BY NatLessThanWellFounded, WFMin
<1>2. \A y \in T : ~ (y < x) BY <1>1, Zenon DEF OpToRel
<1>. QED BY <1>2

\* Those(s, S) step by step: what upto[k] must be.
Upto(s, S, k, g) ==
  g = [n \in 0..k |-> IF n = 0 THEN <<>>
                      ELSE IF s[n] \in S THEN Append(g[n - 1], s[n]) ELSE g[n - 1]]

\* What is true of it.
Chosen(X, s, S, k, r) ==
  /\ r \in Seq(X)
  /\ \A i \in DOMAIN r : r[i] \in S /\ \E j \in 1..k : s[j] = r[i]
  /\ \A j \in 1..k : s[j] \in S => \E i \in DOMAIN r : r[i] = s[j]
  /\ (\A i, j \in 1..k : s[i] = s[j] => i = j) => \A i, j \in DOMAIN r : r[i] = r[j] => i = j

\* One more element is taken, or left out.
LEMMA ChosenStep ==
  ASSUME NEW X, NEW s \in Seq(X), NEW S, NEW k \in 1..Len(s), NEW r, Chosen(X, s, S, k - 1, r)
  PROVE  Chosen(X, s, S, k, IF s[k] \in S THEN Append(r, s[k]) ELSE r)
<1>. DEFINE x == s[k]
<1>1. x \in X /\ k \in 1..k /\ k - 1 \in Nat /\ k \in Nat OBVIOUS
<1>2. \A j \in 1..k : j = k \/ j \in 1..(k - 1) BY <1>1
<1>3. \A j \in 1..(k - 1) : j \in 1..k /\ j # k BY <1>1
<1>4. r \in Seq(X) BY DEF Chosen
<1>5. CASE s[k] \notin S
  <2>1. Chosen(X, s, S, k, r)
    <3>1. \A i \in DOMAIN r : r[i] \in S /\ \E j \in 1..k : s[j] = r[i] BY <1>3 DEF Chosen
    <3>2. \A j \in 1..k : s[j] \in S => \E i \in DOMAIN r : r[i] = s[j]
      BY <1>2, <1>5 DEF Chosen
    <3>3. (\A i, j \in 1..k : s[i] = s[j] => i = j) => \A i, j \in DOMAIN r : r[i] = r[j] => i = j
      BY <1>3 DEF Chosen
    <3>. QED BY <1>4, <3>1, <3>2, <3>3 DEF Chosen
  <2>. QED BY <1>5, <2>1
<1>6. CASE s[k] \in S
  <2>. DEFINE q == Append(r, x)
  <2>1. /\ q \in Seq(X) /\ Len(q) = Len(r) + 1 /\ q[Len(q)] = x
        /\ \A i \in DOMAIN r : q[i] = r[i] /\ i \in DOMAIN q
        /\ \A i \in DOMAIN q : i = Len(q) \/ i \in DOMAIN r
        /\ Len(q) \in DOMAIN q
    BY <1>1, <1>4
  <2>. HIDE DEF q
  <2>2. \A i \in DOMAIN q : q[i] \in S /\ \E j \in 1..k : s[j] = q[i]
    <3>1. ASSUME NEW i \in DOMAIN q PROVE q[i] \in S /\ \E j \in 1..k : s[j] = q[i]
      <4>1. CASE i = Len(q) BY <1>1, <1>6, <2>1, <4>1
      <4>2. CASE i \in DOMAIN r
        <5>1. r[i] \in S /\ \E j \in 1..(k - 1) : s[j] = r[i] BY <4>2 DEF Chosen
        <5>. QED BY <1>3, <2>1, <4>2, <5>1
      <4>. QED BY <2>1, <4>1, <4>2
    <3>. QED BY <3>1
  <2>3. \A j \in 1..k : s[j] \in S => \E i \in DOMAIN q : q[i] = s[j]
    <3>1. ASSUME NEW j \in 1..k, s[j] \in S PROVE \E i \in DOMAIN q : q[i] = s[j]
      <4>1. CASE j = k BY <2>1, <4>1
      <4>2. CASE j # k
        <5>1. PICK i \in DOMAIN r : r[i] = s[j] BY <1>2, <3>1, <4>2 DEF Chosen
        <5>. QED BY <2>1, <5>1
      <4>. QED BY <4>1, <4>2
    <3>. QED BY <3>1
  <2>4. ASSUME \A i, j \in 1..k : s[i] = s[j] => i = j
        PROVE  \A i, j \in DOMAIN q : q[i] = q[j] => i = j
    <3>1. \A i, j \in DOMAIN r : r[i] = r[j] => i = j BY <1>3, <2>4 DEF Chosen
    <3>2. ASSUME NEW i \in DOMAIN r PROVE r[i] # x
      <4>1. PICK j \in 1..(k - 1) : s[j] = r[i] BY DEF Chosen
      <4>. QED BY <1>1, <1>3, <2>4, <4>1
    <3>. QED BY <2>1, <3>1, <3>2
  <2>5. Chosen(X, s, S, k, q) BY <2>1, <2>2, <2>3, <2>4 DEF Chosen
  <2>. QED BY <1>6, <2>5 DEF q
<1>. QED BY <1>5, <1>6

\* The recursive function of Those exists, and computes what it should.
LEMMA UptoExists ==
  ASSUME NEW X, NEW s \in Seq(X), NEW S
  PROVE  \A k \in 0..Len(s) :
           \E g : Upto(s, S, k, g) /\ \A n \in 0..k : Chosen(X, s, S, n, g[n])
<1>. DEFINE Fine(k) == \E g : Upto(s, S, k, g) /\ \A n \in 0..k : Chosen(X, s, S, n, g[n])
            Bad == {k \in 0..Len(s) : ~Fine(k)}
<1>0. Len(s) \in Nat OBVIOUS
<1>1. Fine(0)
  <2>. DEFINE g == [n \in 0..0 |-> <<>>]
  <2>1. g[0] = <<>> /\ \A n \in 0..0 : n = 0 OBVIOUS
  <2>2. Upto(s, S, 0, g)
    <3>1. [n \in 0..0 |-> IF n = 0 THEN <<>>
                          ELSE IF s[n] \in S THEN Append(g[n - 1], s[n]) ELSE g[n - 1]] = g
      BY <2>1
    <3>. QED BY <3>1 DEF Upto
  <2>3. Chosen(X, s, S, 0, <<>>) BY DEF Chosen
  <2>. HIDE DEF g
  <2>. QED BY <2>1, <2>2, <2>3
<1>2. ASSUME NEW k \in 1..Len(s), Fine(k - 1) PROVE Fine(k)
  <2>1. PICK g : Upto(s, S, k - 1, g) /\ \A n \in 0..(k - 1) : Chosen(X, s, S, n, g[n]) BY <1>2
  <2>. DEFINE last == IF s[k] \in S THEN Append(g[k - 1], s[k]) ELSE g[k - 1]
              h == [n \in 0..k |-> IF n = k THEN last ELSE g[n]]
  <2>2. /\ k \in Nat /\ k # 0 /\ k - 1 \in 0..(k - 1) /\ k - 1 \in 0..k /\ k \in 0..k /\ 0 \in 0..k
        /\ \A n \in 0..k : n = k \/ (n \in 0..(k - 1) /\ n # k)
        /\ \A n \in 1..(k - 1) : n - 1 \in 0..(k - 1)
        /\ \A n \in 0..(k - 1) : n = 0 \/ n \in 1..(k - 1)
        /\ \A n \in 0..(k - 1) : n \in 0..k
        /\ k - 1 # k
    OBVIOUS
  <2>3. Chosen(X, s, S, k, last)
    <3>1. Chosen(X, s, S, k - 1, g[k - 1]) BY <2>1, <2>2
    <3>. QED BY <3>1, ChosenStep
  <2>4. \A n \in 0..(k - 1) :
          g[n] = IF n = 0 THEN <<>>
                 ELSE IF s[n] \in S THEN Append(g[n - 1], s[n]) ELSE g[n - 1]
    BY <2>1 DEF Upto
  <2>5. h[k] = last /\ \A n \in 0..(k - 1) : h[n] = g[n] BY <2>2
  <2>6. Upto(s, S, k, h)
    <3>1. ASSUME NEW n \in 0..k
          PROVE  h[n] = IF n = 0 THEN <<>>
                        ELSE IF s[n] \in S THEN Append(h[n - 1], s[n]) ELSE h[n - 1]
      <4>1. CASE n = k
        <5>1. h[k - 1] = g[k - 1] BY <2>2, <2>5
        <5>. QED BY <2>2, <2>5, <4>1, <5>1
      <4>2. CASE n = 0 BY <2>2, <2>4, <2>5, <4>2
      <4>3. CASE n \in 1..(k - 1)
        <5>1. n \in 0..(k - 1) /\ n # 0 /\ n - 1 \in 0..(k - 1) BY <2>2, <4>3
        <5>2. h[n] = g[n] /\ h[n - 1] = g[n - 1] BY <2>5, <5>1
        <5>. QED BY <2>4, <5>1, <5>2
      <4>. QED BY <2>2, <4>1, <4>2, <4>3
    <3>. DEFINE e == [n \in 0..k |-> IF n = 0 THEN <<>>
                       ELSE IF s[n] \in S THEN Append(h[n - 1], s[n]) ELSE h[n - 1]]
    <3>2. \A n \in 0..k : h[n] = e[n]
      BY <3>1, Zenon
    <3>3. h = [n \in 0..k |-> h[n]] OBVIOUS
    <3>. HIDE DEF h
    <3>4. h = e BY <3>2, <3>3
    <3>. QED BY <3>4 DEF Upto
  <2>. HIDE DEF h, last
  <2>7. \A n \in 0..k : Chosen(X, s, S, n, h[n]) BY <2>1, <2>2, <2>3, <2>5
  <2>. QED BY <2>6, <2>7
<1>3. Bad = {}
  <2>. SUFFICES ASSUME Bad # {} PROVE FALSE
    OBVIOUS
  <2>. HIDE DEF Fine
  <2>1. Bad \in SUBSET Nat OBVIOUS
  <2>2. PICK k \in Bad : \A j \in Bad : k =< j BY <2>1, LeastNumber, Zenon
  <2>3. k \in 0..Len(s) /\ ~Fine(k) OBVIOUS
  <2>4. k # 0 BY <1>1, <2>3
  <2>5. k \in 1..Len(s) /\ k - 1 \in 0..Len(s) /\ ~(k =< k - 1) BY <2>3, <2>4
  <2>6. ~Fine(k - 1) BY <1>2, <2>3, <2>5
  <2>. QED BY <2>2, <2>5, <2>6
<1>. QED BY <1>3

\* Those(s, S) is made of the elements of s that are in S, each as often.
LEMMA ThoseChosen ==
  ASSUME NEW X, NEW s \in Seq(X), NEW S
  PROVE  Chosen(X, s, S, Len(s), Those(s, S))
<1>1. Len(s) \in 0..Len(s) OBVIOUS
<1>2. PICK g : Upto(s, S, Len(s), g) /\ \A n \in 0..Len(s) : Chosen(X, s, S, n, g[n])
  BY <1>1, UptoExists
<1>. DEFINE f == CHOOSE h : Upto(s, S, Len(s), h)
<1>3. Upto(s, S, Len(s), f) BY <1>2
<1>4. Those(s, S) = f[Len(s)] BY DEF Those, Upto
<1>. HIDE DEF f
<1>5. f = g
  <2>. DEFINE Bad == {n \in 0..Len(s) : f[n] # g[n]}
  <2>1. Bad = {}
    <3>. SUFFICES ASSUME Bad # {} PROVE FALSE
      OBVIOUS
    <3>1. Bad \in SUBSET Nat OBVIOUS
    <3>2. PICK k \in Bad : \A j \in Bad : k =< j BY <3>1, LeastNumber, Zenon
    <3>3. k \in 0..Len(s) /\ f[k] # g[k] OBVIOUS
    <3>4. \A n \in 0..Len(s) :
            /\ f[n] = IF n = 0 THEN <<>>
                      ELSE IF s[n] \in S THEN Append(f[n - 1], s[n]) ELSE f[n - 1]
            /\ g[n] = IF n = 0 THEN <<>>
                      ELSE IF s[n] \in S THEN Append(g[n - 1], s[n]) ELSE g[n - 1]
      BY <1>2, <1>3 DEF Upto
    <3>5. k # 0 BY <3>3, <3>4
    <3>6. k - 1 \in 0..Len(s) /\ ~(k =< k - 1) BY <3>3, <3>5
    <3>7. f[k - 1] = g[k - 1] BY <3>2, <3>6
    <3>. QED BY <3>3, <3>4, <3>5, <3>7
  <2>2. f = [n \in 0..Len(s) |-> f[n]] /\ g = [n \in 0..Len(s) |-> g[n]]
    BY <1>2, <1>3 DEF Upto
  <2>. QED BY <2>1, <2>2
<1>. QED BY <1>1, <1>2, <1>4, <1>5

\* The numbers up to n are n.
LEMMA IntervalSize ==
  ASSUME NEW n \in Nat
  PROVE  IsFiniteSet(1..n) /\ Cardinality(1..n) = n
<1>1. 1 \in Int /\ n \in Int OBVIOUS
<1>2. IsFiniteSet(1..n) /\ Cardinality(1..n) = IF 1 > n THEN 0 ELSE n - 1 + 1
  BY <1>1, FS_Interval
<1>3. (IF 1 > n THEN 0 ELSE n - 1 + 1) = n OBVIOUS
<1>. QED BY <1>2, <1>3

\* A list without duplicates of members of a finite set is not longer than it.
LEMMA ListBound ==
  ASSUME NEW S, IsFiniteSet(S), NEW s \in Seq(S), \A i, j \in DOMAIN s : s[i] = s[j] => i = j
  PROVE  Cardinality(S) \in Nat /\ Len(s) =< Cardinality(S)
<1>1. Cardinality(S) \in Nat BY FS_CardinalityType
<1>2. s \in Injection(1..Len(s), S)
  <2>1. s \in [1..Len(s) -> S] /\ DOMAIN s = 1..Len(s) OBVIOUS
  <2>. QED BY <2>1 DEF Injection, IsInjective
<1>3. Cardinality(1..Len(s)) =< Cardinality(S) BY <1>2, FS_Injection
<1>4. Len(s) \in Nat OBVIOUS
<1>5. Cardinality(1..Len(s)) = Len(s) BY <1>4, IntervalSize
<1>. QED BY <1>1, <1>3, <1>5

\* The set of the elements of a sequence is finite.
LEMMA ElementsFinite ==
  ASSUME NEW X, NEW s \in Seq(X)
  PROVE  IsFiniteSet(ToSet(s))
<1>1. IsFiniteSet(1..Len(s))
  <2>1. Len(s) \in Int /\ 1 \in Int OBVIOUS
  <2>. QED BY <2>1, FS_Interval
<1>2. s \in Surjection(1..Len(s), ToSet(s))
  <2>1. s \in [1..Len(s) -> ToSet(s)] /\ \A x \in ToSet(s) : \E i \in 1..Len(s) : s[i] = x
    BY DEF ToSet
  <2>. QED BY <2>1 DEF Surjection
<1>. QED BY <1>1, <1>2, FS_Surjection

\* Among one number more than a finite set has members, one is no member.
LEMMA FreeNumber ==
  ASSUME NEW N, IsFiniteSet(N)
  PROVE  \E n \in 1..(Cardinality(N) + 1) : n \notin N
<1>1. Cardinality(N) \in Nat BY FS_CardinalityType
<1>2. SUFFICES ASSUME 1..(Cardinality(N) + 1) \subseteq N PROVE FALSE
  OBVIOUS
<1>3. Cardinality(1..(Cardinality(N) + 1)) =< Cardinality(N) BY <1>2, FS_Subset
<1>4. Cardinality(1..(Cardinality(N) + 1)) = Cardinality(N) + 1
  <2>. DEFINE b == Cardinality(N) + 1
  <2>1. b \in Int /\ 1 \in Int /\ ~(1 > b) /\ b - 1 + 1 = b BY <1>1
  <2>2. Cardinality(1..b) = IF 1 > b THEN 0 ELSE b - 1 + 1
    <3>. HIDE DEF b
    <3>. QED BY <2>1, FS_Interval
  <2>. QED BY <2>1, <2>2
<1>. QED BY <1>1, <1>3, <1>4

-----------------------------------------------------------------------------
(* The channel's invariant                                                 *)

Line == [kind : {"OK", "ERROR", "data", "urc", "sms"}, of : Nat]
Expected == {"NO_RESULT", "NUMERIC", "SINGLELINE", "MULTILINE"}
Response == [n : Nat, type : Expected, intermediates : Seq(Line), final : Seq(Line)]

ChannelTypes ==
  /\ caller \in [Threads -> {"out", "wait", "expired", "woken"}]
  /\ response \in Response /\ lines \in Seq(Line) /\ rx \in Seq(Line) /\ todo \in Seq(Nat)
  /\ reader \in {"none", "read", "pdu", "hand", "gone"}

\* The reader is at one line, or at a text message and what follows it.
ReaderInv ==
  /\ reader \in {"none", "read", "gone"} => lines = <<>>
  /\ reader = "pdu" => Len(lines) = 1 /\ lines[1].kind = "sms"
  /\ reader = "hand" => Len(lines) = 1 \/ (Len(lines) = 2 /\ lines[1].kind = "sms")

\* A pending command has one caller, who is woken for its final response.
CallInv ==
  /\ ~collided
  /\ \A t, u \in Threads : caller[t] # "out" /\ caller[u] # "out" => t = u
  /\ response # NoResponse => \E t \in Threads : caller[t] # "out"
  /\ \A t \in Threads : caller[t] # "out" => response.n # 0
  /\ \A t \in Threads : caller[t] = "woken" /\ ~readerClosed => response.final # <<>>

\* Of lines w on their way, one at most is the final response of a command, and that
\* is the one that the pending command r waits for; so is the command the modem is at.
Awaited(w, ns, r) ==
  /\ \A i \in DOMAIN w : Answers(w[i]) =>
       /\ w[i].of = r.n /\ r.n # 0 /\ r.final = <<>> /\ ns = <<>>
       /\ \A j \in DOMAIN w : Answers(w[j]) => i = j
  /\ ns # <<>> => ns = <<r.n>> /\ r.n # 0 /\ r.final = <<>>

\* In a session in which no command was given up before its final response, or has
\* taken for it a line that is nobody's.
OrderInv ==
  ~outOfStep /\ ~readerClosed =>
    /\ Len(lines) = 2 => ~Answers(lines[2])
    /\ response.final # <<>> => response.final[1].of = response.n
    /\ Awaited(lines \o rx, todo, response)

ChanInv == ChannelTypes /\ ReaderInv /\ CallInv /\ OrderInv

-----------------------------------------------------------------------------
(* Lines on their way                                                      *)

\* What is read is no longer on its way.
LEMMA AwaitedSuffix ==
  ASSUME NEW a \in Seq(Line), NEW b \in Seq(Line), NEW ns, NEW r, Awaited(a \o b, ns, r)
  PROVE  Awaited(b, ns, r)
<1>1. \A i \in DOMAIN b : i + Len(a) \in DOMAIN (a \o b) /\ (a \o b)[i + Len(a)] = b[i]
  OBVIOUS
<1>2. ASSUME NEW i \in DOMAIN b, NEW j \in DOMAIN b, i + Len(a) = j + Len(a) PROVE i = j
  BY <1>2
<1>. QED BY <1>1, <1>2 DEF Awaited

\* Once the final response has been read, nothing is awaited.
LEMMA AwaitedRead ==
  ASSUME NEW l \in Line, NEW b \in Seq(Line), NEW ns, NEW r, NEW q,
         Awaited(<<l>> \o b, ns, r), Answers(l)
  PROVE  Awaited(b, ns, q) /\ l.of = r.n
<1>1. <<l>> \in Seq(Line) OBVIOUS
<1>2. 1 \in DOMAIN (<<l>> \o b) /\ (<<l>> \o b)[1] = l OBVIOUS
<1>3. \A i \in DOMAIN b : i + 1 \in DOMAIN (<<l>> \o b) /\ (<<l>> \o b)[i + 1] = b[i] /\ i + 1 # 1
  OBVIOUS
<1>4. l.of = r.n /\ ns = <<>> BY <1>2 DEF Awaited
<1>5. \A i \in DOMAIN b : ~Answers(b[i]) BY <1>2, <1>3 DEF Awaited
<1>. QED BY <1>4, <1>5 DEF Awaited

\* Without a pending command there is nothing on the way.
LEMMA NothingAwaited ==
  ASSUME NEW w, NEW ns, NEW r, Awaited(w, ns, r), r.n = 0 \/ r.final # <<>>
  PROVE  ns = <<>> /\ \A i \in DOMAIN w : ~Answers(w[i])
BY DEF Awaited

\* Lines that are no command's final response may come at any time.
LEMMA AwaitedMore ==
  ASSUME NEW w \in Seq(Line), NEW m \in Seq(Line), NEW ns, NEW r,
         Awaited(w, ns, r), \A i \in DOMAIN m : ~Answers(m[i])
  PROVE  Awaited(w \o m, ns, r)
<1>1. \A i \in DOMAIN (w \o m) :
        \/ i \in DOMAIN w /\ (w \o m)[i] = w[i]
        \/ i - Len(w) \in DOMAIN m /\ (w \o m)[i] = m[i - Len(w)]
  OBVIOUS
<1>2. \A i \in DOMAIN (w \o m) : Answers((w \o m)[i]) => i \in DOMAIN w /\ (w \o m)[i] = w[i]
  BY <1>1
<1>. QED BY <1>2 DEF Awaited

\* The final response of the command the modem is at.
LEMMA AwaitedAnswer ==
  ASSUME NEW w \in Seq(Line), NEW m \in Seq(Line), NEW l \in Line, NEW ns, NEW r,
         Awaited(w, ns, r), ns # <<>>, \A i \in DOMAIN m : ~Answers(m[i]), l.of = ns[1]
  PROVE  Awaited(w \o Append(m, l), <<>>, r)
<1>1. ns = <<r.n>> /\ r.n # 0 /\ r.final = <<>> /\ \A i \in DOMAIN w : ~Answers(w[i])
  BY DEF Awaited
<1>2. \A i \in DOMAIN (w \o Append(m, l)) :
        \/ i \in DOMAIN w /\ (w \o Append(m, l))[i] = w[i]
        \/ i - Len(w) \in DOMAIN m /\ (w \o Append(m, l))[i] = m[i - Len(w)]
        \/ i = Len(w) + Len(m) + 1 /\ (w \o Append(m, l))[i] = l
  OBVIOUS
<1>3. \A i \in DOMAIN (w \o Append(m, l)) : Answers((w \o Append(m, l))[i]) =>
        i = Len(w) + Len(m) + 1 /\ (w \o Append(m, l))[i] = l
  BY <1>1, <1>2
<1>. QED BY <1>1, <1>3 DEF Awaited

-----------------------------------------------------------------------------
(* The channel's operations preserve it                                    *)

\* Nothing is pending when nobody is in a call.
LEMMA Idle ==
  ASSUME ChanInv, \A t \in Threads : caller[t] = "out"
  PROVE  response = NoResponse
BY DEF ChanInv, CallInv

\* The channel before its first use.
LEMMA ChanInit == AtInit => ChanInv
<1>. SUFFICES ASSUME AtInit PROVE ChanInv
  OBVIOUS
<1>1. <<>> \in Seq(Line) /\ <<>> \in Seq(Nat) OBVIOUS
<1>2. NoResponse \in Response BY <1>1 DEF NoResponse, Response, Expected
<1>3. ChannelTypes BY <1>1, <1>2 DEF AtInit, ChannelTypes
<1>4. Awaited(lines \o rx, todo, response)
  <2>1. lines \o rx = <<>> BY DEF AtInit
  <2>. QED BY <2>1 DEF Awaited, AtInit
<1>. QED BY <1>3, <1>4 DEF AtInit, ChanInv, ReaderInv, CallInv, OrderInv, NoResponse

\* at_open forgets the last session.
LEMMA OpenChannel ==
  ASSUME ChanInv, at_open, \A t \in Threads : caller[t] = "out"
  PROVE  ChanInv'
<1>1. <<>> \in Seq(Line) /\ <<>> \in Seq(Nat) OBVIOUS
<1>2. NoResponse \in Response BY <1>1 DEF NoResponse, Response, Expected
<1>3. ChannelTypes' BY <1>1, <1>2 DEF at_open, ChanInv, ChannelTypes
<1>4. Awaited(lines' \o rx', todo', response')
  <2>1. lines' \o rx' = <<>> BY DEF at_open
  <2>. QED BY <2>1 DEF Awaited, at_open
<1>. QED BY <1>3, <1>4 DEF at_open, ChanInv, ReaderInv, CallInv, OrderInv, NoResponse

\* What is known of the lines and commands on their way.
LEMMA NumbersFinite ==
  ASSUME ChanInv
  PROVE  IsFiniteSet(Numbers)
<1>1. todo \in Seq(Nat) /\ lines \o rx \in Seq(Line) BY DEF ChanInv, ChannelTypes
<1>2. IsFiniteSet(ToSet(todo)) BY <1>1, ElementsFinite
<1>. DEFINE L == ToSet(lines \o rx)
            f == [l \in L |-> l.of]
<1>3. IsFiniteSet(L) BY <1>1, ElementsFinite
<1>. HIDE DEF L
<1>4. IsFiniteSet({l.of : l \in L})
  <2>1. f \in Surjection(L, {l.of : l \in L}) BY DEF Surjection
  <2>. HIDE DEF f
  <2>. QED BY <1>3, <2>1, FS_Surjection
<1>5. IsFiniteSet(ToSet(todo) \cup {l.of : l \in L}) BY <1>2, <1>4, FS_Union
<1>. QED BY <1>5 DEF Numbers, L

\* A command that is sent when nobody is in a call is never refused as pending.
LEMMA SendStep ==
  ASSUME ChanInv, \A u \in Threads : caller[u] = "out",
         NEW t \in Threads, NEW type \in Expected, at_send_command(t, type)
  PROVE  /\ ChanInv'
         /\ \A u \in Threads : u # t => caller'[u] = "out"
         /\ response'.final = <<>>
         /\ \/ caller'[t] = "wait" /\ result' = result
            \/ caller'[t] = "out" /\ result'.err \in {"CLOSED", "GENERIC"} /\ ~result'.own
         /\ UNCHANGED <<reader, lines, present, fd>>
<1>. DEFINE n == CHOOSE n \in 1..(Cardinality(Numbers) + 1) : n \notin Numbers
<1>0. response = NoResponse BY Idle
<1>1. n \in Nat /\ n # 0
  <2>1. Cardinality(Numbers) \in Nat BY NumbersFinite, FS_CardinalityType
  <2>2. \E m \in 1..(Cardinality(Numbers) + 1) : m \notin Numbers
    BY NumbersFinite, FreeNumber
  <2>3. n \in 1..(Cardinality(Numbers) + 1) BY <2>2
  <2>. HIDE DEF n
  <2>. QED BY <2>1, <2>3
<1>2. /\ ~collided'
      /\ UNCHANGED <<fd, readerClosed, reader, lines, rx, present, faults, outOfStep>>
      /\ \/ /\ Returned(t, n, WriteError, NoResponse) /\ WriteError \in {"CLOSED", "GENERIC"}
            /\ response' = NoResponse /\ UNCHANGED <<slices, todo>>
         \/ /\ ~readerClosed
            /\ response' = [NoResponse EXCEPT !.n = n, !.type = type]
            /\ caller' = [caller EXCEPT ![t] = "wait"]
            /\ todo' = Append(todo, n) /\ UNCHANGED result
  <2>1. /\ collided' = (collided \/ response # NoResponse)
        /\ UNCHANGED <<fd, readerClosed, reader, lines, rx, present, faults, outOfStep>>
    BY DEF at_send_command
  <2>2. IF WriteError # "ok"
        THEN Returned(t, n, WriteError, NoResponse) /\ response' = NoResponse /\ UNCHANGED <<slices, todo>>
        ELSE /\ response' = [NoResponse EXCEPT !.n = n, !.type = type]
             /\ caller' = [caller EXCEPT ![t] = "wait"]
             /\ todo' = Append(todo, n) /\ UNCHANGED result
    BY <1>0 DEF at_send_command
  <2>3. ~collided BY DEF ChanInv, CallInv
  <2>4. /\ WriteError # "ok" => WriteError \in {"CLOSED", "GENERIC"}
        /\ WriteError = "ok" => ~readerClosed
    BY DEF WriteError
  <2>. HIDE DEF n
  <2>. QED BY <1>0, <2>1, <2>2, <2>3, <2>4
<1>. HIDE DEF n
<1>3. caller \in [Threads -> {"out", "wait", "expired", "woken"}] BY DEF ChanInv, ChannelTypes
<1>4. CASE /\ Returned(t, n, WriteError, NoResponse) /\ WriteError \in {"CLOSED", "GENERIC"}
           /\ response' = NoResponse /\ UNCHANGED todo
  <2>1. /\ caller' = caller
        /\ result'.err = WriteError /\ result'.own = FALSE
    BY <1>3, <1>4 DEF Returned, NoResponse
  <2>2. ChannelTypes' BY <1>0, <1>2, <1>4, <2>1 DEF ChanInv, ChannelTypes
  <2>3. ReaderInv' BY <1>2 DEF ChanInv, ReaderInv
  <2>4. CallInv' BY <1>0, <1>2, <1>4, <2>1 DEF ChanInv, CallInv
  <2>5. OrderInv' BY <1>0, <1>2, <1>4 DEF ChanInv, OrderInv
  <2>. QED BY <1>2, <1>4, <2>1, <2>2, <2>3, <2>4, <2>5 DEF ChanInv, NoResponse
<1>5. CASE /\ ~readerClosed
           /\ response' = [NoResponse EXCEPT !.n = n, !.type = type]
           /\ caller' = [caller EXCEPT ![t] = "wait"]
           /\ todo' = Append(todo, n) /\ UNCHANGED result
  <2>1. response'.n = n /\ response'.final = <<>> BY <1>5 DEF NoResponse
  <2>2. response' \in Response
    <3>1. <<>> \in Seq(Line) OBVIOUS
    <3>. QED BY <1>1, <1>5, <3>1 DEF NoResponse, Response
  <2>3. caller'[t] = "wait" /\ \A u \in Threads : u # t => caller'[u] = "out" BY <1>3, <1>5
  <2>4. ChannelTypes'
    <3>1. todo' \in Seq(Nat) BY <1>1, <1>5 DEF ChanInv, ChannelTypes
    <3>2. caller' \in [Threads -> {"out", "wait", "expired", "woken"}] BY <1>3, <1>5
    <3>. QED BY <1>2, <2>2, <3>1, <3>2 DEF ChanInv, ChannelTypes
  <2>5. ReaderInv' BY <1>2 DEF ChanInv, ReaderInv
  <2>6. CallInv' BY <1>1, <1>2, <2>1, <2>3 DEF ChanInv, CallInv
  <2>7. OrderInv'
    <3>. SUFFICES ASSUME ~outOfStep
                  PROVE  /\ Len(lines) = 2 => ~Answers(lines[2])
                         /\ Awaited(lines \o rx, todo', response')
      BY <1>2, <2>1 DEF OrderInv
    <3>1. (Len(lines) = 2 => ~Answers(lines[2])) /\ Awaited(lines \o rx, todo, response)
      BY <1>5 DEF ChanInv, OrderInv
    <3>2. todo = <<>> /\ \A i \in DOMAIN (lines \o rx) : ~Answers((lines \o rx)[i])
      BY <1>0, <3>1, NothingAwaited DEF NoResponse
    <3>3. todo' = <<n>> BY <1>5, <3>2
    <3>. QED BY <1>1, <2>1, <3>1, <3>2, <3>3 DEF Awaited
  <2>. QED BY <1>2, <1>5, <2>1, <2>3, <2>4, <2>5, <2>6, <2>7 DEF ChanInv
<1>. QED BY <1>2, <1>4, <1>5

\* Who waits is woken, and nobody else moves.
LEMMA SignalledCallers ==
  ASSUME ChannelTypes
  PROVE  /\ Signalled \in [Threads -> {"out", "wait", "expired", "woken"}]
         /\ \A t \in Threads : /\ Signalled[t] = "out" <=> caller[t] = "out"
                               /\ Signalled[t] = "woken" => caller[t] \in {"wait", "woken"}
BY DEF ChannelTypes, Signalled

\* at_close wakes who waits, and no line is read any more.
LEMMA CloseChannel ==
  ASSUME ChanInv, at_close
  PROVE  /\ ChanInv'
         /\ \A t \in Threads : caller'[t] = "out" <=> caller[t] = "out"
         /\ UNCHANGED <<reader, lines, present>>
<1>0. ChannelTypes BY DEF ChanInv
<1>1. /\ caller' = Signalled /\ readerClosed' = TRUE
      /\ UNCHANGED <<response, reader, lines, result, collided, rx, todo, present, outOfStep>>
  BY DEF at_close, line
<1>2. ChannelTypes' BY <1>0, <1>1, SignalledCallers DEF ChannelTypes
<1>3. ReaderInv' BY <1>1 DEF ChanInv, ReaderInv
<1>4. CallInv'
  <2>1. \A t \in Threads : caller'[t] = "out" <=> caller[t] = "out"
    BY <1>0, <1>1, SignalledCallers
  <2>. QED BY <1>1, <2>1 DEF ChanInv, CallInv
<1>5. OrderInv' BY <1>1 DEF OrderInv
<1>. QED BY <1>0, <1>1, <1>2, <1>3, <1>4, <1>5, SignalledCallers DEF ChanInv

\* What the program around the channel sees of a step of the channel: no call
\* begins, the handler is not disturbed, and a reader that has gone stays away; a
\* command either stays as it is or returns.
Effect ==
  /\ \A t \in Threads : caller[t] = "out" => caller'[t] = "out"
  /\ reader = "hand" => reader' = "hand" /\ lines' = lines
  /\ reader \in {"none", "gone"} => reader' = reader
  /\ present' => present \/ reader \in {"none", "gone"}
  /\ \/ /\ result' = result /\ response'.n = response.n /\ response'.final = response.final
        /\ \A t \in Threads : caller'[t] = "out" => caller[t] = "out"
     \/ /\ Mutex /\ response' = NoResponse
        /\ result'.err = "ok" =>
             /\ response.n # 0 /\ (~readerClosed => response.final # <<>>) /\ ~readerClosed
             /\ result'.own <=> response.final # <<>> /\ response.final[1].of = response.n

\* A timed wait ends, and the next begins.
LEMMA SliceStep ==
  ASSUME ChanInv, NEW t \in Threads, SliceExpires(t) \/ WaitAgain(t)
  PROVE  ChanInv' /\ Effect
<1>1. /\ UNCHANGED <<fd, readerClosed, response, reader, lines, result, collided, rx, todo,
                     present, faults, outOfStep>>
      /\ \E s \in {"wait", "expired"} : caller' = [caller EXCEPT ![t] = s]
      /\ caller[t] \in {"wait", "expired"}
  BY DEF SliceExpires, WaitAgain, line
<1>2. /\ caller' \in [Threads -> {"out", "wait", "expired", "woken"}]
      /\ \A u \in Threads : /\ caller'[u] = "out" <=> caller[u] = "out"
                            /\ caller'[u] = "woken" => caller[u] = "woken"
  BY <1>1 DEF ChanInv, ChannelTypes
<1>3. ChannelTypes' BY <1>1, <1>2 DEF ChanInv, ChannelTypes
<1>4. ReaderInv' BY <1>1 DEF ChanInv, ReaderInv
<1>5. CallInv' BY <1>1, <1>2 DEF ChanInv, CallInv
<1>6. OrderInv' BY <1>1 DEF ChanInv, OrderInv
<1>7. Effect BY <1>1, <1>2 DEF Effect
<1>. QED BY <1>3, <1>4, <1>5, <1>6, <1>7 DEF ChanInv

\* A command that returns leaves nothing pending.
LEMMA ReturnedStep ==
  ASSUME ChanInv, NEW t \in Threads, caller[t] # "out",
         caller' = [caller EXCEPT ![t] = "out"], response' = NoResponse,
         UNCHANGED <<readerClosed, reader, lines, collided, rx, todo>>,
         ~outOfStep' => ~outOfStep,
         ~outOfStep' /\ ~readerClosed =>
           todo = <<>> /\ \A i \in DOMAIN (lines \o rx) : ~Answers((lines \o rx)[i])
  PROVE  ChanInv'
<1>1. <<>> \in Seq(Line) OBVIOUS
<1>2. NoResponse \in Response BY <1>1 DEF NoResponse, Response, Expected
<1>3. /\ caller' \in [Threads -> {"out", "wait", "expired", "woken"}]
      /\ \A u \in Threads : caller'[u] = "out"
  BY DEF ChanInv, ChannelTypes, CallInv
<1>4. ChannelTypes' BY <1>2, <1>3 DEF ChanInv, ChannelTypes
<1>5. ReaderInv' BY DEF ChanInv, ReaderInv
<1>6. CallInv' BY <1>3 DEF ChanInv, CallInv
<1>7. OrderInv'
  <2>1. NoResponse.final = <<>> BY DEF NoResponse
  <2>. QED BY <2>1 DEF ChanInv, OrderInv, Awaited
<1>. QED BY <1>4, <1>5, <1>6, <1>7 DEF ChanInv

\* A command is given up.
LEMMA TimesOutStep ==
  ASSUME ChanInv, NEW t \in Threads, TimesOut(t)
  PROVE  ChanInv' /\ Effect
<1>1. /\ caller[t] # "out" /\ Mutex
      /\ caller' = [caller EXCEPT ![t] = "out"] /\ result'.err = "TIMEOUT"
      /\ response' = NoResponse /\ outOfStep' = (outOfStep \/ Due)
      /\ UNCHANGED <<fd, readerClosed, reader, lines, collided, rx, todo, present>>
  BY DEF TimesOut, Returned, line
<1>2. ASSUME ~outOfStep', ~readerClosed
      PROVE  todo = <<>> /\ \A i \in DOMAIN (lines \o rx) : ~Answers((lines \o rx)[i])
  <2>1. ~outOfStep /\ ~Due BY <1>1, <1>2
  <2>2. Awaited(lines \o rx, todo, response) BY <1>2, <2>1 DEF ChanInv, OrderInv
  <2>3. CASE response.final # <<>> BY <2>2, <2>3, NothingAwaited
  <2>4. CASE response.final = <<>>
    <3>1. response.n \notin ToSet(todo) BY <1>2, <2>1, <2>4 DEF Due
    <3>2. \A i \in DOMAIN (lines \o rx) :
            ~(IsFinal((lines \o rx)[i]) /\ (lines \o rx)[i].of = response.n)
      BY <1>2, <2>1, <2>4 DEF Due
    <3>3. todo = <<>>
      <4>. SUFFICES ASSUME todo # <<>> PROVE FALSE
        OBVIOUS
      <4>1. todo = <<response.n>> BY <2>2 DEF Awaited
      <4>2. response.n \in ToSet(<<response.n>>) BY DEF ToSet
      <4>. QED BY <3>1, <4>1, <4>2
    <3>. QED BY <2>2, <3>2, <3>3 DEF Awaited, Answers
  <2>. QED BY <2>3, <2>4
<1>3. ~outOfStep' => ~outOfStep BY <1>1
<1>4. ChanInv' BY <1>1, <1>2, <1>3, ReturnedStep
<1>5. Effect
  <2>1. \A u \in Threads : caller[u] = "out" => caller'[u] = "out"
    BY <1>1 DEF ChanInv, ChannelTypes
  <2>. QED BY <1>1, <2>1 DEF Effect
<1>. QED BY <1>4, <1>5

\* A command returns with its final response, or because the channel is closed.
LEMMA ReturnsStep ==
  ASSUME ChanInv, NEW t \in Threads, Returns(t)
  PROVE  ChanInv' /\ Effect
<1>1. /\ caller[t] = "woken" /\ Mutex
      /\ caller' = [caller EXCEPT ![t] = "out"]
      /\ result'.err = "ok" => ~readerClosed
      /\ result'.own <=> response.final # <<>> /\ response.final[1].of = response.n
      /\ response' = NoResponse
      /\ UNCHANGED <<fd, readerClosed, reader, lines, collided, rx, todo, present, outOfStep>>
  BY DEF Returns, Returned, line
<1>2. response.n # 0 /\ (~readerClosed => response.final # <<>>)
  BY <1>1 DEF ChanInv, CallInv
<1>3. ASSUME ~outOfStep, ~readerClosed
      PROVE  todo = <<>> /\ \A i \in DOMAIN (lines \o rx) : ~Answers((lines \o rx)[i])
  <2>1. Awaited(lines \o rx, todo, response) BY <1>3 DEF ChanInv, OrderInv
  <2>. QED BY <1>2, <1>3, <2>1, NothingAwaited
<1>4. ChanInv'
  <2>1. caller[t] # "out" BY <1>1
  <2>. QED BY <1>1, <1>3, <2>1, ReturnedStep
<1>5. Effect
  <2>1. \A u \in Threads : caller[u] = "out" => caller'[u] = "out"
    BY <1>1 DEF ChanInv, ChannelTypes
  <2>. QED BY <1>1, <1>2, <2>1 DEF Effect
<1>. QED BY <1>4, <1>5

\* The first line in the tty, and what is left.
LEMMA HeadOfLines ==
  ASSUME ChanInv, rx # <<>>
  PROVE  /\ Head(rx) \in Line /\ Tail(rx) \in Seq(Line)
         /\ rx = <<Head(rx)>> \o Tail(rx) /\ <<Head(rx)>> \in Seq(Line)
BY DEF ChanInv, ChannelTypes

\* A line after the first.
LEMMA SecondLine ==
  ASSUME NEW s \in Seq(Line), Len(s) = 1, NEW x \in Line
  PROVE  /\ Append(s, x) \in Seq(Line) /\ Len(Append(s, x)) = 2
         /\ Append(s, x)[1] = s[1] /\ Append(s, x)[2] = x
<1>1. Append(s, x) \in Seq(Line) BY AppendProperties, Zenon
<1>2. Len(Append(s, x)) = Len(s) + 1 BY AppendProperties, Zenon
<1>3. \A i \in 1..Len(s) : Append(s, x)[i] = s[i] OBVIOUS
<1>4. Append(s, x)[Len(s) + 1] = x BY AppendProperties, Zenon
<1>5. \A n : n = 1 => 1 \in 1..n /\ n + 1 = 2 OBVIOUS
<1>. QED BY <1>1, <1>2, <1>3, <1>4, <1>5, Zenon

\* The reader takes a text message, and what follows it.
LEMMA ReadTextStep ==
  ASSUME ChanInv, ReadText \/ ReadPdu
  PROVE  ChanInv' /\ Effect
<1>1. rx # <<>> BY DEF ReadText, ReadPdu
<1>. DEFINE l == Head(rx)
            rest == Tail(rx)
<1>2. /\ l \in Line /\ rest \in Seq(Line) /\ rx = <<l>> \o rest /\ <<l>> \in Seq(Line)
  BY <1>1, HeadOfLines
<1>3. /\ rx' = rest
      /\ \/ reader = "read" /\ reader' = "pdu" /\ l.kind = "sms" /\ lines' = <<l>> /\ outOfStep' = outOfStep
         \/ /\ reader = "pdu" /\ reader' = "hand" /\ lines' = Append(lines, l)
            /\ outOfStep' = (outOfStep \/ Answers(l))
      /\ UNCHANGED <<fd, readerClosed, response, caller, result, collided, todo, present>>
  BY DEF ReadText, ReadPdu
<1>. HIDE DEF l, rest
<1>4. lines \in Seq(Line) BY DEF ChanInv, ChannelTypes
<1>5. /\ lines' \in Seq(Line) /\ lines' \o rx' = lines \o rx
      /\ reader' = "pdu" => Len(lines') = 1 /\ lines'[1] = l /\ l.kind = "sms"
      /\ reader' = "hand" => /\ Len(lines') = 2 /\ lines'[1] = lines[1] /\ lines'[2] = l
                             /\ lines[1].kind = "sms" /\ outOfStep' = (outOfStep \/ Answers(l))
      /\ reader' \in {"pdu", "hand"}
  <2>1. CASE reader = "read"
    <3>1. lines = <<>> BY <2>1 DEF ChanInv, ReaderInv
    <3>2. rx \in Seq(Line) /\ <<>> \o rx = rx BY DEF ChanInv, ChannelTypes
    <3>3. lines' \o rx' = lines \o rx BY <1>2, <1>3, <2>1, <3>1, <3>2
    <3>4. Len(<<l>>) = 1 /\ <<l>>[1] = l OBVIOUS
    <3>. QED BY <1>2, <1>3, <2>1, <3>3, <3>4
  <2>2. CASE reader = "pdu"
    <3>1. Len(lines) = 1 /\ lines[1].kind = "sms" BY <2>2 DEF ChanInv, ReaderInv
    <3>2. Append(lines, l) \o rest = lines \o (<<l>> \o rest) BY <1>2, <1>4
    <3>3. lines' = Append(lines, l) /\ reader' = "hand" BY <1>3, <2>2
    <3>4. /\ Append(lines, l) \in Seq(Line) /\ Len(Append(lines, l)) = 2
          /\ Append(lines, l)[1] = lines[1] /\ Append(lines, l)[2] = l
      <4>1. Len(lines) = 1 /\ l \in Line BY <1>2, <3>1
      <4>. QED BY <1>4, <4>1, SecondLine
    <3>. QED BY <1>2, <1>3, <2>2, <3>1, <3>2, <3>3, <3>4
  <2>. QED BY <1>3, <2>1, <2>2
<1>6. ChannelTypes' BY <1>2, <1>3, <1>5 DEF ChanInv, ChannelTypes
<1>7. ReaderInv' BY <1>5 DEF ReaderInv
<1>8. CallInv' BY <1>3 DEF ChanInv, CallInv
<1>9. OrderInv'
  <2>. SUFFICES ASSUME ~outOfStep', ~readerClosed
                PROVE  /\ Len(lines') = 2 => ~Answers(lines'[2])
                       /\ response.final # <<>> => response.final[1].of = response.n
                       /\ Awaited(lines \o rx, todo, response)
    BY <1>3, <1>5 DEF OrderInv
  <2>1. ~outOfStep BY <1>3
  <2>2. Len(lines') = 2 => reader' = "hand" BY <1>5
  <2>3. Len(lines') = 2 => ~Answers(lines'[2]) BY <1>5, <2>2
  <2>. QED BY <2>1, <2>3 DEF ChanInv, OrderInv
<1>10. Effect BY <1>3 DEF Effect
<1>. QED BY <1>6, <1>7, <1>8, <1>9, <1>10 DEF ChanInv

\* The reader keeps a line, or hands it on; final responses it hands on.
LEMMA ReadLineStep ==
  ASSUME ChanInv, ReadLine
  PROVE  ChanInv' /\ Effect
<1>. DEFINE l == Head(rx)
            rest == Tail(rx)
<1>1. rx # <<>> BY DEF ReadLine
<1>2. /\ l \in Line /\ rest \in Seq(Line) /\ rx = <<l>> \o rest /\ <<l>> \in Seq(Line)
  BY <1>1, HeadOfLines
<1>3. lines = <<>> /\ <<>> \o rx = rx
  BY DEF ReadLine, ChanInv, ReaderInv, ChannelTypes
<1>4. /\ reader = "read" /\ rx' = rest /\ l.kind # "sms"
      /\ \/ /\ ~IsFinal(l) /\ response' = [response EXCEPT !.intermediates = Append(@, l)]
            /\ UNCHANGED <<caller, reader, lines>>
            /\ response # NoResponse
         \/ reader' = "hand" /\ lines' = <<l>> /\ UNCHANGED <<response, caller>>
      /\ ~outOfStep' => ~outOfStep
      /\ UNCHANGED <<fd, readerClosed, result, collided, todo, present>>
  BY ProxyAssumption DEF ReadLine, Kept, IsIntermediate, IsFinal, Finals
<1>. HIDE DEF l, rest
<1>5. response \in Response BY DEF ChanInv, ChannelTypes
<1>6. CASE /\ ~IsFinal(l) /\ response' = [response EXCEPT !.intermediates = Append(@, l)]
           /\ response # NoResponse
           /\ UNCHANGED <<caller, reader, lines>>
  <2>1. response' \in Response /\ response'.n = response.n /\ response'.final = response.final
    <3>1. Append(response.intermediates, l) \in Seq(Line) BY <1>2, <1>5 DEF Response
    <3>. QED BY <1>5, <1>6, <3>1 DEF Response
  <2>2. ChannelTypes' BY <1>2, <1>4, <1>6, <2>1 DEF ChanInv, ChannelTypes
  <2>3. ReaderInv' BY <1>6 DEF ChanInv, ReaderInv
  <2>4. CallInv'
    <3>1. response # NoResponse BY <1>6
    <3>. QED BY <1>4, <1>6, <2>1, <3>1 DEF ChanInv, CallInv
  <2>5. OrderInv'
    <3>. SUFFICES ASSUME ~outOfStep, ~outOfStep', ~readerClosed
                  PROVE  Awaited(lines \o rest, todo, response')
      BY <1>3, <1>4, <1>6, <2>1 DEF ChanInv, OrderInv
    <3>1. Awaited(<<l>> \o rest, todo, response) BY <1>2, <1>3 DEF ChanInv, OrderInv
    <3>2. Awaited(rest, todo, response) BY <1>2, <3>1, AwaitedSuffix
    <3>3. <<>> \o rest = rest BY <1>2
    <3>. QED BY <1>3, <2>1, <3>2, <3>3 DEF Awaited
  <2>6. Effect BY <1>4, <1>6, <2>1 DEF Effect
  <2>. QED BY <2>2, <2>3, <2>4, <2>5, <2>6 DEF ChanInv
<1>7. CASE reader' = "hand" /\ lines' = <<l>> /\ UNCHANGED <<response, caller>>
  <2>1. Len(lines') = 1 BY <1>7
  <2>2. ChannelTypes' BY <1>2, <1>4, <1>7 DEF ChanInv, ChannelTypes
  <2>3. ReaderInv' BY <1>7, <2>1 DEF ReaderInv
  <2>4. CallInv' BY <1>4, <1>7 DEF ChanInv, CallInv
  <2>5. OrderInv'
    <3>1. lines' \o rx' = lines \o rx BY <1>2, <1>3, <1>4, <1>7
    <3>2. ~(Len(lines') = 2) BY <2>1
    <3>3. ~outOfStep /\ ~readerClosed =>
            /\ response.final # <<>> => response.final[1].of = response.n
            /\ Awaited(lines' \o rx', todo, response)
      BY <3>1 DEF ChanInv, OrderInv
    <3>. QED BY <1>4, <1>7, <3>2, <3>3 DEF OrderInv
  <2>6. Effect BY <1>4, <1>7 DEF Effect
  <2>. QED BY <2>2, <2>3, <2>4, <2>5, <2>6 DEF ChanInv
<1>. QED BY <1>4, <1>6, <1>7

\* The handler returns; a final response has come for whoever is in a call.
LEMMA HandlerReturnsStep ==
  ASSUME ChanInv, HandlerReturns
  PROVE  /\ ChanInv' /\ reader' = "read" /\ UNCHANGED <<result, present, fd>>
         /\ \A t \in Threads : caller'[t] = "out" <=> caller[t] = "out"
         /\ response'.n = response.n
         /\ \/ response'.final = response.final
            \/ Len(lines) = 1 /\ IsFinal(lines[1]) /\ response'.final = lines
<1>. DEFINE done == Len(lines) = 1 /\ IsFinal(lines[1]) /\ response # NoResponse
<1>0. /\ reader = "hand" /\ ChannelTypes /\ lines \in Seq(Line) /\ rx \in Seq(Line)
      /\ response \in Response
  BY DEF HandlerReturns, ChanInv, ChannelTypes
<1>1. /\ reader' = "read" /\ lines' = <<>>
      /\ IF done THEN response' = [response EXCEPT !.final = lines] /\ caller' = Signalled
                 ELSE UNCHANGED <<response, caller>>
      /\ ~outOfStep' => ~outOfStep /\ (done => Answers(lines[1]))
      /\ UNCHANGED <<fd, readerClosed, result, collided, rx, todo, present>>
  BY DEF HandlerReturns, line
<1>. HIDE DEF done
<1>2. /\ caller' \in [Threads -> {"out", "wait", "expired", "woken"}]
      /\ \A t \in Threads : /\ caller'[t] = "out" <=> caller[t] = "out"
                            /\ caller'[t] = "woken" => done \/ caller[t] = "woken"
  <2>1. CASE done BY <1>0, <1>1, <2>1, SignalledCallers
  <2>2. CASE ~done BY <1>0, <1>1, <2>2 DEF ChannelTypes
  <2>. QED BY <2>1, <2>2
<1>3. /\ response' \in Response /\ response'.n = response.n
      /\ response'.final = IF done THEN lines ELSE response.final
  BY <1>0, <1>1 DEF Response
<1>4. <<>> \in Seq(Line) /\ <<>> \o rx = rx BY <1>0
<1>5. ChannelTypes' BY <1>0, <1>1, <1>2, <1>3, <1>4 DEF ChannelTypes
<1>6. ReaderInv' BY <1>1 DEF ReaderInv
<1>7. CallInv'
  <2>1. response' # NoResponse => \E t \in Threads : caller[t] # "out"
    <3>1. CASE done BY <3>1 DEF done, ChanInv, CallInv
    <3>2. CASE ~done BY <1>1, <3>2 DEF ChanInv, CallInv
    <3>. QED BY <3>1, <3>2
  <2>2. done => lines # <<>> BY DEF done
  <2>3. \A t \in Threads : caller'[t] = "woken" /\ ~readerClosed => response'.final # <<>>
    BY <1>2, <1>3, <2>2 DEF ChanInv, CallInv
  <2>. QED BY <1>1, <1>2, <1>3, <2>1, <2>3 DEF ChanInv, CallInv
<1>8. OrderInv'
  <2>. SUFFICES ASSUME ~outOfStep, ~outOfStep', ~readerClosed
                PROVE  /\ response'.final # <<>> => response'.final[1].of = response'.n
                       /\ Awaited(rx, todo, response')
    BY <1>1, <1>4 DEF OrderInv
  <2>1. Awaited(lines \o rx, todo, response) BY DEF ChanInv, OrderInv
  <2>2. CASE done
    <3>. DEFINE l == lines[1]
    <3>0. Answers(l) BY <1>1, <2>2
    <3>1. l \in Line /\ lines = <<l>> /\ Answers(l) BY <1>0, <2>2, <3>0 DEF done
    <3>. HIDE DEF l
    <3>2. Awaited(rx, todo, response') /\ l.of = response.n
      BY <1>0, <2>1, <3>1, AwaitedRead
    <3>. QED BY <1>3, <2>2, <3>1, <3>2
  <2>3. CASE ~done
    <3>1. Awaited(rx, todo, response) BY <1>0, <2>1, AwaitedSuffix
    <3>2. response' = response BY <1>1, <2>3
    <3>. QED BY <3>1, <3>2 DEF ChanInv, OrderInv
  <2>. QED BY <2>2, <2>3
<1>. QED BY <1>1, <1>2, <1>3, <1>5, <1>6, <1>7, <1>8 DEF ChanInv, done

\* The tty is at its end.
LEMMA ReaderEndsStep ==
  ASSUME ChanInv, ReaderEnds
  PROVE  ChanInv' /\ Effect
<1>0. ChannelTypes BY DEF ChanInv
<1>1. /\ reader \in {"read", "pdu"} /\ reader' = "gone" /\ lines' = <<>> /\ readerClosed' = TRUE
      /\ caller' \in {caller, Signalled}
      /\ UNCHANGED <<response, result, collided, rx, todo, present>>
  BY DEF ReaderEnds, line
<1>2. /\ caller' \in [Threads -> {"out", "wait", "expired", "woken"}]
      /\ \A t \in Threads : caller'[t] = "out" <=> caller[t] = "out"
  <2>1. CASE caller' = caller BY <1>0, <2>1 DEF ChannelTypes
  <2>2. CASE caller' = Signalled BY <1>0, <2>2, SignalledCallers
  <2>. QED BY <1>1, <2>1, <2>2
<1>3. <<>> \in Seq(Line) OBVIOUS
<1>4. ChannelTypes' BY <1>0, <1>1, <1>2, <1>3 DEF ChannelTypes
<1>5. ReaderInv' BY <1>1 DEF ReaderInv
<1>6. CallInv' BY <1>1, <1>2 DEF ChanInv, CallInv
<1>7. OrderInv' BY <1>1 DEF OrderInv
<1>8. Effect BY <1>1, <1>2 DEF Effect
<1>. QED BY <1>4, <1>5, <1>6, <1>7, <1>8 DEF ChanInv

\* Lines come from the modem, which finishes a command or speaks unasked.
LEMMA ArriveStep ==
  ASSUME ChanInv, NEW m \in Seq(Line), Arrive(m), UNCHANGED <<channel, outOfStep>>,
         todo' \in Seq(Nat),
         ~outOfStep /\ ~readerClosed => Awaited((lines \o rx) \o m, todo', response)
  PROVE  ChanInv'
<1>0. lines \in Seq(Line) /\ rx \in Seq(Line) BY DEF ChanInv, ChannelTypes
<1>1. /\ rx' = rx \o m /\ rx' \in Seq(Line) /\ lines \o rx' = (lines \o rx) \o m
      /\ UNCHANGED <<fd, readerClosed, response, caller, reader, lines, collided, outOfStep>>
  BY <1>0 DEF Arrive, channel
<1>2. ChannelTypes' BY <1>1 DEF ChanInv, ChannelTypes
<1>3. ReaderInv' BY <1>1 DEF ChanInv, ReaderInv
<1>4. CallInv' BY <1>1 DEF ChanInv, CallInv
<1>5. OrderInv'
  <2>. SUFFICES ASSUME ~outOfStep, ~readerClosed
                PROVE  /\ Len(lines) = 2 => ~Answers(lines[2])
                       /\ response.final # <<>> => response.final[1].of = response.n
                       /\ Awaited((lines \o rx) \o m, todo', response)
    <3>. DEFINE w == (lines \o rx) \o m
    <3>1. lines' \o rx' = w /\ UNCHANGED <<lines, response, outOfStep, readerClosed>> BY <1>1
    <3>. HIDE DEF w
    <3>2. (~outOfStep /\ ~readerClosed =>
             /\ Len(lines) = 2 => ~Answers(lines[2])
             /\ response.final # <<>> => response.final[1].of = response.n
             /\ Awaited(w, todo', response)) => OrderInv'
      BY <3>1 DEF OrderInv
    <3>. QED BY <3>2 DEF w
  <2>. QED BY DEF ChanInv, OrderInv
<1>. QED BY <1>2, <1>3, <1>4, <1>5 DEF ChanInv

\* The modem answers.
LEMMA AnswerStep ==
  ASSUME ChanInv, NEW kind \in Finals, Answer(kind)
  PROVE  ChanInv' /\ Effect
<1>0. /\ lines \o rx \in Seq(Line) /\ todo \in Seq(Nat) /\ todo # <<>> /\ todo' = Tail(todo)
      /\ UNCHANGED <<channel, present, outOfStep>>
  BY DEF ChanInv, ChannelTypes, Answer
<1>. DEFINE n == Head(todo)
            l == [kind |-> kind, of |-> n]
            d == [kind |-> "data", of |-> n]
<1>1. PICK data \in {<<>>, <<d>>} : Arrive(Append(data, l))
  BY DEF Answer
<1>2. n \in Nat /\ n = todo[1] /\ todo' \in Seq(Nat) BY <1>0
<1>3. l \in Line /\ d \in Line /\ l.of = n /\ d.kind = "data" BY <1>2 DEF Line, Finals
<1>. HIDE DEF n, l, d
<1>4. data \in Seq(Line) /\ \A i \in DOMAIN data : ~Answers(data[i])
  <2>1. CASE data = <<>> BY <2>1
  <2>2. CASE data = <<d>>
    <3>1. <<d>> \in Seq(Line) /\ \A i \in DOMAIN <<d>> : <<d>>[i] = d BY <1>3
    <3>. QED BY <1>3, <2>2, <3>1 DEF Answers, IsFinal, Finals
  <2>. QED BY <2>1, <2>2
<1>5. Append(data, l) \in Seq(Line) BY <1>3, <1>4
<1>6. ASSUME ~outOfStep, ~readerClosed
      PROVE  Awaited((lines \o rx) \o Append(data, l), todo', response)
  <2>1. Awaited(lines \o rx, todo, response) BY <1>6 DEF ChanInv, OrderInv
  <2>2. Awaited((lines \o rx) \o Append(data, l), <<>>, response)
    BY <1>0, <1>2, <1>3, <1>4, <2>1, AwaitedAnswer
  <2>3. todo' = <<>> BY <1>0, <2>1 DEF Awaited
  <2>. QED BY <2>2, <2>3
<1>7. ChanInv' BY <1>0, <1>1, <1>2, <1>5, <1>6, ArriveStep
<1>8. Effect BY <1>0 DEF Effect, channel
<1>. QED BY <1>7, <1>8

\* The modem speaks unasked.
LEMMA UnsolicitedStep ==
  ASSUME ChanInv, Unsolicited
  PROVE  ChanInv' /\ Effect
<1>. DEFINE u == [kind |-> "urc", of |-> 0]
            s == [kind |-> "sms", of |-> 0]
<1>0. lines \o rx \in Seq(Line) /\ todo \in Seq(Nat) /\ UNCHANGED <<channel, todo, present, outOfStep>>
  BY DEF ChanInv, ChannelTypes, Unsolicited
<1>1. PICK k \in Finals \cup {"urc"} :
        Arrive(<<[kind |-> k, of |-> 0]>>) \/ Arrive(<<s, u>>) \/ Arrive(<<s>>)
  BY DEF Unsolicited
<1>. DEFINE v == [kind |-> k, of |-> 0]
<1>2. /\ u \in Line /\ s \in Line /\ v \in Line
      /\ ~Answers(u) /\ ~Answers(s) /\ ~Answers(v)
  BY DEF Line, Answers, Finals
<1>. HIDE DEF u, s, v
<1>3. PICK m \in {<<v>>, <<s, u>>, <<s>>} : Arrive(m) BY <1>1 DEF v
<1>4. m \in Seq(Line) /\ \A i \in DOMAIN m : ~Answers(m[i])
  <2>1. CASE m = <<v>> BY <1>2, <2>1
  <2>2. CASE m = <<s>> BY <1>2, <2>2
  <2>3. CASE m = <<s, u>> BY <1>2, <2>3
  <2>. QED BY <2>1, <2>2, <2>3
<1>5. ~outOfStep /\ ~readerClosed => Awaited((lines \o rx) \o m, todo, response)
  BY <1>0, <1>4, AwaitedMore DEF ChanInv, OrderInv
<1>6. ChanInv' BY <1>0, <1>3, <1>4, <1>5, ArriveStep
<1>7. Effect BY <1>0 DEF Effect, channel
<1>. QED BY <1>6, <1>7

\* The device goes, with all that is on its way; or it comes back.
LEMMA PlugStep ==
  ASSUME ChanInv, Unplug \/ Replug
  PROVE  ChanInv' /\ Effect
<1>1. /\ UNCHANGED <<channel, outOfStep>>
      /\ \/ Unplug /\ rx' = <<>> /\ todo' = <<>> /\ present' = FALSE
         \/ Replug /\ rx' = rx /\ todo' = todo /\ reader \in {"none", "gone"}
  BY DEF Unplug, Replug
<1>2. lines \in Seq(Line) /\ rx \in Seq(Line) BY DEF ChanInv, ChannelTypes
<1>3. ChannelTypes'
  <2>1. <<>> \in Seq(Line) /\ <<>> \in Seq(Nat) OBVIOUS
  <2>. QED BY <1>1, <2>1 DEF ChanInv, ChannelTypes, channel
<1>4. ReaderInv' BY <1>1 DEF ChanInv, ReaderInv, channel
<1>5. CallInv' BY <1>1 DEF ChanInv, CallInv, channel
<1>6. OrderInv'
  <2>. SUFFICES ASSUME ~outOfStep, ~readerClosed
                PROVE  Awaited(lines \o rx', todo', response)
    BY <1>1 DEF ChanInv, OrderInv, channel
  <2>1. Awaited(lines \o rx, todo, response) BY DEF ChanInv, OrderInv
  <2>2. CASE rx' = <<>> /\ todo' = <<>>
    <3>1. \A i \in DOMAIN lines : i \in DOMAIN (lines \o rx) /\ (lines \o rx)[i] = lines[i]
      BY <1>2
    <3>2. lines \o <<>> = lines BY <1>2
    <3>. QED BY <2>1, <2>2, <3>1, <3>2 DEF Awaited
  <2>. QED BY <1>1, <2>1, <2>2
<1>7. Effect BY <1>1 DEF Effect, channel
<1>. QED BY <1>3, <1>4, <1>5, <1>6, <1>7 DEF ChanInv

\* Every step of the channel by itself.
LEMMA ChannelStep ==
  ASSUME ChanInv, Channel
  PROVE  ChanInv' /\ Effect
<1>1. ASSUME NEW t \in Threads, SliceExpires(t) \/ WaitAgain(t) \/ TimesOut(t) \/ Returns(t)
      PROVE  ChanInv' /\ Effect
  BY <1>1, SliceStep, TimesOutStep, ReturnsStep
<1>2. CASE ReadText \/ ReadPdu \/ ReadLine \/ ReaderEnds
  BY <1>2, ReadTextStep, ReadLineStep, ReaderEndsStep
<1>3. CASE Answer("OK") \/ Answer("ERROR") BY <1>3, AnswerStep DEF Finals
<1>4. CASE Unsolicited \/ Unplug \/ Replug BY <1>4, UnsolicitedStep, PlugStep
<1>. QED BY <1>1, <1>2, <1>3, <1>4 DEF Channel

-----------------------------------------------------------------------------
(* The proxy's invariant                                                   *)

Quiet == ~present \/ reader \in {"none", "gone"}

\* The main thread is in a call only during the initialisation, the loop thread
\* only after it; the loop ends, and the port is opened again, when no line can
\* be on its way to the handler.
ThreadInv ==
  /\ main \in {"closed", "init", "serve"} /\ server \in BOOLEAN
  /\ loop \in {"none", "poll", "events", "call", "ended"}
  /\ step \in [at : 0..Reboot, sent : BOOLEAN, tries : Nat]
  /\ server <=> main = "serve"
  /\ main = "closed" <=> loop = "none"
  /\ caller["main"] # "out" => main = "init" /\ step.sent
  /\ caller["loop"] # "out" => loop = "call"
  /\ loop = "call" => server
  /\ loop \in {"none", "ended"} => Quiet

\* Connections are accepted, and in the list once, or neither.
ListInv ==
  /\ list \in Seq(Fds) /\ \A i, j \in DOMAIN list : list[i] = list[j] => i = j
  /\ conn \in [Fds -> {"none", "backlog", "open", "hup"}] /\ inbox \in [Fds -> BOOLEAN]
  /\ \A f \in Fds : f \in Connections <=> conn[f] \in {"open", "hup"}
  /\ ~server => \A f \in Fds : conn[f] = "none"
  /\ loop \in {"none", "ended"} => list = <<>>

\* The loop's round is over before it ends; who asks is connected.
RoundInv ==
  /\ pollfds \in [Slots -> Nat] /\ nevents \in 0..(2 + Cardinality(Fds))
  /\ events \in Seq(Nat)
  /\ events # <<>> => loop \in {"events", "call"}
  /\ loop = "call" => events # <<>> /\ asker \in Connections
  /\ \A i \in DOMAIN events : events[i] = Device => Quiet
  /\ current # 0 => loop = "call" /\ current \in Connections

\* The reader is in the list only while it hands on a line.
WalkInv ==
  /\ walk \in [at : Fds \cup {0}, freed : BOOLEAN, next : Fds \cup {0}]
  /\ walk.at # 0 => reader = "hand"
  /\ dead \in {"no", "sigpipe", "freed"} /\ shrunk \in BOOLEAN

\* Until a connection ends, the array holds connections only where this round has
\* put them, so that the answer goes to everyone, and the reader passes them all.
EveryoneInv ==
  /\ \A i \in Slots : pollfds[i] \in Fds => 3 =< i /\ i =< nevents /\ i =< 2 + Len(list)
  /\ current = 0 /\ ~walk.freed
  /\ walk.at # 0 => walk.at \in Connections

\* The asker has its final response once the channel has it, or once the reader,
\* on its way through the list with it, has come to the asker.
HeardInv ==
  loop = "call" =>
    /\ response.n # 0 /\ response.final # <<>> /\ response.final[1].of = response.n => heard
    /\ caller["loop"] = "out" /\ result.err = "ok" /\ result.own => heard
    /\ walk.at # 0 /\ Len(lines) = 1 /\ IsFinal(lines[1]) /\ lines[1].of = response.n
         /\ response.n # 0 =>
         \A i, j \in DOMAIN list : list[i] = walk.at /\ list[j] = asker /\ j =< i => heard

IInv ==
  /\ ChanInv /\ ThreadInv /\ ListInv /\ RoundInv /\ WalkInv
  /\ ~shrunk => EveryoneInv /\ HeardInv

\* Before anything has happened.
LEMMA ProxyInit == Init => IInv
<1>. SUFFICES ASSUME Init PROVE IInv
  OBVIOUS
<1>1. ChanInv BY ChanInit DEF Init
<1>2. Cardinality(Fds) \in Nat BY ProxyAssumption, FS_CardinalityType
<1>3. Reboot \in Nat /\ 0 \in 0..Reboot BY ProxyAssumption DEF Reboot
<1>4. ThreadInv
  <2>1. step \in [at : 0..Reboot, sent : BOOLEAN, tries : Nat] BY <1>3 DEF Init, Handshake
  <2>2. caller["main"] = "out" /\ caller["loop"] = "out" /\ reader = "none"
    BY DEF Init, AtInit, Threads
  <2>. QED BY <2>1, <2>2 DEF Init, ThreadInv, Quiet
<1>5. ListInv
  <2>1. <<>> \in Seq(Fds) /\ Connections = {} BY DEF Init, Connections, ToSet
  <2>. QED BY <2>1 DEF Init, ListInv
<1>6. RoundInv
  <2>1. <<>> \in Seq(Nat) OBVIOUS
  <2>. QED BY <1>2, <2>1 DEF Init, RoundInv
<1>7. WalkInv BY DEF Init, WalkInv, NoWalk
<1>8. EveryoneInv BY ProxyAssumption DEF Init, EveryoneInv, NoWalk
<1>9. HeardInv BY DEF Init, HeardInv
<1>. QED BY <1>1, <1>4, <1>5, <1>6, <1>7, <1>8, <1>9 DEF IInv

-----------------------------------------------------------------------------
(* The main thread's steps preserve it                                     *)

\* An element of two sequences after one another.
LEMMA ConcatElement ==
  ASSUME NEW S, NEW a \in Seq(S), NEW b \in Seq(S), NEW i \in 1..(Len(a) + Len(b))
  PROVE  (a \o b)[i] \in S
<1>1. a \o b \in Seq(S) /\ Len(a \o b) = Len(a) + Len(b) OBVIOUS
<1>. QED BY <1>1

\* Outside of calls the channel is not in use.
LEMMA NobodyCalls ==
  ASSUME ThreadInv, loop # "call", main # "init" \/ ~step.sent
  PROVE  \A t \in Threads : caller[t] = "out"
BY DEF ThreadInv, Threads

\* The port is opened.
LEMMA OpenStep ==
  ASSUME IInv, Open
  PROVE  IInv'
<1>1. ThreadInv /\ ChanInv /\ ListInv /\ RoundInv /\ WalkInv BY DEF IInv
<1>2. main = "closed" /\ loop = "none" /\ server = FALSE /\ list = <<>> /\ Quiet
  BY <1>1 DEF Open, ThreadInv, ListInv
<1>3. /\ at_open /\ main' = "init" /\ loop' = "events" /\ step' = Handshake /\ list' = list
      /\ UNCHANGED <<server, conn, inbox, pollfds, nevents, events, current, walk, dead, asker,
                     shrunk, caller, present>>
      /\ reader' = "read"
  BY <1>2 DEF Open, at_open, polling, history
<1>4. \A t \in Threads : caller[t] = "out" BY <1>1, <1>2, NobodyCalls
<1>5. ChanInv' BY <1>1, <1>3, <1>4, OpenChannel
<1>6. walk.at = 0 /\ events = <<>> BY <1>1, <1>2, <1>3 DEF WalkInv, Quiet, at_open, RoundInv
<1>7. ThreadInv'
  <2>1. Reboot \in Nat /\ 0 \in 0..Reboot BY ProxyAssumption DEF Reboot
  <2>2. step' \in [at : 0..Reboot, sent : BOOLEAN, tries : Nat] BY <1>3, <2>1 DEF Handshake
  <2>. QED BY <1>2, <1>3, <1>4, <2>2 DEF ThreadInv, Threads
<1>8. ListInv' BY <1>1, <1>2, <1>3 DEF ListInv, Connections
<1>9. RoundInv' BY <1>1, <1>2, <1>3, <1>6 DEF RoundInv, Connections
<1>10. WalkInv' BY <1>1, <1>3, <1>6 DEF WalkInv
<1>11. ~shrunk' => EveryoneInv' BY <1>3 DEF IInv, EveryoneInv, Connections
<1>12. HeardInv' BY <1>3 DEF HeardInv
<1>. QED BY <1>5, <1>7, <1>8, <1>9, <1>10, <1>11, <1>12 DEF IInv

\* A command of the initialisation is sent.
LEMMA InitSendStep ==
  ASSUME IInv, InitSend
  PROVE  IInv'
<1>1. ThreadInv /\ ChanInv /\ ListInv /\ RoundInv /\ WalkInv BY DEF IInv
<1>. DEFINE type == IF step.at = 0 THEN "NO_RESULT" ELSE Script[step.at]
<1>2. /\ main = "init" /\ ~step.sent /\ at_send_command("main", type)
      /\ step' = [step EXCEPT !.sent = TRUE]
      /\ UNCHANGED <<main, server, loop, list, conn, inbox, pollfds, nevents, events, current,
                     walk, dead, asker, heard, shrunk>>
  BY DEF InitSend, clients, polling, history
<1>3. loop # "call" BY <1>1, <1>2 DEF ThreadInv
<1>4. \A t \in Threads : caller[t] = "out" BY <1>1, <1>2, <1>3, NobodyCalls
<1>5. type \in Expected
  <2>1. step.at \in 0..Reboot /\ Settings \in Nat BY <1>1, ProxyAssumption DEF ThreadInv
  <2>2. CASE step.at = 0 BY <2>2 DEF Expected
  <2>3. CASE step.at # 0
    <3>. DEFINE a == [i \in 1..Settings |-> "MULTILINE"]
                b == <<"SINGLELINE", "NO_RESULT", "NO_RESULT">>
    <3>1. /\ a \in Seq(Expected) /\ Len(a) = Settings /\ b \in Seq(Expected) /\ Len(b) = 3
      BY <2>1 DEF Expected
    <3>2. Script = a \o b BY DEF Script
    <3>3. step.at \in 1..(Settings + 3) BY <2>1, <2>3 DEF Reboot
    <3>. HIDE DEF a, b
    <3>4. step.at \in 1..(Len(a) + Len(b)) BY <3>1, <3>3
    <3>5. (a \o b)[step.at] \in Expected BY <3>1, <3>4, ConcatElement
    <3>. QED BY <2>3, <3>2, <3>5
  <2>. QED BY <2>2, <2>3
<1>. HIDE DEF type
<1>6. /\ ChanInv' /\ caller'["loop"] = "out" /\ UNCHANGED <<reader, lines, present>>
  <2>1. "main" \in Threads /\ "loop" \in Threads BY DEF Threads
  <2>. QED BY <1>1, <1>2, <1>4, <1>5, <2>1, SendStep
<1>7. ThreadInv'
  <2>1. step' \in [at : 0..Reboot, sent : BOOLEAN, tries : Nat] /\ step'.sent
    BY <1>1, <1>2 DEF ThreadInv
  <2>. QED BY <1>1, <1>2, <1>3, <1>6, <2>1 DEF ThreadInv, Quiet
<1>8. ListInv' BY <1>1, <1>2 DEF ListInv, Connections
<1>9. RoundInv' BY <1>1, <1>2, <1>6 DEF RoundInv, Connections, Quiet
<1>10. WalkInv' BY <1>1, <1>2, <1>6 DEF WalkInv
<1>11. ~shrunk' => EveryoneInv' BY <1>2 DEF IInv, EveryoneInv, Connections
<1>12. HeardInv' BY <1>2, <1>3 DEF HeardInv
<1>. QED BY <1>6, <1>7, <1>8, <1>9, <1>10, <1>11, <1>12 DEF IInv

\* The channel is not touched.
LEMMA ChanFrame ==
  ASSUME ChanInv, UNCHANGED atvars
  PROVE  ChanInv'
<1>1. UNCHANGED <<fd, readerClosed, response, caller, slices, reader, lines, result, collided,
                  rx, todo, present, outOfStep>>
  BY DEF atvars, channel, line
<1>2. ChannelTypes' BY <1>1 DEF ChanInv, ChannelTypes
<1>3. ReaderInv' BY <1>1 DEF ChanInv, ReaderInv
<1>4. CallInv' BY <1>1 DEF ChanInv, CallInv
<1>5. OrderInv' BY <1>1 DEF ChanInv, OrderInv
<1>. QED BY <1>2, <1>3, <1>4, <1>5 DEF ChanInv

\* Nothing of the proxy but the main thread's own state and conn changes.
LEMMA MainFrame ==
  ASSUME IInv, loop # "call", loop' # "call",
         UNCHANGED <<atvars, list, polling, current, walk, dead, history>>
  PROVE  /\ ChanInv'
         /\ loop' \in {"events", "call"} \/ events = <<>> => RoundInv'
         /\ WalkInv' /\ (~shrunk' => EveryoneInv' /\ HeardInv')
<1>1. UNCHANGED <<pollfds, nevents, events, asker, heard, shrunk>> BY DEF polling, history
<1>2. UNCHANGED <<caller, reader, lines, present>> BY DEF atvars, channel, line
<1>3. ChanInv' BY ChanFrame DEF IInv
<1>4. loop' \in {"events", "call"} \/ events = <<>> => RoundInv'
  BY <1>1, <1>2 DEF IInv, RoundInv, Connections, Quiet
<1>5. WalkInv' BY <1>1, <1>2 DEF IInv, WalkInv
<1>6. ~shrunk' => EveryoneInv' BY <1>1 DEF IInv, EveryoneInv, Connections
<1>7. HeardInv' BY DEF HeardInv
<1>. QED BY <1>3, <1>4, <1>5, <1>6, <1>7

\* The next command of the initialisation, another try, or the server starts.
LEMMA InitNextStep ==
  ASSUME IInv, InitNext
  PROVE  IInv'
<1>1. ThreadInv /\ ListInv /\ RoundInv BY DEF IInv
<1>2. /\ main = "init" /\ step.sent /\ caller["main"] = "out"
      /\ UNCHANGED <<atvars, loop, clients, polling, current, walk, dead, commands, history>>
  BY DEF InitNext
<1>3. Settings \in Nat /\ Reboot = Settings + 3 /\ 0 \in 0..Reboot
  BY ProxyAssumption DEF Reboot
<1>4. step.at \in 0..Reboot /\ step.tries \in Nat /\ step \in [at : 0..Reboot, sent : BOOLEAN, tries : Nat]
  BY <1>1 DEF ThreadInv
<1>5. /\ step' \in [at : 0..Reboot, sent : BOOLEAN, tries : Nat]
      /\ \/ main' = main /\ server' = server
         \/ main' = "serve" /\ server' = TRUE
  <2>1. Handshake \in [at : 0..Reboot, sent : BOOLEAN, tries : Nat] BY <1>3 DEF Handshake
  <2>2. ASSUME NEW failed, InitEnds(failed)
        PROVE  /\ step' \in [at : 0..Reboot, sent : BOOLEAN, tries : Nat]
               /\ \/ main' = main /\ server' = server
                  \/ main' = "serve" /\ server' = TRUE
    BY <2>1, <2>2 DEF InitEnds
  <2>3. ASSUME Goto([step EXCEPT !.tries = @ + 1, !.sent = FALSE])
        PROVE  /\ step' \in [at : 0..Reboot, sent : BOOLEAN, tries : Nat]
               /\ main' = main /\ server' = server
    <3>1. step.tries + 1 \in Nat BY <1>4
    <3>. QED BY <1>4, <2>3, <3>1 DEF Goto
  <2>4. ASSUME Goto([step EXCEPT !.at = @ + 1, !.sent = FALSE]), step.at # Reboot
        PROVE  /\ step' \in [at : 0..Reboot, sent : BOOLEAN, tries : Nat]
               /\ main' = main /\ server' = server
    <3>1. step.at + 1 \in 0..Reboot BY <1>3, <1>4, <2>4
    <3>. QED BY <1>4, <2>4, <3>1 DEF Goto
  <2>5. \/ \E failed : InitEnds(failed)
        \/ Goto([step EXCEPT !.tries = @ + 1, !.sent = FALSE])
        \/ Goto([step EXCEPT !.at = @ + 1, !.sent = FALSE]) /\ step.at # Reboot
    <3>1. NatQuery # Reboot BY <1>3 DEF NatQuery
    <3>. QED BY <3>1, Zenon DEF InitNext
  <2>. QED BY <2>2, <2>3, <2>4, <2>5
<1>6. loop # "call" BY <1>1, <1>2 DEF ThreadInv
<1>7. UNCHANGED <<loop, list, conn, inbox, events, caller, present, reader>>
  BY <1>2 DEF clients, polling, atvars, channel, line
<1>8. ThreadInv'
  <2>1. CASE main' = main /\ server' = server
    BY <1>1, <1>2, <1>5, <1>6, <1>7, <2>1 DEF ThreadInv, Quiet
  <2>2. CASE main' = "serve" /\ server' = TRUE
    BY <1>1, <1>2, <1>5, <1>6, <1>7, <2>2 DEF ThreadInv, Quiet
  <2>. QED BY <1>5, <2>1, <2>2
<1>9. ListInv' BY <1>1, <1>2, <1>5, <1>7 DEF ListInv, Connections, ThreadInv
<1>10. RoundInv'
  BY <1>1, <1>2, <1>6, <1>7, MainFrame DEF RoundInv, clients
<1>11. ChanInv' /\ WalkInv' /\ (~shrunk' => EveryoneInv' /\ HeardInv')
  BY <1>2, <1>6, <1>7, MainFrame DEF clients
<1>. QED BY <1>8, <1>9, <1>10, <1>11 DEF IInv

\* The server socket is closed, and with it what waits to be accepted.
LEMMA CloseServerStep ==
  ASSUME IInv, CloseServer
  PROVE  IInv'
<1>1. ThreadInv /\ ListInv /\ RoundInv BY DEF IInv
<1>2. /\ main = "serve" /\ loop = "ended"
      /\ main' = "closed" /\ loop' = "none" /\ server' = FALSE
      /\ conn' = [f \in Fds |-> "none"] /\ inbox' = [f \in Fds |-> FALSE]
      /\ UNCHANGED <<atvars, step, list, polling, current, walk, dead, history>>
  BY DEF CloseServer
<1>3. events = <<>> /\ list = <<>> BY <1>1, <1>2 DEF RoundInv, ListInv
<1>4. UNCHANGED <<list, caller, present, reader>> BY <1>2 DEF atvars, channel, line
<1>5. ThreadInv' BY <1>1, <1>2, <1>4 DEF ThreadInv, Quiet
<1>6. ListInv'
  <2>1. <<>> \in Seq(Fds) /\ Connections' = {} BY <1>3, <1>4 DEF Connections, ToSet
  <2>. QED BY <1>2, <1>3, <1>4, <2>1 DEF ListInv
<1>7. RoundInv' /\ ChanInv' /\ WalkInv' /\ (~shrunk' => EveryoneInv' /\ HeardInv')
  BY <1>2, <1>3, MainFrame
<1>. QED BY <1>5, <1>6, <1>7 DEF IInv

-----------------------------------------------------------------------------
(* The loop thread's steps preserve it                                     *)

\* Connections are no special descriptors; the array has room for all of them.
LEMMA Descriptors ==
  /\ Fds \subseteq Nat /\ 0 \notin Fds /\ Device \notin Fds /\ Server \notin Fds
  /\ Device \in Nat /\ Server \in Nat /\ Device # Server
  /\ Cardinality(Fds) \in Nat
BY ProxyAssumption, FS_CardinalityType DEF Device, Server

\* What is left of a sequence.
LEMMA TailElements ==
  ASSUME NEW X, NEW s \in Seq(X), s # <<>>
  PROVE  /\ Tail(s) \in Seq(X) /\ Head(s) = s[1] /\ 1 \in DOMAIN s
         /\ \A i \in DOMAIN Tail(s) : i + 1 \in DOMAIN s /\ Tail(s)[i] = s[i + 1]
OBVIOUS

\* Two elements before a sequence.
LEMMA TwoBefore ==
  ASSUME NEW X, NEW two \in Seq(X), Len(two) = 2, NEW s \in Seq(X)
  PROVE  /\ two \o s \in Seq(X) /\ Len(two \o s) = 2 + Len(s)
         /\ \A i \in DOMAIN (two \o s) :
              \/ i = 1 /\ (two \o s)[i] = two[1]
              \/ i = 2 /\ (two \o s)[i] = two[2]
              \/ 3 =< i /\ i =< 2 + Len(s)
<1>1. two \o s \in Seq(X) /\ Len(two \o s) = Len(two) + Len(s) BY ConcatProperties, Zenon
<1>2. \A i \in 1..Len(two) : (two \o s)[i] = two[i] 
  <2>1. \A i \in 1..(Len(two) + Len(s)) :
          (two \o s)[i] = IF i <= Len(two) THEN two[i] ELSE s[i - Len(two)]
    BY ConcatProperties, Zenon
  <2>2. \A i \in 1..Len(two) : i \in 1..(Len(two) + Len(s)) /\ i <= Len(two) OBVIOUS
  <2>. QED BY <2>1, <2>2, Zenon
<1>3. \A i \in 1..(2 + Len(s)) : i = 1 \/ i = 2 \/ (3 =< i /\ i =< 2 + Len(s)) OBVIOUS
<1>4. DOMAIN (two \o s) = 1..(2 + Len(s)) BY <1>1
<1>5. 1 \in 1..Len(two) /\ 2 \in 1..Len(two) OBVIOUS
<1>. QED BY <1>1, <1>2, <1>3, <1>4, <1>5

\* What the loop polls.
LEMMA PolledElements ==
  ASSUME ListInv, server \in BOOLEAN
  PROVE  /\ Len(Polled) \in 1..(2 + Cardinality(Fds))
         /\ Polled \in Seq(Nat)
         /\ \A i \in DOMAIN Polled : Polled[i] \in Fds => 3 =< i /\ i =< 2 + Len(list)
         /\ Len(Polled) = (IF server THEN 2 ELSE 1) + Len(list)
<1>1. list \in Seq(Fds) /\ list \in Seq(Nat) /\ Len(list) \in Nat /\ Len(list) =< Cardinality(Fds)
  BY ListBound, ProxyAssumption, Descriptors DEF ListInv
<1>2. CASE server
  <2>1. Polled = (<<Device>> \o <<Server>>) \o list BY <1>2 DEF Polled
  <2>2. /\ Polled \in Seq(Nat) /\ Len(Polled) = 2 + Len(list)
        /\ \A i \in DOMAIN Polled :
             \/ i = 1 /\ Polled[i] = Device
             \/ i = 2 /\ Polled[i] = Server
             \/ 3 =< i /\ i =< 2 + Len(list)
    <3>. DEFINE two == <<Device>> \o <<Server>>
    <3>1. two \in Seq(Nat) /\ Len(two) = 2 /\ two[1] = Device /\ two[2] = Server
      BY Descriptors
    <3>. HIDE DEF two
    <3>2. Polled = two \o list BY <2>1 DEF two
    <3>. DEFINE q == two \o list
    <3>3. /\ q \in Seq(Nat) /\ Len(q) = 2 + Len(list)
          /\ \A i \in DOMAIN q :
               \/ i = 1 /\ q[i] = two[1]
               \/ i = 2 /\ q[i] = two[2]
               \/ 3 =< i /\ i =< 2 + Len(list)
      <4>1. list \in Seq(Nat) /\ two \in Seq(Nat) /\ Len(two) = 2 BY <1>1, <3>1
      <4>. QED BY <4>1, TwoBefore, Zenon
    <3>4. Polled = q BY <3>2
    <3>. HIDE DEF q
    <3>5. two[1] = Device /\ two[2] = Server BY <3>1
    <3>6. \A i \in DOMAIN q :
            \/ i = 1 /\ q[i] = Device
            \/ i = 2 /\ q[i] = Server
            \/ 3 =< i /\ i =< 2 + Len(list)
      BY <3>3, <3>5, Zenon
    <3>. QED BY <3>3, <3>4, <3>6, Zenon
  <2>3. Device \notin Fds /\ Server \notin Fds BY Descriptors
  <2>4. Len(Polled) \in 1..(2 + Cardinality(Fds))
    <3>1. Cardinality(Fds) \in Nat BY <1>1, ProxyAssumption, FS_CardinalityType
    <3>. QED BY <1>1, <2>2, <3>1
  <2>5. \A i \in DOMAIN Polled : Polled[i] \in Fds => 3 =< i /\ i =< 2 + Len(list)
    BY <2>2, <2>3, Zenon
  <2>. QED BY <1>2, <2>2, <2>4, <2>5
<1>3. CASE ~server
  <2>0. list = <<>>
    <3>. SUFFICES ASSUME list # <<>> PROVE FALSE
      OBVIOUS
    <3>1. 1 \in DOMAIN list /\ list[1] \in Fds BY <1>1
    <3>2. list[1] \in Connections BY <3>1 DEF Connections, ToSet
    <3>. QED BY <1>3, <3>1, <3>2 DEF ListInv
  <2>1. Polled = <<Device>> BY <1>3, <2>0 DEF Polled
  <2>2. \A i \in DOMAIN <<Device>> : <<Device>>[i] = Device OBVIOUS
  <2>3. <<Device>> \in Seq(Nat) /\ Len(<<Device>>) = 1 BY Descriptors
  <2>. QED BY <1>1, <1>3, <2>0, <2>1, <2>2, <2>3, Descriptors
<1>. QED BY <1>2, <1>3

\* The array is filled for the next round.
LEMMA FillStep ==
  ASSUME IInv, FillPollfds
  PROVE  IInv'
<1>1. ThreadInv /\ ListInv /\ RoundInv /\ WalkInv BY DEF IInv
<1>2. /\ loop = "events" /\ loop' = "poll" /\ events = <<>>
      /\ nevents' = Len(Polled)
      /\ pollfds' = [i \in Slots |-> IF i <= Len(Polled) THEN Polled[i] ELSE pollfds[i]]
      /\ UNCHANGED <<atvars, main, step, server, list, conn, inbox, events, current, walk, dead,
                     asker, shrunk>>
  BY DEF FillPollfds, proxy, clients, history
<1>3. UNCHANGED <<caller, reader, present, lines, response>> BY <1>2 DEF atvars, channel, line
<1>4. ChanInv' BY <1>2, ChanFrame DEF IInv
<1>5. ThreadInv' BY <1>1, <1>2, <1>3 DEF ThreadInv, Quiet
<1>6. ListInv' BY <1>1, <1>2 DEF ListInv, Connections
<1>. DEFINE k == Len(Polled)
<1>7. /\ k \in 1..(2 + Cardinality(Fds)) /\ Polled \in Seq(Nat)
      /\ \A i \in DOMAIN Polled : Polled[i] \in Fds => 3 =< i /\ i =< 2 + Len(list)
      /\ k = (IF server THEN 2 ELSE 1) + Len(list)
  BY <1>1, PolledElements DEF ThreadInv
<1>8. \A i \in Slots : i =< k => i \in DOMAIN Polled /\ pollfds'[i] = Polled[i]
  BY <1>2, <1>7, Descriptors DEF Slots
<1>9. \A i \in Slots : ~(i =< k) => pollfds'[i] = pollfds[i]
  BY <1>2
<1>10. pollfds' \in [Slots -> Nat]
  <2>1. \A i \in DOMAIN Polled : Polled[i] \in Nat BY <1>7
  <2>2. \A i \in Slots : (IF i <= k THEN Polled[i] ELSE pollfds[i]) \in Nat
    BY <1>1, <1>8, <2>1 DEF RoundInv
  <2>. QED BY <1>2, <2>2
<1>. HIDE DEF k
<1>11. RoundInv'
  <2>1. nevents' \in 0..(2 + Cardinality(Fds)) BY <1>2, <1>7, Descriptors DEF k
  <2>. QED BY <1>1, <1>2, <1>3, <1>10, <2>1 DEF RoundInv, Connections, Quiet
<1>12. WalkInv' BY <1>1, <1>2, <1>3 DEF WalkInv
<1>13. ASSUME ~shrunk PROVE EveryoneInv'
  <2>1. EveryoneInv BY <1>13 DEF IInv
  <2>2. ASSUME NEW i \in Slots, pollfds'[i] \in Fds
        PROVE  3 =< i /\ i =< nevents' /\ i =< 2 + Len(list)
    <3>0. i \in Nat /\ nevents' = k /\ Len(list) \in Nat BY <1>1, <1>2 DEF k, Slots, ListInv
    <3>1. CASE i =< k BY <1>7, <1>8, <2>2, <3>0, <3>1
    <3>2. CASE ~(i =< k)
      <4>1. 3 =< i /\ i =< 2 + Len(list) BY <1>9, <2>1, <2>2, <3>2 DEF EveryoneInv
      <4>2. CASE server BY <1>7, <3>0, <3>2, <4>1, <4>2
      <4>3. CASE ~server
        <5>1. list = <<>>
          <6>. SUFFICES ASSUME list # <<>> PROVE FALSE
            OBVIOUS
          <6>1. 1 \in DOMAIN list /\ list[1] \in Fds BY <1>1 DEF ListInv
          <6>2. list[1] \in Connections BY <6>1 DEF Connections, ToSet
          <6>. QED BY <1>1, <4>3, <6>1, <6>2 DEF ListInv
        <5>. QED BY <3>0, <4>1, <5>1
      <4>. QED BY <4>2, <4>3
    <3>. QED BY <3>0, <3>1, <3>2
  <2>. QED BY <1>2, <2>1, <2>2 DEF EveryoneInv, Connections
<1>14. HeardInv' BY <1>2 DEF HeardInv
<1>. QED BY <1>2, <1>4, <1>5, <1>6, <1>11, <1>12, <1>13, <1>14 DEF IInv

\* poll returns; the loop looks at what it reports.
LEMMA PollStep ==
  ASSUME IInv, PollReturns
  PROVE  IInv'
<1>1. ThreadInv /\ ListInv /\ RoundInv /\ WalkInv BY DEF IInv
<1>. DEFINE s == SubSeq(pollfds, 1, nevents)
<1>2. /\ loop = "poll" /\ loop' = "events" /\ events' = Those(s, Reported)
      /\ UNCHANGED <<atvars, main, step, server, list, conn, inbox, pollfds, nevents, current,
                     walk, dead, asker, shrunk>>
  BY DEF PollReturns, proxy, clients, history
<1>3. UNCHANGED <<caller, reader, present, lines, response>> BY <1>2 DEF atvars, channel, line
<1>4. ChanInv' BY <1>2, ChanFrame DEF IInv
<1>5. ThreadInv' BY <1>1, <1>2, <1>3 DEF ThreadInv, Quiet
<1>6. ListInv' BY <1>1, <1>2 DEF ListInv, Connections
<1>7. s \in Seq(Nat)
  <2>1. pollfds \in Seq(Nat) /\ Len(pollfds) = 3 + Cardinality(Fds)
    <3>. DEFINE n == 3 + Cardinality(Fds)
    <3>1. pollfds \in [1..n -> Nat] /\ n \in Nat BY <1>1, Descriptors DEF RoundInv, Slots
    <3>. HIDE DEF n
    <3>2. pollfds \in Seq(Nat) /\ Len(pollfds) = n BY <3>1
    <3>. QED BY <3>2 DEF n
  <2>2. nevents \in Nat /\ nevents =< Len(pollfds) BY <1>1, <2>1, Descriptors DEF RoundInv
  <2>. QED BY <2>1, <2>2
<1>. HIDE DEF s
<1>8. /\ events' \in Seq(Nat)
      /\ \A i \in DOMAIN events' : events'[i] \in Reported
  BY <1>2, <1>7, ThoseChosen DEF Chosen
<1>9. Device \in Reported => ~present BY Descriptors DEF Reported
<1>10. RoundInv' BY <1>1, <1>2, <1>3, <1>8, <1>9 DEF RoundInv, Connections, Quiet
<1>11. WalkInv' BY <1>1, <1>2, <1>3 DEF WalkInv
<1>12. ~shrunk' => EveryoneInv' BY <1>2 DEF IInv, EveryoneInv, Connections
<1>13. HeardInv' BY <1>2 DEF HeardInv
<1>. QED BY <1>4, <1>5, <1>6, <1>10, <1>11, <1>12, <1>13 DEF IInv

\* A connection is accepted, at the end of the list.
LEMMA AcceptStep ==
  ASSUME IInv, accept_atc_connection
  PROVE  IInv'
<1>1. ThreadInv /\ ListInv /\ RoundInv /\ WalkInv BY DEF IInv
<1>2. /\ loop = "events" /\ events # <<>> /\ events' = Tail(events)
      /\ UNCHANGED <<atvars, main, step, server, loop, inbox, pollfds, nevents, current,
                     walk, dead, asker, shrunk>>
  BY DEF accept_atc_connection, proxy, history
<1>3. PICK f \in Fds : /\ conn[f] = "backlog" /\ conn' = [conn EXCEPT ![f] = "open"]
                       /\ list' = Append(list, f)
  BY DEF accept_atc_connection
<1>4. UNCHANGED <<caller, reader, present, lines, response>> BY <1>2 DEF atvars, channel, line
<1>5. ChanInv' BY <1>2, ChanFrame DEF IInv
<1>6. ThreadInv' BY <1>1, <1>2, <1>4 DEF ThreadInv, Quiet
<1>7. list \in Seq(Fds) /\ conn \in [Fds -> {"none", "backlog", "open", "hup"}]
  BY <1>1 DEF ListInv
<1>8. /\ list' \in Seq(Fds) /\ Len(list') = Len(list) + 1 /\ list'[Len(list')] = f
      /\ \A i \in DOMAIN list : list'[i] = list[i] /\ i \in DOMAIN list'
      /\ \A i \in DOMAIN list' : i = Len(list') \/ i \in DOMAIN list
      /\ Len(list') \in DOMAIN list'
  BY <1>3, <1>7
<1>9. f \notin Connections /\ Connections' = Connections \cup {f}
  <2>1. f \notin Connections BY <1>1, <1>3 DEF ListInv
  <2>2. \A c : c \in Connections' <=> c \in Connections \/ c = f
    BY <1>8 DEF Connections, ToSet
  <2>. QED BY <2>1, <2>2
<1>10. ListInv'
  <2>1. \A i \in DOMAIN list : list[i] # f BY <1>9 DEF Connections, ToSet
  <2>2. \A i, j \in DOMAIN list' : list'[i] = list'[j] => i = j
    BY <1>1, <1>8, <2>1 DEF ListInv
  <2>3. conn' \in [Fds -> {"none", "backlog", "open", "hup"}] BY <1>3, <1>7
  <2>4. \A c \in Fds : c \in Connections' <=> conn'[c] \in {"open", "hup"}
    BY <1>1, <1>3, <1>9 DEF ListInv
  <2>5. server BY <1>1, <1>3 DEF ListInv, ThreadInv
  <2>. QED BY <1>1, <1>2, <1>8, <2>2, <2>3, <2>4, <2>5 DEF ListInv
<1>11. RoundInv'
  <2>1. /\ events' \in Seq(Nat)
        /\ \A i \in DOMAIN events' : i + 1 \in DOMAIN events /\ events'[i] = events[i + 1]
    BY <1>1, <1>2, TailElements DEF RoundInv
  <2>. QED BY <1>1, <1>2, <1>4, <2>1 DEF RoundInv, Quiet
<1>12. WalkInv' BY <1>1, <1>2, <1>4 DEF WalkInv
<1>13. ASSUME ~shrunk PROVE EveryoneInv'
  <2>1. EveryoneInv BY <1>13 DEF IInv
  <2>2. \A i \in Slots : i =< 2 + Len(list) => i =< 2 + Len(list')
    <3>1. Len(list) \in Nat BY <1>7
    <3>. QED BY <1>8, <3>1 DEF Slots
  <2>. QED BY <1>2, <1>9, <2>1, <2>2 DEF EveryoneInv
<1>14. HeardInv' BY <1>2 DEF HeardInv
<1>. QED BY <1>2, <1>5, <1>6, <1>10, <1>11, <1>12, <1>13, <1>14 DEF IInv

\* The next node is a connection, or none.
LEMMA AfterInList ==
  ASSUME ListInv, NEW i \in DOMAIN list
  PROVE  After(list[i]) = IF i < Len(list) THEN list[i + 1] ELSE 0
<1>1. \A j \in DOMAIN list : list[j] = list[i] => j = i BY DEF ListInv
<1>. DEFINE k == CHOOSE j \in DOMAIN list : list[j] = list[i]
<1>2. k = i BY <1>1
<1>. QED BY <1>2 DEF After

\* What is left of list and conn without the connections S.
LEMMA CleanupList ==
  ASSUME ListInv, WalkInv, NEW S \in SUBSET Connections, Cleanup(S), server' = server,
         loop' \in {"none", "ended"} => S = Connections
  PROVE  /\ ListInv' /\ Connections' = Connections \ S
         /\ walk' \in [at : Fds \cup {0}, freed : BOOLEAN, next : Fds \cup {0}]
         /\ walk'.at = walk.at
         /\ S = {} => walk' = walk /\ Len(list') =< Len(list)
<1>1. /\ list \in Seq(Fds) /\ \A i, j \in DOMAIN list : list[i] = list[j] => i = j
      /\ conn \in [Fds -> {"none", "backlog", "open", "hup"}] /\ inbox \in [Fds -> BOOLEAN]
      /\ \A f \in Fds : f \in Connections <=> conn[f] \in {"open", "hup"}
  BY DEF ListInv
<1>2. /\ list' = Those(list, Fds \ S)
      /\ conn' = [f \in Fds |-> IF f \in S THEN "none" ELSE conn[f]]
      /\ inbox' = [f \in Fds |-> inbox[f] /\ f \notin S]
      /\ walk' = IF walk.at \in S /\ ~walk.freed
                 THEN [at |-> walk.at, freed |-> TRUE, next |-> After(walk.at)] ELSE walk
  BY DEF Cleanup
<1>3. Chosen(Fds, list, Fds \ S, Len(list), list') BY <1>1, <1>2, ThoseChosen
<1>4. list' \in Seq(Fds) BY <1>3 DEF Chosen
<1>5. DOMAIN list = 1..Len(list) BY <1>1
<1>6. \A i, j \in DOMAIN list' : list'[i] = list'[j] => i = j BY <1>1, <1>3, <1>5 DEF Chosen
<1>7. Connections \subseteq Fds BY <1>1 DEF Connections, ToSet
<1>8. Connections' = Connections \ S
  <2>1. ASSUME NEW f \in Connections' PROVE f \in Connections \ S
    <3>1. PICK i \in DOMAIN list' : list'[i] = f BY DEF Connections, ToSet
    <3>2. f \in Fds \ S /\ \E j \in 1..Len(list) : list[j] = f BY <1>3, <3>1 DEF Chosen
    <3>. QED BY <1>5, <3>2 DEF Connections, ToSet
  <2>2. ASSUME NEW f \in Connections \ S PROVE f \in Connections'
    <3>1. PICK j \in DOMAIN list : list[j] = f BY DEF Connections, ToSet
    <3>2. \E i \in DOMAIN list' : list'[i] = f BY <1>3, <1>5, <1>7, <3>1 DEF Chosen
    <3>. QED BY <3>2 DEF Connections, ToSet
  <2>. QED BY <2>1, <2>2
<1>9. Connections' = {} => list' = <<>>
  <2>. SUFFICES ASSUME list' # <<>> PROVE Connections' # {}
    OBVIOUS
  <2>1. 1 \in DOMAIN list' BY <1>4
  <2>2. list'[1] \in Connections' BY <2>1 DEF Connections, ToSet
  <2>. QED BY <2>2
<1>10. ListInv'
  <2>1. conn' \in [Fds -> {"none", "backlog", "open", "hup"}] /\ inbox' \in [Fds -> BOOLEAN]
    BY <1>1, <1>2
  <2>2. \A f \in Fds : f \in Connections' <=> conn'[f] \in {"open", "hup"} BY <1>1, <1>2, <1>8
  <2>3. ~server' => \A f \in Fds : conn'[f] = "none" BY <1>2 DEF ListInv
  <2>4. loop' \in {"none", "ended"} => list' = <<>> BY <1>8, <1>9
  <2>. QED BY <1>4, <1>6, <2>1, <2>2, <2>3, <2>4 DEF ListInv
<1>11. /\ walk' \in [at : Fds \cup {0}, freed : BOOLEAN, next : Fds \cup {0}]
       /\ walk'.at = walk.at
  <2>1. CASE walk.at \in S /\ ~walk.freed
    <3>1. PICK i \in DOMAIN list : list[i] = walk.at BY <2>1 DEF Connections, ToSet
    <3>2. After(walk.at) = IF i < Len(list) THEN list[i + 1] ELSE 0 BY <3>1, AfterInList
    <3>3. i < Len(list) => list[i + 1] \in Fds BY <1>1
    <3>. QED BY <1>2, <1>7, <2>1, <3>2, <3>3
  <2>2. CASE ~(walk.at \in S /\ ~walk.freed) BY <1>2, <2>2 DEF WalkInv
  <2>. QED BY <2>1, <2>2
<1>12. S = {} => walk' = walk /\ Len(list') =< Len(list)
  <2>. SUFFICES ASSUME S = {} PROVE walk' = walk /\ Len(list') =< Len(list)
    OBVIOUS
  <2>1. walk' = walk BY <1>2
  <2>2. Connections' = Connections BY <1>8
  <2>3. list' \in Seq(Connections)
    <3>1. \A i \in DOMAIN list' : list'[i] \in Connections BY <2>2 DEF Connections, ToSet
    <3>. QED BY <1>4, <3>1
  <2>4. IsFiniteSet(Connections) BY <1>1, ElementsFinite DEF Connections
  <2>5. Len(list') =< Cardinality(Connections) BY <1>6, <2>3, <2>4, ListBound
  <2>6. Cardinality(Connections) =< Len(list)
    <3>1. list \in Surjection(1..Len(list), Connections)
      BY <1>1, <1>5 DEF Surjection, Connections, ToSet
    <3>2. IsFiniteSet(1..Len(list)) /\ Cardinality(1..Len(list)) = Len(list)
      BY <1>1, IntervalSize
    <3>3. Cardinality(Connections) =< Cardinality(1..Len(list)) BY <3>1, <3>2, FS_Surjection
    <3>. QED BY <3>2, <3>3
  <2>7. Len(list') \in Nat /\ Len(list) \in Nat /\ Cardinality(Connections) \in Nat
    BY <1>1, <1>4, <2>4, FS_CardinalityType
  <2>. QED BY <2>1, <2>5, <2>6, <2>7
<1>. QED BY <1>8, <1>10, <1>11, <1>12

\* A connection that its client has closed is forgotten.
LEMMA CleanupStep ==
  ASSUME IInv, cleanup_atc_connection
  PROVE  IInv'
<1>1. ThreadInv /\ ListInv /\ RoundInv /\ WalkInv BY DEF IInv
<1>. DEFINE f == Head(events)
<1>2. /\ loop = "events" /\ events # <<>> /\ f \in Fds /\ conn[f] = "hup"
      /\ Cleanup({f}) /\ events' = Tail(events)
      /\ UNCHANGED <<atvars, main, step, server, loop, pollfds, nevents, dead, asker, heard>>
  BY DEF cleanup_atc_connection, proxy
<1>. HIDE DEF f
<1>3. UNCHANGED <<caller, reader, present, lines, response>> BY <1>2 DEF atvars, channel, line
<1>4. ChanInv' BY <1>2, ChanFrame DEF IInv
<1>5. ThreadInv' BY <1>1, <1>2, <1>3 DEF ThreadInv, Quiet
<1>6. {f} \in SUBSET Connections BY <1>1, <1>2 DEF ListInv
<1>7. /\ ListInv' /\ walk' \in [at : Fds \cup {0}, freed : BOOLEAN, next : Fds \cup {0}]
      /\ walk'.at = walk.at
  BY <1>1, <1>2, <1>6, CleanupList
<1>8. current' = 0 /\ shrunk' = TRUE
  <2>1. current = 0 BY <1>1, <1>2 DEF RoundInv
  <2>2. current' \in {0, current} /\ shrunk' = (shrunk \/ {f} # {}) BY <1>2 DEF Cleanup
  <2>. QED BY <2>1, <2>2
<1>9. RoundInv'
  <2>1. /\ events' \in Seq(Nat)
        /\ \A i \in DOMAIN events' : i + 1 \in DOMAIN events /\ events'[i] = events[i + 1]
    BY <1>1, <1>2, TailElements DEF RoundInv
  <2>. QED BY <1>1, <1>2, <1>3, <1>8, <2>1 DEF RoundInv, Quiet
<1>10. WalkInv' BY <1>1, <1>2, <1>3, <1>7, <1>8 DEF WalkInv
<1>. QED BY <1>4, <1>5, <1>7, <1>8, <1>9, <1>10 DEF IInv

\* A client's command is sent.
LEMMA ReadCommandStep ==
  ASSUME IInv, ReadCommand
  PROVE  IInv'
<1>1. ThreadInv /\ ListInv /\ RoundInv /\ WalkInv /\ ChanInv BY DEF IInv
<1>. DEFINE f == Head(events)
<1>2. /\ loop = "events" /\ events # <<>> /\ f \in Fds /\ conn[f] = "open"
      /\ at_send_command("loop", "NO_RESULT")
      /\ inbox' = [inbox EXCEPT ![f] = FALSE]
      /\ current' = IF pollfds[nevents + 1] \in Connections THEN pollfds[nevents + 1] ELSE 0
      /\ asker' = f /\ heard' = FALSE /\ loop' = "call"
      /\ UNCHANGED <<main, step, server, list, conn, pollfds, nevents, events, walk, dead, shrunk>>
  BY DEF ReadCommand, proxy, polling
<1>. HIDE DEF f
<1>3. server BY <1>1, <1>2 DEF ListInv, ThreadInv
<1>4. \A t \in Threads : caller[t] = "out"
  <2>1. loop # "call" /\ main # "init" BY <1>1, <1>2, <1>3 DEF ThreadInv
  <2>. QED BY <1>1, <2>1, NobodyCalls
<1>5. /\ ChanInv' /\ caller'["main"] = "out" /\ response'.final = <<>>
      /\ \/ caller'["loop"] = "wait"
         \/ ~result'.own
      /\ UNCHANGED <<reader, lines, present>> /\ Mutex
  <2>1. "loop" \in Threads /\ "main" \in Threads /\ "NO_RESULT" \in Expected
    BY DEF Threads, Expected
  <2>2. Mutex BY <1>2 DEF at_send_command
  <2>. QED BY <1>1, <1>2, <1>4, <2>1, <2>2, SendStep
<1>6. ThreadInv' BY <1>1, <1>2, <1>3, <1>5 DEF ThreadInv, Quiet
<1>7. Connections' = Connections BY <1>2 DEF Connections
<1>8. ListInv'
  <2>1. inbox' \in [Fds -> BOOLEAN] BY <1>1, <1>2 DEF ListInv
  <2>. QED BY <1>1, <1>2, <1>7, <2>1 DEF ListInv
<1>9. RoundInv' BY <1>1, <1>2, <1>5, <1>7 DEF RoundInv, ListInv, Quiet
<1>10. WalkInv' BY <1>1, <1>2, <1>5 DEF WalkInv
<1>11. ASSUME ~shrunk PROVE EveryoneInv' /\ HeardInv'
  <2>1. EveryoneInv BY <1>11 DEF IInv
  <2>2. current' = 0
    <3>1. nevents \in Nat /\ nevents + 1 \in Slots
      BY <1>1, Descriptors DEF RoundInv, Slots
    <3>2. ~(nevents + 1 =< nevents) BY <3>1
    <3>3. pollfds[nevents + 1] \notin Fds BY <2>1, <3>1, <3>2 DEF EveryoneInv
    <3>4. Connections \subseteq Fds BY <1>1 DEF ListInv, Connections, ToSet
    <3>. QED BY <1>2, <3>3, <3>4
  <2>3. EveryoneInv' BY <1>2, <1>7, <2>1, <2>2 DEF EveryoneInv
  <2>4. walk.at # 0 => Len(lines) # 1
    BY <1>1, <1>5 DEF WalkInv, Mutex
  <2>5. HeardInv' BY <1>2, <1>5, <2>4 DEF HeardInv
  <2>. QED BY <2>3, <2>5
<1>. QED BY <1>2, <1>5, <1>6, <1>8, <1>9, <1>10, <1>11 DEF IInv

\* The command is done with.
LEMMA CommandDoneStep ==
  ASSUME IInv, CommandDone
  PROVE  IInv'
<1>1. ThreadInv /\ ListInv /\ RoundInv /\ WalkInv BY DEF IInv
<1>2. /\ loop = "call" /\ caller["loop"] = "out" /\ loop' = "events"
      /\ current' = 0 /\ events' = Tail(events)
      /\ UNCHANGED <<atvars, main, step, server, list, conn, inbox, pollfds, nevents, walk, dead,
                     shrunk>>
  BY DEF CommandDone, proxy, clients
<1>3. UNCHANGED <<caller, reader, present, lines, response>> BY <1>2 DEF atvars, channel, line
<1>4. ChanInv' BY <1>2, ChanFrame DEF IInv
<1>5. ThreadInv' BY <1>1, <1>2, <1>3 DEF ThreadInv, Quiet
<1>6. ListInv' BY <1>1, <1>2 DEF ListInv, Connections
<1>7. RoundInv'
  <2>1. /\ events' \in Seq(Nat)
        /\ \A i \in DOMAIN events' : i + 1 \in DOMAIN events /\ events'[i] = events[i + 1]
    BY <1>1, <1>2, TailElements DEF RoundInv
  <2>. QED BY <1>1, <1>2, <1>3, <2>1 DEF RoundInv, Quiet
<1>8. WalkInv' BY <1>1, <1>2, <1>3 DEF WalkInv
<1>9. ~shrunk' => EveryoneInv' BY <1>2 DEF IInv, EveryoneInv, Connections
<1>10. HeardInv' BY <1>2 DEF HeardInv
<1>. QED BY <1>4, <1>5, <1>6, <1>7, <1>8, <1>9, <1>10 DEF IInv

\* The device is gone: the loop closes the port and forgets its clients.
LEMMA LoopExitStep ==
  ASSUME IInv, LoopExit
  PROVE  IInv'
<1>1. ThreadInv /\ ListInv /\ RoundInv /\ WalkInv /\ ChanInv BY DEF IInv
<1>2. /\ loop = "events" /\ events # <<>> /\ Head(events) = Device
      /\ at_close /\ Cleanup(Connections) /\ loop' = "ended" /\ events' = <<>>
      /\ UNCHANGED <<main, step, server, pollfds, nevents, dead, asker, heard>>
  BY DEF LoopExit, proxy
<1>3. /\ ChanInv' /\ caller' = Signalled
      /\ \A t \in Threads : caller'[t] = "out" <=> caller[t] = "out"
      /\ UNCHANGED <<reader, lines, present>>
  <2>1. caller' = Signalled BY <1>2 DEF at_close
  <2>. QED BY <1>1, <1>2, <2>1, CloseChannel
<1>4. Quiet
  <2>1. 1 \in DOMAIN events /\ events[1] = Device BY <1>1, <1>2, TailElements DEF RoundInv
  <2>. QED BY <1>1, <2>1 DEF RoundInv
<1>5. ThreadInv'
  <2>1. caller["loop"] = "out" BY <1>1, <1>2 DEF ThreadInv
  <2>. QED BY <1>1, <1>2, <1>3, <1>4, <2>1 DEF ThreadInv, Quiet, Threads
<1>6. /\ ListInv' /\ walk' \in [at : Fds \cup {0}, freed : BOOLEAN, next : Fds \cup {0}]
      /\ walk'.at = walk.at /\ Connections' = {}
      /\ Connections = {} => walk' = walk /\ Len(list') =< Len(list)
  <2>1. Connections' = Connections \ Connections BY <1>1, <1>2, CleanupList
  <2>2. Connections \in SUBSET Connections OBVIOUS
  <2>. QED BY <1>1, <1>2, <2>1, <2>2, CleanupList
<1>7. current' = 0 /\ shrunk' = (shrunk \/ Connections # {})
  <2>1. current = 0 BY <1>1, <1>2 DEF RoundInv
  <2>2. current' \in {0, current} /\ shrunk' = (shrunk \/ Connections # {}) BY <1>2 DEF Cleanup
  <2>. QED BY <2>1, <2>2
<1>8. RoundInv'
  <2>1. <<>> \in Seq(Nat) OBVIOUS
  <2>. QED BY <1>1, <1>2, <1>7, <2>1 DEF RoundInv
<1>9. WalkInv' BY <1>1, <1>2, <1>3, <1>6, <1>7 DEF WalkInv
<1>10. ASSUME ~shrunk' PROVE EveryoneInv'
  <2>1. EveryoneInv /\ Connections = {} BY <1>1, <1>7, <1>10 DEF IInv, WalkInv
  <2>2. list = <<>>
    <3>. SUFFICES ASSUME list # <<>> PROVE FALSE
      OBVIOUS
    <3>1. 1 \in DOMAIN list BY <1>1 DEF ListInv
    <3>2. list[1] \in Connections BY <3>1 DEF Connections, ToSet
    <3>. QED BY <2>1, <3>2
  <2>3. \A i \in Slots : pollfds[i] \notin Fds
    <3>1. \A i \in Slots : ~(3 =< i /\ i =< 2 + Len(list)) BY <2>2 DEF Slots
    <3>. QED BY <2>1, <3>1 DEF EveryoneInv
  <2>. QED BY <1>2, <1>6, <1>7, <2>1, <2>3 DEF EveryoneInv
<1>11. HeardInv' BY <1>2 DEF HeardInv
<1>. QED BY <1>3, <1>5, <1>6, <1>8, <1>9, <1>10, <1>11 DEF IInv

-----------------------------------------------------------------------------
(* The reader's steps in the handler preserve it                           *)

\* A final response has come to the asker when the reader has passed all the list.
LEMMA PassedAll ==
  ASSUME ListInv, RoundInv, EveryoneInv, HeardInv, loop = "call",
         After(walk.at) = 0 \/ list = <<>>, list # <<>> => walk.at # 0,
         Len(lines) = 1, IsFinal(lines[1]), lines[1].of = response.n, response.n # 0
  PROVE  heard
<1>1. asker \in Connections BY DEF RoundInv
<1>2. PICK j \in DOMAIN list : list[j] = asker BY <1>1 DEF Connections, ToSet
<1>3. list # <<>> BY <1>2
<1>4. PICK i \in DOMAIN list : list[i] = walk.at BY <1>3 DEF EveryoneInv, Connections, ToSet
<1>5. After(walk.at) = IF i < Len(list) THEN list[i + 1] ELSE 0 BY <1>4, AfterInList
<1>6. list \in Seq(Fds) /\ i \in 1..Len(list) /\ j \in 1..Len(list) /\ Len(list) \in Nat
  BY DEF ListInv
<1>7. i < Len(list) => list[i + 1] # 0
  <2>1. i < Len(list) => list[i + 1] \in Fds BY <1>6
  <2>. QED BY <2>1, Descriptors
<1>8. j =< i BY <1>3, <1>5, <1>6, <1>7
<1>. QED BY <1>2, <1>3, <1>4, <1>8 DEF HeardInv

\* The handler returns: the reader is out of the list, and the line is dealt with.
LEMMA HandlerEnds ==
  ASSUME IInv, HandlerReturns, walk' = NoWalk, dead' \in {"no", "sigpipe", "freed"},
         UNCHANGED <<proxy, loop, clients, polling, current, asker, shrunk>>,
         heard => heard',
         ~shrunk /\ loop = "call" /\ Len(lines) = 1 /\ IsFinal(lines[1])
           /\ lines[1].of = response.n /\ response.n # 0 => heard
  PROVE  IInv'
<1>1. ThreadInv /\ ListInv /\ RoundInv /\ WalkInv /\ ChanInv BY DEF IInv
<1>2. /\ ChanInv' /\ reader' = "read" /\ UNCHANGED <<result, present>>
      /\ \A t \in Threads : caller'[t] = "out" <=> caller[t] = "out"
      /\ response'.n = response.n
      /\ \/ response'.final = response.final
         \/ Len(lines) = 1 /\ IsFinal(lines[1]) /\ response'.final = lines
  BY <1>1, HandlerReturnsStep
<1>3. UNCHANGED <<main, step, server, loop, list, conn, inbox, pollfds, nevents, events>>
  BY DEF proxy, clients, polling
<1>4. reader = "hand" BY DEF HandlerReturns
<1>5. Quiet => Quiet' BY <1>2, <1>4 DEF Quiet
<1>6. ThreadInv' BY <1>1, <1>2, <1>3, <1>5 DEF ThreadInv, Threads
<1>7. ListInv' BY <1>1, <1>3 DEF ListInv, Connections
<1>8. RoundInv' BY <1>1, <1>3, <1>5 DEF RoundInv, Connections
<1>9. WalkInv' BY <1>1, <1>2 DEF WalkInv, NoWalk
<1>10. ASSUME ~shrunk PROVE EveryoneInv' /\ HeardInv'
  <2>1. EveryoneInv /\ HeardInv /\ (heard => heard') BY <1>10 DEF IInv
  <2>2. EveryoneInv' BY <1>3, <2>1 DEF EveryoneInv, Connections, NoWalk
  <2>3. walk'.at = 0 BY DEF NoWalk
  <2>. SUFFICES ASSUME loop = "call"
                PROVE  /\ response'.n # 0 /\ response'.final # <<>> /\ response'.final[1].of = response'.n
                            => heard
                       /\ caller'["loop"] = "out" /\ result.err = "ok" /\ result.own => heard
    BY <1>2, <1>3, <2>1, <2>2, <2>3 DEF HeardInv
  <2>4. caller'["loop"] = "out" /\ result.err = "ok" /\ result.own => heard
    BY <1>2, <2>1 DEF HeardInv, Threads
  <2>5. response'.n # 0 /\ response'.final # <<>> /\ response'.final[1].of = response'.n => heard
    BY <1>2, <1>10, <2>1 DEF HeardInv
  <2>. QED BY <2>4, <2>5
<1>. QED BY <1>2, <1>6, <1>7, <1>8, <1>9, <1>10 DEF IInv

\* The reader comes to a connection of the list.
LEMMA WalkTo ==
  ASSUME IInv, UNCHANGED <<atvars, proxy, loop, clients, polling, current, asker, shrunk>>,
         reader = "hand", NEW k \in DOMAIN list, walk' = [NoWalk EXCEPT !.at = list[k]],
         Given(list[k]),
         ~shrunk /\ k # 1 => walk.at = list[k - 1]
  PROVE  IInv'
<1>1. ThreadInv /\ ListInv /\ RoundInv /\ WalkInv /\ ChanInv BY DEF IInv
<1>2. UNCHANGED <<main, step, server, list, conn, inbox, pollfds, nevents, events>>
  BY DEF proxy, clients, polling
<1>3. UNCHANGED <<caller, reader, present, lines, response, result>> BY DEF atvars, channel, line
<1>4. ChanInv' BY <1>1, ChanFrame
<1>5. ThreadInv' BY <1>1, <1>2, <1>3 DEF ThreadInv, Quiet
<1>6. ListInv' BY <1>1, <1>2 DEF ListInv, Connections
<1>7. RoundInv' BY <1>1, <1>2, <1>3 DEF RoundInv, Connections, Quiet
<1>8. list[k] \in Fds /\ list[k] \in Connections /\ list[k] # 0
  BY <1>1, Descriptors DEF ListInv, Connections, ToSet
<1>9. walk' \in [at : Fds \cup {0}, freed : BOOLEAN, next : Fds \cup {0}] /\ walk'.at = list[k]
      /\ walk'.freed = FALSE
  BY <1>8 DEF NoWalk
<1>10. WalkInv'
  <2>1. dead' \in {"no", "sigpipe", "freed"} BY <1>1 DEF WalkInv, Given
  <2>. QED BY <1>1, <1>3, <1>9, <2>1 DEF WalkInv
<1>11. ASSUME ~shrunk PROVE EveryoneInv' /\ HeardInv'
  <2>1. EveryoneInv /\ HeardInv BY <1>11 DEF IInv
  <2>2. EveryoneInv' BY <1>2, <1>8, <1>9, <2>1 DEF EveryoneInv, Connections
  <2>3. heard => heard' BY DEF Given
  <2>4. ASSUME loop = "call", Len(lines) = 1, IsFinal(lines[1]), lines[1].of = response.n,
               response.n # 0,
               NEW i \in DOMAIN list, NEW j \in DOMAIN list, list[i] = list[k], list[j] = asker, j =< i
        PROVE  heard'
    <3>1. list \in Seq(Fds) /\ i = k /\ k \in 1..Len(list) /\ j \in 1..Len(list)
      BY <1>1, <2>4 DEF ListInv
    <3>2. CASE j = k
      <4>1. Last(lines) = lines[1] BY <2>4 DEF Last
      <4>. QED BY <2>4, <3>2, <4>1 DEF Given
    <3>3. CASE j # k
      <4>1. k # 1 /\ k - 1 \in DOMAIN list /\ j =< k - 1 BY <2>4, <3>1, <3>3
      <4>2. walk.at = list[k - 1] /\ list[k - 1] # 0
        BY <1>1, <1>11, <4>1, Descriptors DEF ListInv
      <4>. QED BY <2>1, <2>3, <2>4, <4>1, <4>2 DEF HeardInv
    <3>. QED BY <3>2, <3>3
  <2>5. HeardInv'
    <3>1. loop = "call" =>
            /\ response.n # 0 /\ response.final # <<>> /\ response.final[1].of = response.n => heard'
            /\ caller["loop"] = "out" /\ result.err = "ok" /\ result.own => heard'
      BY <2>1, <2>3 DEF HeardInv
    <3>. QED BY <1>2, <1>3, <1>9, <2>4, <3>1 DEF HeardInv
  <2>. QED BY <2>2, <2>5
<1>. QED BY <1>4, <1>5, <1>6, <1>7, <1>10, <1>11 DEF IInv

\* The line goes to the caller, or to nobody.
LEMMA ToOneStep ==
  ASSUME IInv, ToCaller \/ ToNobody
  PROVE  IInv'
<1>1. ThreadInv /\ ListInv /\ RoundInv /\ WalkInv BY DEF IInv
<1>2. CASE ToCaller
  <2>1. /\ current # 0 /\ HandlerReturns /\ walk' = NoWalk /\ Given(current)
        /\ UNCHANGED <<proxy, loop, clients, polling, current, asker, shrunk>>
    BY <1>2 DEF ToCaller
  <2>2. shrunk BY <2>1 DEF IInv, EveryoneInv
  <2>3. dead' \in {"no", "sigpipe", "freed"} BY <1>1, <2>1 DEF WalkInv, Given
  <2>4. heard => heard' BY <2>1 DEF Given
  <2>. QED BY <2>1, <2>2, <2>3, <2>4, HandlerEnds
<1>3. CASE ToNobody
  <2>1. /\ HandlerReturns /\ walk' = NoWalk /\ list = <<>>
        /\ UNCHANGED <<proxy, loop, clients, polling, current, asker, shrunk, heard, dead>>
    BY <1>3 DEF ToNobody, history
  <2>2. dead' \in {"no", "sigpipe", "freed"} BY <1>1, <2>1 DEF WalkInv
  <2>3. ~shrunk => EveryoneInv /\ HeardInv BY DEF IInv
  <2>4. ~shrunk /\ loop = "call" /\ Len(lines) = 1 /\ IsFinal(lines[1])
          /\ lines[1].of = response.n /\ response.n # 0 => heard
    BY <1>1, <2>1, <2>3, PassedAll
  <2>. QED BY <2>1, <2>2, <2>4, HandlerEnds
<1>. QED BY <1>2, <1>3

\* The line goes to the first connection.
LEMMA ToFirstStep ==
  ASSUME IInv, ToFirst
  PROVE  IInv'
<1>1. /\ reader = "hand" /\ list # <<>>
      /\ Given(Head(list)) /\ walk' = [NoWalk EXCEPT !.at = Head(list)]
      /\ UNCHANGED <<atvars, proxy, loop, clients, polling, current, asker, shrunk>>
  BY DEF ToFirst
<1>2. list \in Seq(Fds) BY DEF IInv, ListInv
<1>3. Head(list) = list[1] /\ 1 \in DOMAIN list BY <1>1, <1>2, TailElements
<1>. QED BY <1>1, <1>3, WalkTo

\* The line goes to the next connection, or the reader is at the end of the list.
LEMMA ToNextStep ==
  ASSUME IInv, ToNext
  PROVE  IInv'
<1>1. ThreadInv /\ ListInv /\ RoundInv /\ WalkInv /\ ChanInv BY DEF IInv
<1>. DEFINE next == IF walk.freed THEN walk.next ELSE After(walk.at)
<1>2. /\ reader = "hand" /\ walk.at # 0
      /\ UNCHANGED <<proxy, loop, clients, polling, current, asker, shrunk>>
      /\ \/ next = 0 /\ HandlerReturns /\ walk' = NoWalk /\ UNCHANGED <<dead, heard>>
         \/ /\ next \in Connections /\ Given(next) /\ walk' = [NoWalk EXCEPT !.at = next]
            /\ UNCHANGED atvars
         \/ walk.freed /\ dead' = "freed" /\ UNCHANGED <<walk, atvars, heard>>
  BY DEF ToNext
<1>3. ~shrunk => EveryoneInv /\ HeardInv /\ next = After(walk.at)
  BY DEF IInv, EveryoneInv
<1>. HIDE DEF next
<1>4. CASE next = 0 /\ HandlerReturns /\ walk' = NoWalk /\ UNCHANGED <<dead, heard>>
  <2>1. dead' \in {"no", "sigpipe", "freed"} BY <1>1, <1>4 DEF WalkInv
  <2>2. ~shrunk /\ loop = "call" /\ Len(lines) = 1 /\ IsFinal(lines[1])
          /\ lines[1].of = response.n /\ response.n # 0 => heard
    BY <1>1, <1>2, <1>3, <1>4, PassedAll
  <2>. QED BY <1>2, <1>4, <2>1, <2>2, HandlerEnds
<1>5. CASE /\ next \in Connections /\ Given(next) /\ walk' = [NoWalk EXCEPT !.at = next]
           /\ UNCHANGED atvars
  <2>1. PICK k \in DOMAIN list : list[k] = next BY <1>5 DEF Connections, ToSet
  <2>2. ASSUME ~shrunk, k # 1 PROVE walk.at = list[k - 1]
    <3>1. walk.at \in Connections /\ next = After(walk.at) BY <1>2, <1>3, <2>2 DEF EveryoneInv
    <3>2. PICK i \in DOMAIN list : list[i] = walk.at BY <3>1 DEF Connections, ToSet
    <3>3. next = IF i < Len(list) THEN list[i + 1] ELSE 0 BY <1>1, <3>1, <3>2, AfterInList
    <3>4. /\ list \in Seq(Fds) /\ \A a, b \in DOMAIN list : list[a] = list[b] => a = b
      BY <1>1 DEF ListInv
    <3>5. next # 0 BY <2>1, <3>4, Descriptors
    <3>6. i < Len(list) /\ list[k] = list[i + 1] BY <2>1, <3>3, <3>5
    <3>7. i \in 1..Len(list) /\ k \in 1..Len(list) /\ Len(list) \in Nat BY <3>4
    <3>8. i + 1 \in DOMAIN list BY <3>4, <3>6, <3>7
    <3>9. k = i + 1 BY <3>4, <3>6, <3>8
    <3>. QED BY <3>2, <3>7, <3>9
  <2>. QED BY <1>2, <1>5, <2>1, <2>2, WalkTo
<1>6. CASE walk.freed /\ dead' = "freed" /\ UNCHANGED <<walk, atvars, heard>>
  <2>1. shrunk BY <1>6 DEF IInv, EveryoneInv
  <2>2. UNCHANGED <<main, step, server, list, conn, inbox, pollfds, nevents, events>>
    BY <1>2 DEF proxy, clients, polling
  <2>3. UNCHANGED <<caller, reader, present>> BY <1>6 DEF atvars, channel, line
  <2>4. ChanInv' BY <1>1, <1>6, ChanFrame
  <2>5. ThreadInv' BY <1>1, <1>2, <2>2, <2>3 DEF ThreadInv, Quiet
  <2>6. ListInv' BY <1>1, <1>2, <2>2 DEF ListInv, Connections
  <2>7. RoundInv' BY <1>1, <1>2, <2>2, <2>3 DEF RoundInv, Connections, Quiet
  <2>8. WalkInv' BY <1>1, <1>2, <1>6, <2>3 DEF WalkInv
  <2>. QED BY <1>2, <2>1, <2>4, <2>5, <2>6, <2>7, <2>8 DEF IInv
<1>. QED BY <1>2, <1>4, <1>5, <1>6

-----------------------------------------------------------------------------
(* The channel's own steps, and the clients', preserve it                  *)

\* A step of the channel by itself.
LEMMA ChannelProxyStep ==
  ASSUME IInv, Channel
  PROVE  IInv'
<1>1. ThreadInv /\ ListInv /\ RoundInv /\ WalkInv /\ ChanInv BY DEF IInv
<1>2. ChanInv' /\ Effect BY <1>1, ChannelStep
<1>3. UNCHANGED <<main, step, server, loop, list, conn, inbox, pollfds, nevents, events, current,
                  walk, dead, asker, heard, shrunk>>
  BY DEF Channel, proxy, clients, polling, history
<1>4. Quiet => Quiet' BY <1>2 DEF Quiet, Effect
<1>5. \A t \in Threads : caller[t] = "out" => caller'[t] = "out" BY <1>2 DEF Effect
<1>6. ThreadInv' BY <1>1, <1>3, <1>4, <1>5 DEF ThreadInv, Threads
<1>7. ListInv' BY <1>1, <1>3 DEF ListInv, Connections
<1>8. RoundInv' BY <1>1, <1>3, <1>4 DEF RoundInv, Connections
<1>9. WalkInv' BY <1>1, <1>2, <1>3 DEF WalkInv, Effect
<1>10. ASSUME ~shrunk PROVE EveryoneInv' /\ HeardInv'
  <2>1. EveryoneInv /\ HeardInv BY <1>10 DEF IInv
  <2>2. EveryoneInv' BY <1>3, <2>1 DEF EveryoneInv, Connections
  <2>3. ASSUME loop = "call"
        PROVE  /\ response'.n # 0 /\ response'.final # <<>> /\ response'.final[1].of = response'.n
                    => heard
               /\ caller'["loop"] = "out" /\ result'.err = "ok" /\ result'.own => heard
               /\ walk.at # 0 /\ Len(lines') = 1 /\ IsFinal(lines'[1]) /\ lines'[1].of = response'.n
                    /\ response'.n # 0 =>
                    \A i, j \in DOMAIN list : list[i] = walk.at /\ list[j] = asker /\ j =< i => heard
    <3>1. walk.at # 0 => lines' = lines BY <1>1, <1>2 DEF WalkInv, Effect
    <3>2. CASE /\ result' = result /\ response'.n = response.n /\ response'.final = response.final
               /\ \A t \in Threads : caller'[t] = "out" => caller[t] = "out"
      BY <2>1, <2>3, <3>1, <3>2 DEF HeardInv, Threads
    <3>3. CASE /\ response' = NoResponse
               /\ result'.err = "ok" =>
                    /\ response.n # 0 /\ (~readerClosed => response.final # <<>>) /\ ~readerClosed
                    /\ result'.own <=> response.final # <<>> /\ response.final[1].of = response.n
      <4>1. response'.n = 0 BY <3>3 DEF NoResponse
      <4>. QED BY <2>1, <2>3, <3>3, <4>1 DEF HeardInv
    <3>. QED BY <1>2, <3>2, <3>3 DEF Effect
  <2>4. HeardInv' BY <1>3, <2>3 DEF HeardInv
  <2>. QED BY <2>2, <2>4
<1>. QED BY <1>2, <1>3, <1>6, <1>7, <1>8, <1>9, <1>10 DEF IInv

\* A client connects, writes a command, or closes its connection.
LEMMA ClientStep ==
  ASSUME IInv, NEW f \in Fds, Connect(f) \/ Write(f) \/ HangUp(f)
  PROVE  IInv'
<1>1. ThreadInv /\ ListInv /\ RoundInv /\ WalkInv /\ ChanInv BY DEF IInv
<1>2. /\ UNCHANGED <<channel, line, outOfStep>>
      /\ UNCHANGED <<main, step, server, loop, list, pollfds, nevents, events, current, walk, dead,
                     asker, heard, shrunk>>
  BY DEF Connect, Write, HangUp, atvars, proxy, polling, history
<1>3. UNCHANGED <<fd, readerClosed, response, caller, reader, lines, result, collided, rx, todo,
                  present>>
  BY <1>2 DEF channel, line
<1>4. ChanInv'
  <2>1. ChannelTypes' BY <1>1, <1>3 DEF ChanInv, ChannelTypes
  <2>2. ReaderInv' BY <1>1, <1>3 DEF ChanInv, ReaderInv
  <2>3. CallInv' BY <1>1, <1>3 DEF ChanInv, CallInv
  <2>4. OrderInv' BY <1>1, <1>2, <1>3 DEF ChanInv, OrderInv
  <2>. QED BY <2>1, <2>2, <2>3, <2>4 DEF ChanInv
<1>5. ThreadInv' BY <1>1, <1>2, <1>3 DEF ThreadInv, Quiet
<1>6. ListInv'
  <2>1. conn \in [Fds -> {"none", "backlog", "open", "hup"}] /\ inbox \in [Fds -> BOOLEAN]
    BY <1>1 DEF ListInv
  <2>2. CASE Connect(f)
    <3>1. /\ conn' = [conn EXCEPT ![f] = "backlog"] /\ inbox' = inbox /\ f \notin Connections /\ server
      BY <2>2 DEF Connect
    <3>. QED BY <1>1, <1>2, <2>1, <3>1 DEF ListInv, Connections
  <2>3. CASE Write(f)
    <3>1. conn' = conn /\ inbox' = [inbox EXCEPT ![f] = TRUE] BY <2>3 DEF Write
    <3>. QED BY <1>1, <1>2, <2>1, <3>1 DEF ListInv, Connections
  <2>4. CASE HangUp(f)
    <3>1. conn[f] = "open" /\ conn' = [conn EXCEPT ![f] = "hup"] /\ inbox' = inbox
      BY <2>4 DEF HangUp
    <3>. QED BY <1>1, <1>2, <2>1, <3>1 DEF ListInv, Connections
  <2>. QED BY <2>2, <2>3, <2>4
<1>7. RoundInv' BY <1>1, <1>2, <1>3 DEF RoundInv, Connections, Quiet
<1>8. WalkInv' BY <1>1, <1>2, <1>3 DEF WalkInv
<1>9. ~shrunk' => EveryoneInv' BY <1>2 DEF IInv, EveryoneInv, Connections
<1>10. ~shrunk' => HeardInv' BY <1>2, <1>3 DEF IInv, HeardInv
<1>. QED BY <1>4, <1>5, <1>6, <1>7, <1>8, <1>9, <1>10 DEF IInv

-----------------------------------------------------------------------------
(* Theorems                                                                *)

\* Every step preserves the invariant.
LEMMA Step == IInv /\ [Next]_vars => IInv'
<1>. SUFFICES ASSUME IInv, [Next]_vars PROVE IInv'
  OBVIOUS
<1>1. CASE Main BY <1>1, OpenStep, InitSendStep, InitNextStep, CloseServerStep DEF Main
<1>2. CASE Loop
  BY <1>2, FillStep, PollStep, AcceptStep, CleanupStep, ReadCommandStep, CommandDoneStep,
     LoopExitStep DEF Loop
<1>3. CASE Handler BY <1>3, ToOneStep, ToFirstStep, ToNextStep DEF Handler
<1>4. CASE Channel BY <1>4, ChannelProxyStep
<1>5. CASE Client BY <1>5, ClientStep DEF Client
<1>6. CASE UNCHANGED vars
  <2>1. UNCHANGED <<atvars, main, step, server, loop, list, conn, inbox, pollfds, nevents, events,
                    current, walk, dead, asker, heard, shrunk>>
    BY <1>6 DEF vars, proxy, clients, polling, history
  <2>2. UNCHANGED <<caller, reader, present, lines, response, result>>
    BY <2>1 DEF atvars, channel, line
  <2>3. ChanInv' BY <2>1, ChanFrame DEF IInv
  <2>4. ThreadInv' BY <2>1, <2>2 DEF IInv, ThreadInv, Quiet
  <2>5. ListInv' BY <2>1 DEF IInv, ListInv, Connections
  <2>6. RoundInv' BY <2>1, <2>2 DEF IInv, RoundInv, Connections, Quiet
  <2>7. WalkInv' BY <2>1, <2>2 DEF IInv, WalkInv
  <2>8. ~shrunk' => EveryoneInv' BY <2>1 DEF IInv, EveryoneInv, Connections
  <2>9. ~shrunk' => HeardInv' BY <2>1, <2>2 DEF IInv, HeardInv
  <2>. QED BY <2>3, <2>4, <2>5, <2>6, <2>7, <2>8, <2>9 DEF IInv
<1>. QED BY <1>1, <1>2, <1>3, <1>4, <1>5, <1>6 DEF Next

\* The invariant holds in every state of the proxy.
THEOREM Invariance == Spec => []IInv
BY ProxyInit, Step, PTL DEF Spec

\* TypeOK holds: above all, a command of the initialisation and a client's
\* never meet in at_send_command_full_nolock (atchannel.c:752).
THEOREM TypeCorrect == Spec => []TypeOK
<1>1. IInv => TypeOK
  <2>. SUFFICES ASSUME IInv PROVE TypeOK
    OBVIOUS
  <2>1. ThreadInv /\ ListInv /\ RoundInv /\ WalkInv /\ ~collided BY DEF IInv, ChanInv, CallInv
  <2>2. Connections \subseteq Fds BY <2>1 DEF ListInv, Connections, ToSet
  <2>. QED BY <2>1, <2>2 DEF TypeOK, ThreadInv, ListInv, RoundInv, WalkInv
<1>. QED BY <1>1, Invariance, PTL

\* Until a connection ends, a client whose command was answered has been given the
\* final response by the reader (onUnsolicited) when its command returns.
THEOREM CallerHearsCorrect == Spec => []CallerHears
<1>1. IInv => CallerHears BY DEF IInv, HeardInv, CallerHears
<1>. QED BY <1>1, Invariance, PTL

\* A command that returns at once, without an answer, has failed.
LEMMA SentResult ==
  ASSUME NEW t, NEW type, at_send_command(t, type)
  PROVE  result' = result \/ result'.err # "ok"
BY DEF at_send_command, Returned

\* A command returns with the response to itself and no other (atchannel.c), until a
\* command of the session is given up before its final response or takes for it an
\* unsolicited line of that form.
THEOREM InStepCorrect == Spec => InStep
<1>1. IInv /\ [Next]_vars => [result' # result /\ result'.err = "ok" /\ ~outOfStep => result'.own]_vars
  <2>. SUFFICES ASSUME IInv, Next, result' # result, result'.err = "ok", ~outOfStep
                PROVE  result'.own
    OBVIOUS
  <2>0. ThreadInv /\ ChanInv BY DEF IInv
  <2>1. CASE Channel
    <3>1. /\ response.n # 0 /\ response.final # <<>> /\ ~readerClosed
          /\ result'.own <=> response.final # <<>> /\ response.final[1].of = response.n
      BY <2>0, <2>1, ChannelStep DEF Effect
    <3>. QED BY <2>0, <3>1 DEF ChanInv, OrderInv
  <2>2. CASE InitSend BY <2>2, SentResult DEF InitSend
  <2>3. CASE ReadCommand BY <2>3, SentResult DEF ReadCommand
  <2>4. ~Channel /\ ~InitSend /\ ~ReadCommand => result' = result
    BY DEF Next, Main, Loop, Handler, Client, Open, at_open, InitNext, CloseServer, FillPollfds,
           PollReturns, accept_atc_connection, cleanup_atc_connection, CommandDone, LoopExit,
           at_close, ToCaller, ToFirst, ToNext, ToNobody, HandlerReturns, Connect, Write, HangUp,
           atvars, channel
  <2>. QED BY <2>1, <2>2, <2>3, <2>4
<1>. QED BY <1>1, Invariance, PTL DEF Spec, InStep
=============================================================================
