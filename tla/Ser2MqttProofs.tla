--------------------------- MODULE Ser2MqttProofs ---------------------------
(***************************************************************************)
(* Proofs about JsonParse and Ser2Mqtt.  First the parser: its recursion   *)
(* is defined for every text, and it only moves forward.  Then what it     *)
(* makes of the messages and of the commands; then the invariant IInv,     *)
(* step by step, and from it the properties.                               *)
(***************************************************************************)
EXTENDS Ser2Mqtt, SequenceTheorems, WellFoundedInduction, TLAPS

-----------------------------------------------------------------------------
(* Numbers                                                                 *)

\* A set of numbers has a least one.
LEMMA LeastNumber ==
  ASSUME NEW T \in SUBSET Nat, T # {}
  PROVE  \E x \in T : \A y \in T : x =< y
<1>1. PICK x \in T : \A y \in T : ~ (<<y, x>> \in OpToRel(<, Nat))
  BY NatLessThanWellFounded, WFMin
<1>2. \A y \in T : ~ (y < x) BY <1>1, Zenon DEF OpToRel
<1>. QED BY <1>2

\* Induction up to a number, for the members of a set.
LEMMA Induction ==
  ASSUME NEW low \in Nat, NEW high \in Nat, NEW T, low \in T,
         \A n \in (low + 1)..high : n - 1 \in T => n \in T
  PROVE  \A n \in low..high : n \in T
<1>. DEFINE Bad == {n \in low..high : n \notin T}
<1>1. Bad = {}
  <2>. SUFFICES ASSUME Bad # {} PROVE FALSE
    OBVIOUS
  <2>1. Bad \in SUBSET Nat OBVIOUS
  <2>2. PICK k \in Bad : \A j \in Bad : k =< j BY <2>1, LeastNumber, Zenon
  <2>3. k \in (low + 1)..high /\ k - 1 \in low..high /\ ~(k =< k - 1) OBVIOUS
  <2>. QED BY <2>2, <2>3
<1>. QED BY <1>1

-----------------------------------------------------------------------------
(* The parser's recursion                                                  *)

\* A call comes to calls further on in the text, and a loop's to that of its first part.
Left(text, c) == 2 * (Len(text) + 1 - c.at) + (IF c.what = "elements" THEN 1 ELSE 0)

\* What a call may return: the offset is behind the call's, unless it fails, and
\* at most one token behind the text.
Forward(text, c, r) ==
  /\ r.ok \in BOOLEAN /\ r.at \in c.at..(Len(text) + 1)
  /\ r.ok => r.at # c.at

\* Two functions that agree on the calls further on, where they move forward.
Agree(text, f, g, c) ==
  \A d \in Calls(text) : Left(text, d) < Left(text, c) => f[d] = g[d] /\ Forward(text, d, f[d])

\* A token that is none of those a text may lack is in the text.
LEMMA TokenAt ==
  ASSUME NEW T, NEW text \in Seq(T), NEW i \in Nat \ {0}, At(text, i).t # "NUL"
  PROVE  i \in 1..Len(text)
BY DEF At, NUL, P

\* A call in its set.
LEMMA CallsMember ==
  ASSUME NEW text, NEW what \in {"value", "elements", "members"},
         NEW i \in 1..(Len(text) + 1), NEW depth \in 0..NestingLimit
  PROVE  /\ Call(what, i, depth) \in Calls(text)
         /\ Call(what, i, depth).what = what /\ Call(what, i, depth).at = i
         /\ Call(what, i, depth).depth = depth
BY DEF Call, Calls

\* The call for a part further on.
LEMMA FurtherOn ==
  ASSUME NEW T, NEW text \in Seq(T), NEW f, NEW g, NEW c \in Calls(text), Agree(text, f, g, c),
         NEW what \in {"value", "elements", "members"},
         NEW i \in 1..(Len(text) + 1), NEW depth \in 0..NestingLimit,
         c.at < i \/ (c.at = i /\ c.what = "elements" /\ what = "value")
  PROVE  /\ f[Call(what, i, depth)] = g[Call(what, i, depth)]
         /\ Forward(text, [what |-> what, at |-> i, depth |-> depth], f[Call(what, i, depth)])
<1>. DEFINE d == Call(what, i, depth)
<1>1. d \in Calls(text) /\ d.what = what /\ d.at = i BY CallsMember
<1>2. c.at \in 1..(Len(text) + 1) BY DEF Calls
<1>3. Left(text, d) < Left(text, c)
  <2>. HIDE DEF d
  <2>. QED BY <1>1, <1>2 DEF Left
<1>4. f[d] = g[d] /\ Forward(text, d, f[d]) BY <1>1, <1>3 DEF Agree
<1>. QED BY <1>4 DEF Call

\* The parts of a list behind its first.
LEMMA LinkedForward ==
  ASSUME NEW T, NEW text \in Seq(T), NEW f, NEW g, NEW c \in Calls(text), Agree(text, f, g, c),
         NEW v, Forward(text, c, v),
         NEW parts \in {"elements", "members"}, NEW t, NEW close \in {"rbrack", "rbrace"}, NEW item
  PROVE  /\ Linked(text, f, c.depth, t, close, parts, v, item)
              = Linked(text, g, c.depth, t, close, parts, v, item)
         /\ Forward(text, c, Linked(text, f, c.depth, t, close, parts, v, item))
<1>1. c.at \in 1..(Len(text) + 1) /\ c.depth \in 0..NestingLimit BY DEF Calls
<1>0. v.ok \in BOOLEAN /\ v.at \in c.at..(Len(text) + 1) /\ (v.ok => v.at # c.at) BY DEF Forward
<1>2. v.at \in Nat \ {0} BY <1>0, <1>1
<1>3. CASE v.ok /\ At(text, v.at).t = "comma"
  <2>1. v.at + 1 \in 1..(Len(text) + 1) /\ c.at < v.at + 1
    <3>1. v.at \in 1..Len(text) BY <1>2, <1>3, TokenAt
    <3>. QED BY <1>0, <1>1, <3>1
  <2>. DEFINE rest == f[Call(parts, v.at + 1, c.depth)]
  <2>2. /\ rest = g[Call(parts, v.at + 1, c.depth)]
        /\ Forward(text, [what |-> parts, at |-> v.at + 1, depth |-> c.depth], rest)
    BY <1>1, <2>1, FurtherOn
  <2>3. rest.ok \in BOOLEAN /\ rest.at \in (v.at + 1)..(Len(text) + 1) BY <2>2 DEF Forward
  <2>. DEFINE r == IF rest.ok THEN Parsed(rest.at, List(t, <<item>> \o rest.val.items)) ELSE rest
  <2>4. \A read : read[Call(parts, v.at + 1, c.depth)] = rest =>
          Linked(text, read, c.depth, t, close, parts, v, item) = r
    <3>. HIDE DEF rest
    <3>1. ASSUME NEW read, read[Call(parts, v.at + 1, c.depth)] = rest
          PROVE  Linked(text, read, c.depth, t, close, parts, v, item)
                   = IF rest.ok THEN Parsed(rest.at, List(t, <<item>> \o rest.val.items)) ELSE rest
      BY <1>3, <3>1 DEF Linked
    <3>. QED BY <3>1
  <2>5. Forward(text, c, r)
    <3>1. r.ok = rest.ok /\ r.at = rest.at BY <2>3 DEF Parsed
    <3>. HIDE DEF rest, r
    <3>. QED BY <1>0, <1>1, <1>2, <2>1, <2>3, <3>1 DEF Forward
  <2>. HIDE DEF r
  <2>. QED BY <2>2, <2>4, <2>5
<1>4. CASE v.ok /\ At(text, v.at).t # "comma" /\ At(text, v.at).t = close
  <2>1. v.at \in 1..Len(text) BY <1>2, <1>4, TokenAt
  <2>. DEFINE r == Parsed(v.at + 1, List(t, <<item>>))
  <2>2. /\ Linked(text, f, c.depth, t, close, parts, v, item) = r
        /\ Linked(text, g, c.depth, t, close, parts, v, item) = r
    BY <1>0, <1>4 DEF Linked
  <2>3. Forward(text, c, r) BY <1>0, <1>1, <2>1 DEF Forward, Parsed
  <2>. QED BY <2>2, <2>3
<1>5. CASE ~v.ok \/ At(text, v.at).t \notin {"comma", close}
  <2>1. /\ Linked(text, f, c.depth, t, close, parts, v, item) = Failed(v.at)
        /\ Linked(text, g, c.depth, t, close, parts, v, item) = Failed(v.at)
    BY <1>0, <1>5 DEF Linked
  <2>2. Forward(text, c, Failed(v.at)) BY <1>0, <1>1 DEF Forward, Failed
  <2>. QED BY <2>1, <2>2
<1>. QED BY <1>3, <1>4, <1>5

\* An array or an object.
LEMMA ListForward ==
  ASSUME NEW T, NEW text \in Seq(T), NEW f, NEW g, NEW c \in Calls(text), Agree(text, f, g, c),
         At(text, c.at).t # "NUL",
         NEW parts \in {"elements", "members"}, NEW t, NEW close \in {"rbrack", "rbrace"}
  PROVE  /\ parse_list(text, f, c.at, c.depth, t, close, parts)
              = parse_list(text, g, c.at, c.depth, t, close, parts)
         /\ Forward(text, c, parse_list(text, f, c.at, c.depth, t, close, parts))
<1>1. c.at \in 1..(Len(text) + 1) /\ c.depth \in 0..NestingLimit BY DEF Calls
<1>2. c.at \in 1..Len(text) BY <1>1, TokenAt
<1>3. CASE c.depth >= NestingLimit
  <2>1. /\ parse_list(text, f, c.at, c.depth, t, close, parts) = Failed(c.at)
        /\ parse_list(text, g, c.at, c.depth, t, close, parts) = Failed(c.at)
    <3>1. ~(c.depth < NestingLimit) BY <1>1, <1>3 DEF NestingLimit
    <3>. QED BY <1>3, <3>1 DEF parse_list
  <2>2. Forward(text, c, Failed(c.at)) BY <1>1 DEF Forward, Failed
  <2>. QED BY <2>1, <2>2
<1>4. CASE ~(c.depth >= NestingLimit) /\ At(text, c.at + 1).t = close
  <2>. DEFINE r == Parsed(c.at + 2, List(t, <<>>))
  <2>0. c.depth < NestingLimit BY <1>1, <1>4 DEF NestingLimit
  <2>1. c.at + 1 \in 1..Len(text) BY <1>2, <1>4, TokenAt
  <2>2. /\ parse_list(text, f, c.at, c.depth, t, close, parts) = r
        /\ parse_list(text, g, c.at, c.depth, t, close, parts) = r
    BY <1>4, <2>0 DEF parse_list
  <2>3. Forward(text, c, r) BY <1>1, <2>1 DEF Forward, Parsed
  <2>. QED BY <2>2, <2>3
<1>5. CASE ~(c.depth >= NestingLimit) /\ At(text, c.at + 1).t # close
  <2>. DEFINE r == f[Call(parts, c.at + 1, c.depth + 1)]
  <2>1. c.at + 1 \in 1..(Len(text) + 1) /\ c.depth + 1 \in 0..NestingLimit /\ c.at < c.at + 1
    BY <1>1, <1>2, <1>5 DEF NestingLimit
  <2>2. /\ r = g[Call(parts, c.at + 1, c.depth + 1)]
        /\ Forward(text, [what |-> parts, at |-> c.at + 1, depth |-> c.depth + 1], r)
    BY <2>1, FurtherOn
  <2>3. /\ parse_list(text, f, c.at, c.depth, t, close, parts) = r
        /\ parse_list(text, g, c.at, c.depth, t, close, parts) = g[Call(parts, c.at + 1, c.depth + 1)]
    BY <1>5 DEF parse_list
  <2>4. Forward(text, c, r)
    <3>1. r.ok \in BOOLEAN /\ r.at \in (c.at + 1)..(Len(text) + 1) BY <2>2 DEF Forward
    <3>. HIDE DEF r
    <3>. QED BY <1>1, <3>1 DEF Forward
  <2>. QED BY <2>2, <2>3, <2>4
<1>. QED BY <1>3, <1>4, <1>5

\* What a call returns is up to the calls further on.
LEMMA ReturnsForward ==
  ASSUME NEW T, NEW text \in Seq(T), NEW f, NEW g, NEW c \in Calls(text), Agree(text, f, g, c)
  PROVE  Returns(text, f, c) = Returns(text, g, c) /\ Forward(text, c, Returns(text, f, c))
<1>1. c.at \in 1..(Len(text) + 1) /\ c.depth \in 0..NestingLimit
      /\ c.what \in {"value", "elements", "members"}
  BY DEF Calls
<1>2. CASE c.what = "value"
  <2>. DEFINE tok == At(text, c.at)
  <2>0. \A read : Returns(text, read, c) = parse_value(text, read, c.at, c.depth) BY <1>2 DEF Returns
  <2>1. CASE tok.t \in {"null", "true", "false", "string", "number"}
    <3>1. \A read : parse_value(text, read, c.at, c.depth) = Parsed(c.at + 1, tok)
      BY <2>1 DEF parse_value
    <3>2. c.at \in 1..Len(text) BY <1>1, <2>1, TokenAt
    <3>. HIDE DEF tok
    <3>3. Forward(text, c, Parsed(c.at + 1, tok)) BY <1>1, <3>2 DEF Forward, Parsed
    <3>. QED BY <2>0, <3>1, <3>3
  <2>2. CASE tok.t = "lbrack"
    <3>1. \A read : parse_value(text, read, c.at, c.depth) = parse_array(text, read, c.at, c.depth)
      BY <2>2 DEF parse_value
    <3>. QED BY <2>0, <2>2, <3>1, ListForward DEF parse_array
  <2>3. CASE tok.t = "lbrace"
    <3>1. \A read : parse_value(text, read, c.at, c.depth) = parse_object(text, read, c.at, c.depth)
      BY <2>3 DEF parse_value
    <3>. QED BY <2>0, <2>3, <3>1, ListForward DEF parse_object
  <2>4. CASE tok.t \notin {"null", "true", "false", "string", "number", "lbrack", "lbrace"}
    <3>1. \A read : parse_value(text, read, c.at, c.depth) = Failed(c.at) BY <2>4 DEF parse_value
    <3>2. Forward(text, c, Failed(c.at)) BY <1>1 DEF Forward, Failed
    <3>. QED BY <2>0, <3>1, <3>2
  <2>. QED BY <2>1, <2>2, <2>3, <2>4
<1>3. CASE c.what = "elements"
  <2>. DEFINE v == f[Call("value", c.at, c.depth)]
  <2>1. v = g[Call("value", c.at, c.depth)]
        /\ Forward(text, [what |-> "value", at |-> c.at, depth |-> c.depth], v)
    BY <1>1, <1>3, FurtherOn
  <2>. HIDE DEF v
  <2>2. Forward(text, c, v) BY <2>1 DEF Forward
  <2>3. /\ Linked(text, f, c.depth, "array", "rbrack", "elements", v, v.val)
             = Linked(text, g, c.depth, "array", "rbrack", "elements", v, v.val)
        /\ Forward(text, c, Linked(text, f, c.depth, "array", "rbrack", "elements", v, v.val))
    BY <2>2, LinkedForward
  <2>4. \A read : read[Call("value", c.at, c.depth)] = v =>
          Returns(text, read, c) = Linked(text, read, c.depth, "array", "rbrack", "elements", v, v.val)
    <3>1. \A read : Returns(text, read, c) = elements(text, read, c.at, c.depth) BY <1>3 DEF Returns
    <3>2. \A read : elements(text, read, c.at, c.depth)
            = Linked(text, read, c.depth, "array", "rbrack", "elements",
                     read[Call("value", c.at, c.depth)], read[Call("value", c.at, c.depth)].val)
      BY DEF elements
    <3>. QED BY <3>1, <3>2
  <2>. QED BY <2>1, <2>3, <2>4 DEF v
<1>4. CASE c.what = "members"
  <2>0. \A read : Returns(text, read, c) = members(text, read, c.at, c.depth) BY <1>4 DEF Returns
  <2>1. CASE At(text, c.at).t # "string" \/ At(text, c.at + 1).t # "colon"
    <3>1. \A read : members(text, read, c.at, c.depth) = Failed(c.at) BY <2>1 DEF members
    <3>2. Forward(text, c, Failed(c.at)) BY <1>1 DEF Forward, Failed
    <3>. QED BY <2>0, <3>1, <3>2
  <2>2. CASE ~(At(text, c.at).t # "string" \/ At(text, c.at + 1).t # "colon")
    <3>1. c.at + 1 \in 1..Len(text) BY <1>1, <2>2, TokenAt
    <3>2. c.at + 2 \in 1..(Len(text) + 1) /\ c.at < c.at + 2 BY <1>1, <3>1
    <3>. DEFINE v == f[Call("value", c.at + 2, c.depth)]
                item == [string |-> At(text, c.at).val, item |-> v.val]
    <3>3. v = g[Call("value", c.at + 2, c.depth)]
          /\ Forward(text, [what |-> "value", at |-> c.at + 2, depth |-> c.depth], v)
      BY <1>1, <3>2, FurtherOn
    <3>. HIDE DEF v
    <3>4. v.ok \in BOOLEAN /\ v.at \in (c.at + 2)..(Len(text) + 1) BY <3>3 DEF Forward
    <3>5. Forward(text, c, v) BY <1>1, <3>4 DEF Forward
    <3>6. \A read : read[Call("value", c.at + 2, c.depth)] = v =>
            Returns(text, read, c) = Linked(text, read, c.depth, "object", "rbrace", "members", v, item)
      <4>1. \A read : members(text, read, c.at, c.depth)
              = Linked(text, read, c.depth, "object", "rbrace", "members",
                       read[Call("value", c.at + 2, c.depth)],
                       [string |-> At(text, c.at).val, item |-> read[Call("value", c.at + 2, c.depth)].val])
        BY <2>2 DEF members
      <4>. QED BY <2>0, <4>1
    <3>. HIDE DEF item
    <3>7. /\ Linked(text, f, c.depth, "object", "rbrace", "members", v, item)
               = Linked(text, g, c.depth, "object", "rbrace", "members", v, item)
          /\ Forward(text, c, Linked(text, f, c.depth, "object", "rbrace", "members", v, item))
      BY <3>5, LinkedForward
    <3>. QED BY <3>3, <3>6, <3>7 DEF v
  <2>. QED BY <2>1, <2>2
<1>. QED BY <1>1, <1>2, <1>3, <1>4

\* What a function that reads the text returns, for the calls with at most k left.
ReadsUpTo(text, k, f) ==
  \A c \in Calls(text) : Left(text, c) =< k => f[c] = Returns(text, f, c) /\ Forward(text, c, f[c])

\* There is a function that reads it all.
LEMMA ReadsExist ==
  ASSUME NEW T, NEW text \in Seq(T)
  PROVE  \E f : f = [c \in Calls(text) |-> Returns(text, f, c)]
<1>. DEFINE Most == 2 * Len(text) + 1
            Tables == {k \in 0..Most : \E f : f = [c \in Calls(text) |-> f[c]] /\ ReadsUpTo(text, k, f)}
<1>0. Len(text) \in Nat /\ Most \in Nat /\ \A c \in Calls(text) : Left(text, c) \in 0..Most
  BY DEF Calls, Left
<1>1. ASSUME NEW k \in 0..Most, NEW f,
             \A c \in Calls(text) : Left(text, c) < k => f[c] = Returns(text, f, c) /\ Forward(text, c, f[c])
      PROVE  k \in Tables
  <2>. DEFINE g == [c \in Calls(text) |-> Returns(text, f, c)]
  <2>1. \A c \in Calls(text) : Left(text, c) < k => f[c] = g[c] BY <1>1
  <2>2. ASSUME NEW c \in Calls(text), Left(text, c) =< k
        PROVE  g[c] = Returns(text, g, c) /\ Forward(text, c, g[c])
    <3>1. Agree(text, f, g, c)
      <4>1. ASSUME NEW d \in Calls(text), Left(text, d) < Left(text, c)
            PROVE  f[d] = g[d] /\ Forward(text, d, f[d])
        <5>1. Left(text, d) < k BY <1>0, <2>2, <4>1
        <5>. QED BY <1>1, <2>1, <5>1
      <4>. QED BY <4>1 DEF Agree
    <3>2. g[c] = Returns(text, f, c) OBVIOUS
    <3>. HIDE DEF g
    <3>. QED BY <3>1, <3>2, ReturnsForward
  <2>3. g = [c \in Calls(text) |-> g[c]] OBVIOUS
  <2>. HIDE DEF g
  <2>4. ReadsUpTo(text, k, g) BY <2>2 DEF ReadsUpTo
  <2>. QED BY <2>3, <2>4
<1>2. 0 \in Tables
  <2>1. \A c \in Calls(text) : ~(Left(text, c) < 0) BY <1>0
  <2>2. 0 \in 0..Most BY <1>0
  <2>. HIDE DEF Tables, Most
  <2>. QED BY <1>1, <2>1, <2>2
<1>3. ASSUME NEW k \in (0 + 1)..Most, k - 1 \in Tables PROVE k \in Tables
  <2>1. PICK f : ReadsUpTo(text, k - 1, f) BY <1>3
  <2>2. \A c \in Calls(text) : Left(text, c) < k => Left(text, c) =< k - 1 BY <1>0
  <2>3. \A c \in Calls(text) : Left(text, c) < k => f[c] = Returns(text, f, c) /\ Forward(text, c, f[c])
    BY <2>1, <2>2 DEF ReadsUpTo
  <2>4. k \in 0..Most OBVIOUS
  <2>. HIDE DEF Tables, Most
  <2>. QED BY <1>1, <2>3, <2>4
<1>4. Most \in Tables
  <2>1. Most \in 0..Most BY <1>0
  <2>. HIDE DEF Tables, Most
  <2>2. \A k \in 0..Most : k \in Tables BY <1>0, <1>2, <1>3, Induction
  <2>. QED BY <2>1, <2>2
<1>5. PICK f : f = [c \in Calls(text) |-> f[c]] /\ ReadsUpTo(text, Most, f) BY <1>4
<1>6. \A c \in Calls(text) : f[c] = Returns(text, f, c) /\ Forward(text, c, f[c])
  BY <1>0, <1>5 DEF ReadsUpTo
<1>7. [c \in Calls(text) |-> f[c]] = [c \in Calls(text) |-> Returns(text, f, c)] BY <1>6
<1>. QED BY <1>5, <1>6, <1>7

\* And such a function only moves forward.
LEMMA SolutionForward ==
  ASSUME NEW T, NEW text \in Seq(T), NEW f, \A c \in Calls(text) : f[c] = Returns(text, f, c)
  PROVE  \A c \in Calls(text) : Forward(text, c, f[c])
<1>. DEFINE Bad == {c \in Calls(text) : ~Forward(text, c, f[c])}
            Numbers == {Left(text, c) : c \in Bad}
<1>0. \A c \in Calls(text) : Left(text, c) \in Nat BY DEF Calls, Left
<1>1. SUFFICES ASSUME Bad # {} PROVE FALSE
  OBVIOUS
<1>2. Numbers \in SUBSET Nat /\ Numbers # {} BY <1>0, <1>1
<1>3. PICK n \in Numbers : \A m \in Numbers : n =< m
  <2>. HIDE DEF Numbers
  <2>. QED BY <1>2, LeastNumber
<1>4. PICK c \in Bad : n = Left(text, c) OBVIOUS
<1>5. ASSUME NEW d \in Calls(text), Left(text, d) < Left(text, c) PROVE Forward(text, d, f[d])
  <2>1. ~(Left(text, c) =< Left(text, d)) BY <1>0, <1>4, <1>5
  <2>. QED BY <1>3, <1>4, <2>1
<1>6. Agree(text, f, f, c) BY <1>5 DEF Agree
<1>7. Forward(text, c, f[c]) BY <1>6, ReturnsForward
<1>. QED BY <1>7

\* Every text is read: the parser's recursion (parse_value, parse_array, parse_object in
\* cJSON.c) comes to an end, each of its calls returns what the source says in terms of
\* the calls further on, and none of them leaves the offset before where it started, nor,
\* when it succeeds, there, nor more than one token behind the text.
THEOREM TextIsRead ==
  ASSUME NEW T, NEW text \in Seq(T), NEW c \in Calls(text)
  PROVE  Reads(text)[c] = Returns(text, Reads(text), c) /\ Forward(text, c, Reads(text)[c])
<1>. DEFINE Solves(f) == f = [d \in Calls(text) |-> Returns(text, f, d)]
            read == CHOOSE f : Solves(f)
<1>1. Reads(text) = read BY DEF Reads
<1>2. Solves(read)
  <2>1. \E f : Solves(f) BY ReadsExist
  <2>. HIDE DEF Solves
  <2>. QED BY <2>1
<1>. HIDE DEF read
<1>3. \A d \in Calls(text) : read[d] = Returns(text, read, d) BY <1>2
<1>4. \A d \in Calls(text) : Forward(text, d, read[d]) BY <1>3, SolutionForward
<1>. QED BY <1>1, <1>3, <1>4

-----------------------------------------------------------------------------
(* What the parser makes of an object whose members are strings and numbers *)

\* A string or a number.
LEMMA LeafRead ==
  ASSUME NEW T, NEW text \in Seq(T), NEW i \in 1..(Len(text) + 1), NEW depth \in 0..NestingLimit,
         At(text, i).t \in {"string", "number"}
  PROVE  Reads(text)[Call("value", i, depth)] = Parsed(i + 1, At(text, i))
<1>. DEFINE c == Call("value", i, depth)
<1>1. c \in Calls(text) /\ c.what = "value" /\ c.at = i /\ c.depth = depth BY CallsMember
<1>. HIDE DEF c
<1>2. Reads(text)[c] = Returns(text, Reads(text), c) BY <1>1, TextIsRead
<1>3. Returns(text, Reads(text), c) = parse_value(text, Reads(text), i, depth) BY <1>1 DEF Returns
<1>4. \A read : parse_value(text, read, i, depth) = Parsed(i + 1, At(text, i)) BY DEF parse_value
<1>. QED BY <1>2, <1>3, <1>4 DEF c

\* A token that no value starts with, the end of the text among them.
LEMMA NoValue ==
  ASSUME NEW T, NEW text \in Seq(T), NEW i \in 1..(Len(text) + 1), NEW depth \in 0..NestingLimit,
         At(text, i).t = "NUL"
  PROVE  Reads(text)[Call("value", i, depth)] = Failed(i)
<1>. DEFINE c == Call("value", i, depth)
<1>1. c \in Calls(text) /\ c.what = "value" /\ c.at = i /\ c.depth = depth BY CallsMember
<1>. HIDE DEF c
<1>2. Reads(text)[c] = Returns(text, Reads(text), c) BY <1>1, TextIsRead
<1>3. Returns(text, Reads(text), c) = parse_value(text, Reads(text), i, depth) BY <1>1 DEF Returns
<1>4. \A read : parse_value(text, read, i, depth) = Failed(i) BY DEF parse_value
<1>. QED BY <1>2, <1>3, <1>4 DEF c

\* An object that is not empty.
LEMMA ObjectRead ==
  ASSUME NEW T, NEW text \in Seq(T), At(text, 1).t = "lbrace", At(text, 2).t # "rbrace"
  PROVE  Reads(text)[Call("value", 1, 0)] = Reads(text)[Call("members", 2, 1)]
<1>. DEFINE c == Call("value", 1, 0)
<1>1. c \in Calls(text) /\ c.what = "value" /\ c.at = 1 /\ c.depth = 0
  <2>1. 1 \in 1..(Len(text) + 1) /\ 0 \in 0..NestingLimit BY DEF NestingLimit
  <2>. QED BY <2>1, CallsMember
<1>. HIDE DEF c
<1>2. Reads(text)[c] = Returns(text, Reads(text), c) BY <1>1, TextIsRead
<1>3. Returns(text, Reads(text), c) = parse_value(text, Reads(text), 1, 0) BY <1>1 DEF Returns
<1>4. \A read : parse_value(text, read, 1, 0) = parse_object(text, read, 1, 0) BY DEF parse_value
<1>5. \A read : parse_object(text, read, 1, 0) = read[Call("members", 2, 1)]
  <2>1. ~(0 >= NestingLimit) /\ 1 + 1 = 2 /\ 0 + 1 = 1 BY DEF NestingLimit
  <2>. QED BY <2>1 DEF parse_object, parse_list
<1>. QED BY <1>2, <1>3, <1>4, <1>5 DEF c

\* The loop over the members.
LEMMA MembersRead ==
  ASSUME NEW T, NEW text \in Seq(T), NEW i \in 1..Len(text)
  PROVE  Reads(text)[Call("members", i, 1)] = members(text, Reads(text), i, 1)
<1>. DEFINE c == Call("members", i, 1)
<1>1. c \in Calls(text) /\ c.what = "members" /\ c.at = i /\ c.depth = 1
  <2>1. i \in 1..(Len(text) + 1) /\ 1 \in 0..NestingLimit BY DEF NestingLimit
  <2>. QED BY <2>1 DEF Call, Calls
<1>. HIDE DEF c
<1>2. Reads(text)[c] = Returns(text, Reads(text), c) BY <1>1, TextIsRead
<1>3. Returns(text, Reads(text), c) = members(text, Reads(text), i, 1) BY <1>1 DEF Returns
<1>. QED BY <1>2, <1>3 DEF c

\* The last member of an object.
LEMMA LastMemberRead ==
  ASSUME NEW T, NEW text \in Seq(T), NEW i \in 1..Len(text),
         At(text, i).t = "string", At(text, i + 1).t = "colon",
         At(text, i + 2).t \in {"string", "number"}, At(text, i + 3).t = "rbrace"
  PROVE  Reads(text)[Call("members", i, 1)]
           = Parsed(i + 4, List("object", <<[string |-> At(text, i).val, item |-> At(text, i + 2)]>>))
<1>1. i + 2 \in 1..(Len(text) + 1) /\ 1 \in 0..NestingLimit /\ i + 2 + 1 = i + 3 /\ i + 3 + 1 = i + 4
  <2>1. i + 1 \in 1..Len(text) BY TokenAt
  <2>. QED BY <2>1 DEF NestingLimit
<1>. DEFINE v == Parsed(i + 3, At(text, i + 2))
<1>2. Reads(text)[Call("value", i + 2, 1)] = v BY <1>1, LeafRead
<1>3. v.ok /\ v.at = i + 3 /\ v.val = At(text, i + 2) BY DEF Parsed
<1>. HIDE DEF v
<1>. DEFINE item == [string |-> At(text, i).val, item |-> v.val]
<1>4. Reads(text)[Call("members", i, 1)]
        = Linked(text, Reads(text), 1, "object", "rbrace", "members", v, item)
  BY <1>2, MembersRead DEF members
<1>5. \A read : Linked(text, read, 1, "object", "rbrace", "members", v, item)
        = Parsed(i + 4, List("object", <<item>>))
  BY <1>1, <1>3 DEF Linked
<1>. QED BY <1>3, <1>4, <1>5

\* A text that is an object with one string or number in it, as far as to its end.
LEMMA OneMemberRead ==
  ASSUME NEW T, NEW text \in Seq(T), Len(text) = 5,
         text[1].t = "lbrace", text[2].t = "string", text[3].t = "colon",
         text[4].t \in {"string", "number"}, text[5].t = "rbrace"
  PROVE  \A whole : cJSON_ParseWithOpts(text, whole)
           = Parsed(6, List("object", <<[string |-> text[2].val, item |-> text[4]]>>))
<1>1. \A i \in 1..5 : At(text, i) = text[i] BY DEF At
<1>2. 2 \in 1..Len(text) /\ 2 + 1 = 3 /\ 2 + 2 = 4 /\ 2 + 3 = 5 /\ 2 + 4 = 6 OBVIOUS
<1>. DEFINE v == Parsed(6, List("object", <<[string |-> text[2].val, item |-> text[4]]>>))
<1>3. Reads(text)[Call("members", 2, 1)] = v BY <1>1, <1>2, LastMemberRead
<1>4. Reads(text)[Call("value", 1, 0)] = v BY <1>1, <1>3, ObjectRead
<1>5. At(text, 6) = NUL BY DEF At
<1>6. v.at = 6 BY DEF Parsed
<1>. HIDE DEF v
<1>7. \A whole : cJSON_ParseWithOpts(text, whole)
        = IF v.ok /\ whole /\ At(text, v.at) # NUL THEN Failed(v.at) ELSE v
  BY <1>4 DEF cJSON_ParseWithOpts
<1>8. ~(At(text, v.at) # NUL) BY <1>5, <1>6
<1>9. \A whole : cJSON_ParseWithOpts(text, whole) = v
  <2>. HIDE DEF NUL
  <2>. QED BY <1>7, <1>8, Zenon
<1>. QED BY <1>9 DEF v

\* The key, and no other word.
LEMMA KeyOfMsg == Chars(Msg) = Msg
BY DEF Chars, Msg

\* The string in such an object; a number is none.
LEMMA MsgOfOne ==
  ASSUME NEW json, NEW item, json = Parsed(6, List("object", <<[string |-> Msg, item |-> item]>>))
  PROVE  MsgOf(json) = IF item.t = "string" THEN item.val ELSE <<>>
<1>. DEFINE items == <<[string |-> Msg, item |-> item]>>
<1>1. json.ok /\ json.val.t = "object" /\ json.val.items = items BY DEF Parsed, List
<1>2. DOMAIN items = {1} /\ items[1].string = Msg /\ items[1].item = item OBVIOUS
<1>. HIDE DEF items
<1>3. Named(items) = {1} BY <1>2, KeyOfMsg DEF Named
<1>4. Min({1}) = 1 BY DEF Min
<1>5. MsgOf(json) = IF {1} # {} /\ items[1].item.t = "string" THEN items[1].item.val ELSE <<>>
  BY <1>1, <1>3, <1>4 DEF MsgOf
<1>. QED BY <1>2, <1>5

\* A sequence of three with two behind it.
LEMMA ThreeAndTwo ==
  \A a, b, c, d, e : <<a, b, c>> \o <<d, e>> = <<a, b, c, d, e>>
<1>. TAKE a, b, c, d, e
<1>. DEFINE T == {a, b, c, d, e}
            left == <<a, b, c>> \o <<d, e>>
            right == <<a, b, c, d, e>>
<1>1. <<a, b, c>> \in Seq(T) /\ <<d, e>> \in Seq(T) /\ right \in Seq(T) OBVIOUS
<1>2. left \in Seq(T) /\ Len(left) = 5 BY <1>1
<1>3. Len(right) = 5 OBVIOUS
<1>4. \A i \in 1..5 : left[i] = right[i]
  <2>1. left[1] = a /\ left[2] = b /\ left[3] = c /\ left[4] = d /\ left[5] = e BY <1>1
  <2>2. right[1] = a /\ right[2] = b /\ right[3] = c /\ right[4] = d /\ right[5] = e OBVIOUS
  <2>. HIDE DEF left, right
  <2>. QED BY <2>1, <2>2
<1>5. left = right
  <2>. HIDE DEF left, right, T
  <2>. QED BY <1>1, <1>2, <1>3, <1>4, SeqEqual
<1>. QED BY <1>5

\* What is published reads as the bytes it was made of, and to the end.
LEMMA MessageRead ==
  ASSUME NEW B, NEW bytes \in Seq(B), Len(bytes) =< Room
  PROVE  MsgOf(cJSON_ParseWithOpts(Message(bytes), TRUE)) = bytes
<1>. DEFINE T == {P("lbrace"), S(Msg), P("colon"), S(bytes), P("rbrace")}
            text == <<P("lbrace"), S(Msg), P("colon"), S(bytes), P("rbrace")>>
<1>1. Message(bytes) = text
  <2>1. Message(bytes) = <<P("lbrace"), S(Msg), P("colon")>> \o <<S(bytes), P("rbrace")>>
    BY DEF Message
  <2>. QED BY <2>1, ThreeAndTwo, Zenon
<1>2. text \in Seq(T) /\ Len(text) = 5 OBVIOUS
<1>3. /\ text[1].t = "lbrace" /\ text[2].t = "string" /\ text[3].t = "colon" /\ text[5].t = "rbrace"
      /\ text[2].val = Msg /\ text[4] = S(bytes)
  BY DEF P, S
<1>4. S(bytes).t = "string" /\ S(bytes).val = bytes BY DEF S
<1>. HIDE DEF text, T
<1>5. cJSON_ParseWithOpts(text, TRUE) = Parsed(6, List("object", <<[string |-> Msg, item |-> S(bytes)]>>))
  BY <1>2, <1>3, <1>4, OneMemberRead
<1>. QED BY <1>1, <1>4, <1>5, MsgOfOne

\* An object of two members, and something behind it.
LEMMA TwoMembersRead ==
  ASSUME NEW T, NEW text \in Seq(T), Len(text) = 10,
         text[1].t = "lbrace", text[2].t = "string", text[3].t = "colon", text[4].t \in {"string", "number"},
         text[5].t = "comma", text[6].t = "string", text[7].t = "colon", text[8].t \in {"string", "number"},
         text[9].t = "rbrace"
  PROVE  cJSON_Parse(text)
           = Parsed(10, List("object", <<[string |-> text[2].val, item |-> text[4]]>>
                                         \o <<[string |-> text[6].val, item |-> text[8]]>>))
<1>1. \A i \in 1..10 : At(text, i) = text[i] BY DEF At
<1>2. /\ 2 \in 1..Len(text) /\ 2 + 1 = 3 /\ 2 + 2 = 4 /\ 4 + 1 = 5 /\ 5 + 1 = 6
      /\ 6 \in 1..Len(text) /\ 6 + 1 = 7 /\ 6 + 2 = 8 /\ 6 + 3 = 9 /\ 6 + 4 = 10
      /\ 4 \in 1..(Len(text) + 1) /\ 1 \in 0..NestingLimit
  BY DEF NestingLimit
<1>. DEFINE first == [string |-> text[2].val, item |-> text[4]]
            second == [string |-> text[6].val, item |-> text[8]]
            rest == Parsed(10, List("object", <<second>>))
            v == Parsed(5, text[4])
<1>3. Reads(text)[Call("members", 6, 1)] = rest
  <2>1. /\ At(text, 6).t = "string" /\ At(text, 6 + 1).t = "colon" /\ At(text, 6 + 3).t = "rbrace"
        /\ At(text, 6 + 2).t \in {"string", "number"}
    BY <1>1
  <2>2. Reads(text)[Call("members", 6, 1)]
          = Parsed(6 + 4, List("object", <<[string |-> At(text, 6).val, item |-> At(text, 6 + 2)]>>))
    BY <1>2, <2>1, LastMemberRead
  <2>. QED BY <1>1, <1>2, <2>2
<1>4. Reads(text)[Call("value", 4, 1)] = v
  <2>1. At(text, 4) = text[4] /\ At(text, 4).t \in {"string", "number"} BY <1>1
  <2>2. Reads(text)[Call("value", 4, 1)] = Parsed(4 + 1, At(text, 4)) BY <1>2, <2>1, LeafRead
  <2>. QED BY <2>1, <2>2
<1>5. v.ok /\ v.at = 5 /\ v.val = text[4] BY DEF Parsed
<1>6. rest.ok /\ rest.at = 10 /\ rest.val.items = <<second>> BY DEF Parsed, List
<1>. HIDE DEF v, rest, second
<1>7. Reads(text)[Call("members", 2, 1)]
        = Linked(text, Reads(text), 1, "object", "rbrace", "members", v, first)
  <2>1. At(text, 2) = text[2] /\ At(text, 2).t = "string" /\ At(text, 2 + 1).t = "colon" BY <1>1
  <2>2. v = Reads(text)[Call("value", 2 + 2, 1)] BY <1>4
  <2>3. Reads(text)[Call("members", 2, 1)]
          = Linked(text, Reads(text), 1, "object", "rbrace", "members", v,
                   [string |-> At(text, 2).val, item |-> v.val])
    <3>1. Reads(text)[Call("members", 2, 1)] = members(text, Reads(text), 2, 1)
      BY <1>2, MembersRead
    <3>2. At(text, 2).t = "string" /\ At(text, 2 + 1).t = "colon" BY <2>1
    <3>. QED BY <2>2, <3>1, <3>2 DEF members
  <2>. QED BY <1>5, <2>1, <2>3
<1>. HIDE DEF first
<1>8. Linked(text, Reads(text), 1, "object", "rbrace", "members", v, first)
        = Parsed(10, List("object", <<first>> \o <<second>>))
  <2>1. At(text, v.at).t = "comma" /\ v.at + 1 = 6 BY <1>1, <1>2, <1>5
  <2>2. Linked(text, Reads(text), 1, "object", "rbrace", "members", v, first)
          = IF rest.ok THEN Parsed(rest.at, List("object", <<first>> \o rest.val.items)) ELSE rest
    BY <1>3, <1>5, <2>1 DEF Linked
  <2>. QED BY <1>6, <2>2
<1>9. Reads(text)[Call("value", 1, 0)] = Parsed(10, List("object", <<first>> \o <<second>>))
  BY <1>1, <1>7, <1>8, ObjectRead
<1>10. \A r : Reads(text)[Call("value", 1, 0)] = r => cJSON_Parse(text) = r
  BY DEF cJSON_Parse, cJSON_ParseWithOpts
<1>. QED BY <1>9, <1>10 DEF first, second

\* The second of two members has the key.
LEMMA MsgOfSecond ==
  ASSUME NEW other, Chars(other) # Msg, NEW key, Chars(key) = Msg, NEW val, NEW item
  PROVE  MsgOf(Parsed(10, List("object", <<[string |-> other, item |-> val]>>
                                          \o <<[string |-> key, item |-> item]>>)))
           = IF item.t = "string" THEN item.val ELSE <<>>
<1>. DEFINE first == [string |-> other, item |-> val]
            second == [string |-> key, item |-> item]
            items == <<first>> \o <<second>>
            json == Parsed(10, List("object", items))
<1>1. json.ok /\ json.val.t = "object" /\ json.val.items = items BY DEF Parsed, List
<1>2. items[1].string = other /\ items[2].string = key /\ items[2].item = item /\ DOMAIN items = 1..2
  <2>1. first.string = other /\ second.string = key /\ second.item = item OBVIOUS
  <2>. HIDE DEF first, second
  <2>2. \A a, b : (<<a>> \o <<b>>)[1] = a /\ (<<a>> \o <<b>>)[2] = b /\ DOMAIN (<<a>> \o <<b>>) = 1..2
    OBVIOUS
  <2>. QED BY <2>1, <2>2
<1>. HIDE DEF items, json
<1>3. Named(items) = {2} BY <1>2 DEF Named
<1>4. Min({2}) = 2 BY DEF Min
<1>5. MsgOf(json) = IF {2} # {} /\ items[2].item.t = "string" THEN items[2].item.val ELSE <<>>
  BY <1>1, <1>3, <1>4 DEF MsgOf
<1>6. MsgOf(json) = IF item.t = "string" THEN item.val ELSE <<>> BY <1>2, <1>5
<1>. QED BY <1>6 DEF json, items

\* Text that ends behind the colon has no message.
LEMMA CutRead ==
  ASSUME NEW T, NEW text \in Seq(T), Len(text) = 3,
         text[1].t = "lbrace", text[2].t = "string", text[3].t = "colon"
  PROVE  MsgOf(cJSON_Parse(text)) = <<>>
<1>1. \A i \in 1..3 : At(text, i) = text[i] BY DEF At
<1>2. At(text, 4).t = "NUL" BY DEF At, NUL, P
<1>3. 2 \in 1..Len(text) /\ 4 \in 1..(Len(text) + 1) /\ 1 \in 0..NestingLimit /\ 2 + 1 = 3 /\ 2 + 2 = 4
  BY DEF NestingLimit
<1>4. Reads(text)[Call("value", 4, 1)] = Failed(4) BY <1>2, <1>3, NoValue
<1>5. ~Failed(4).ok BY DEF Failed
<1>6. Reads(text)[Call("members", 2, 1)]
        = Linked(text, Reads(text), 1, "object", "rbrace", "members", Failed(4),
                 [string |-> At(text, 2).val, item |-> Failed(4).val])
  <2>1. At(text, 2).t = "string" /\ At(text, 2 + 1).t = "colon" BY <1>1
  <2>2. Failed(4) = Reads(text)[Call("value", 2 + 2, 1)] BY <1>4
  <2>. DEFINE found == Linked(text, Reads(text), 1, "object", "rbrace", "members", Failed(4),
                              [string |-> At(text, 2).val, item |-> Failed(4).val])
  <2>3. members(text, Reads(text), 2, 1) = found BY <1>3, <2>1, <2>2 DEF members
  <2>4. Reads(text)[Call("members", 2, 1)] = members(text, Reads(text), 2, 1) BY <1>3, MembersRead
  <2>. QED BY <2>3, <2>4, Zenon
<1>7. \A item : Linked(text, Reads(text), 1, "object", "rbrace", "members", Failed(4), item)
        = Failed(Failed(4).at)
  BY <1>5 DEF Linked
<1>8. Reads(text)[Call("value", 1, 0)] = Failed(Failed(4).at) BY <1>1, <1>6, <1>7, ObjectRead
<1>9. \A r : Reads(text)[Call("value", 1, 0)] = r => cJSON_Parse(text) = r
  BY DEF cJSON_Parse, cJSON_ParseWithOpts
<1>10. \A x : ~Failed(x).ok BY DEF Failed
<1>11. \A json : ~json.ok => MsgOf(json) = <<>> BY DEF MsgOf
<1>. QED BY <1>8, <1>9, <1>10, <1>11

\* Two digits are a byte.
LEMMA Hex ==
  /\ Pair(48, 49) = 1 /\ Pair(49, 70) = 31 /\ Pair(97, 48) = 160 /\ Pair(48, 50) = 2
  /\ Pair(122, 122) \in Nat
<1>1. Nibble(48) = 0 /\ Nibble(49) = 1 /\ Nibble(50) = 2 /\ Nibble(70) = 15 /\ Nibble(97) = 10
  BY DEF Nibble
<1>2. Nibble(122) = 16 BY DEF Nibble
<1>. QED BY <1>1, <1>2 DEF Pair

\* The number of pairs.
LEMMA Pairs ==
  /\ Min({0, MaxBytes}) = 0 /\ Min({1, MaxBytes}) = 1 /\ Min({2, MaxBytes}) = 2
  /\ Min({3, MaxBytes}) = 2
<1>1. Min({0, 2}) = 0 BY DEF Min
<1>2. Min({1, 2}) = 1 BY DEF Min
<1>3. Min({2, 2}) = 2 BY DEF Min
<1>4. Min({3, 2}) = 2 BY DEF Min
<1>. QED BY <1>1, <1>2, <1>3, <1>4 DEF MaxBytes

\* One pair.
LEMMA OnePair ==
  ASSUME NEW string \in Seq(Nat), Len(string) = 2
  PROVE  hex_to_bytes(string) = <<Pair(string[1], string[2])>>
<1>1. Min({Len(string) \div 2, MaxBytes}) = 1
  <2>1. Len(string) \div 2 = 1 OBVIOUS
  <2>. QED BY <2>1, Pairs
<1>2. hex_to_bytes(string) = [k \in 1..1 |-> Pair(string[2 * k - 1], string[2 * k])]
  BY <1>1 DEF hex_to_bytes
<1>3. \A k \in 1..1 : Pair(string[2 * k - 1], string[2 * k]) = Pair(string[1], string[2])
  <2>1. \A k \in 1..1 : k = 1 /\ 2 * k - 1 = 1 /\ 2 * k = 2 OBVIOUS
  <2>. QED BY <2>1
<1>4. [k \in 1..1 |-> Pair(string[2 * k - 1], string[2 * k])] = [k \in 1..1 |-> Pair(string[1], string[2])]
  BY <1>3
<1>5. \A a : [k \in 1..1 |-> a] = <<a>> OBVIOUS
<1>. QED BY <1>2, <1>4, <1>5

\* Two pairs, and what is behind them is left.
LEMMA TwoPairs ==
  ASSUME NEW string \in Seq(Nat), Len(string) \in {4, 6}
  PROVE  hex_to_bytes(string) = <<Pair(string[1], string[2]), Pair(string[3], string[4])>>
<1>. DEFINE a == Pair(string[1], string[2])
            b == Pair(string[3], string[4])
<1>1. Min({Len(string) \div 2, MaxBytes}) = 2
  <2>. DEFINE n == Len(string)
  <2>0. n = 4 \/ n = 6 OBVIOUS
  <2>. HIDE DEF n
  <2>1. n \div 2 = 2 \/ n \div 2 = 3 BY <2>0
  <2>. USE DEF n
  <2>. QED BY <2>1, Pairs
<1>2. hex_to_bytes(string) = [k \in 1..2 |-> Pair(string[2 * k - 1], string[2 * k])]
  BY <1>1 DEF hex_to_bytes
<1>3. \A k \in 1..2 : Pair(string[2 * k - 1], string[2 * k]) = <<a, b>>[k]
  <2>1. Pair(string[2 * 1 - 1], string[2 * 1]) = a BY DEF a
  <2>2. Pair(string[2 * 2 - 1], string[2 * 2]) = b
    <3>1. 2 * 2 - 1 = 3 /\ 2 * 2 = 4 OBVIOUS
    <3>. QED BY <3>1
  <2>. HIDE DEF a, b
  <2>3. \A k \in 1..2 : k = 1 \/ k = 2 OBVIOUS
  <2>. QED BY <2>1, <2>2, <2>3
<1>. HIDE DEF a, b
<1>4. <<a, b>> = [k \in 1..2 |-> <<a, b>>[k]] OBVIOUS
<1>5. hex_to_bytes(string) = <<a, b>> BY <1>2, <1>3, <1>4
<1>. QED BY <1>5 DEF a, b

\* What is made of a command: the bytes that are meant, as many of them as bytes[] holds.
Read(order, meant) ==
  /\ order \in Seq(Nat) /\ meant \in Seq(Nat)
  /\ IsPrefix(order, meant) /\ (order = meant \/ Len(order) = MaxBytes)

\* All of it is such an order.
LEMMA AllRead == ASSUME NEW order \in Seq(Nat) PROVE Read(order, order)
<1>1. Len(order) \in Nat /\ SubSeq(order, 1, Len(order)) = order OBVIOUS
<1>. QED BY <1>1 DEF Read, IsPrefix

\* The beginning of an order is one of what is meant.
LEMMA BeginningOf ==
  ASSUME NEW order \in Seq(Nat), NEW meant \in Seq(Nat), Read(order, meant), NEW taken \in 0..Len(order)
  PROVE  IsPrefix(SubSeq(order, 1, taken), meant)
<1>. DEFINE bytes == SubSeq(order, 1, taken)
<1>1. Len(order) \in Nat /\ Len(meant) \in Nat /\ taken \in Nat /\ taken =< Len(order) OBVIOUS
<1>2. Len(order) =< Len(meant) /\ order = SubSeq(meant, 1, Len(order))
  <2>1. IsPrefix(order, meant) BY DEF Read
  <2>2. SubSeq(order, 1, Len(order)) = order OBVIOUS
  <2>. QED BY <2>1, <2>2 DEF IsPrefix
<1>3. bytes \in Seq(Nat) /\ Len(bytes) = taken /\ \A i \in 1..taken : bytes[i] = order[i] BY <1>1
<1>4. \A i \in 1..Len(order) : order[i] = meant[i]
  <2>. SUFFICES ASSUME NEW i \in 1..Len(order) PROVE order[i] = meant[i]
    OBVIOUS
  <2>1. SubSeq(meant, 1, Len(order))[i] = meant[i] BY <1>1, <1>2
  <2>. QED BY <1>2, <2>1
<1>5. bytes = SubSeq(meant, 1, taken)
  <2>. DEFINE front == SubSeq(meant, 1, taken)
  <2>1. front \in Seq(Nat) /\ Len(front) = taken /\ \A i \in 1..taken : front[i] = meant[i]
    BY <1>1, <1>2
  <2>2. \A i \in 1..taken : bytes[i] = front[i]
    <3>1. \A i \in 1..taken : i \in 1..Len(order) BY <1>1
    <3>. HIDE DEF bytes, front
    <3>. QED BY <1>3, <1>4, <2>1, <3>1
  <2>. HIDE DEF bytes, front
  <2>3. bytes = front BY <1>3, <2>1, <2>2, SeqEqual
  <2>. QED BY <2>3 DEF front
<1>. HIDE DEF bytes
<1>6. SubSeq(bytes, 1, Len(bytes)) = bytes BY <1>3
<1>7. IsPrefix(bytes, meant) BY <1>1, <1>2, <1>3, <1>5, <1>6 DEF IsPrefix
<1>. QED BY <1>7 DEF bytes

\* A text with one member.
LEMMA OneMemberMsg ==
  ASSUME NEW item, item.t \in {"string", "number"}
  PROVE  MsgOf(cJSON_Parse(OneMember(item))) = IF item.t = "string" THEN item.val ELSE <<>>
<1>. DEFINE text == OneMember(item)
            T == {P("lbrace"), S(Msg), P("colon"), item, P("rbrace")}
<1>1. text \in Seq(T) /\ Len(text) = 5 BY DEF OneMember
<1>2. /\ text[1].t = "lbrace" /\ text[2].t = "string" /\ text[3].t = "colon" /\ text[5].t = "rbrace"
      /\ text[2].val = Msg /\ text[4] = item
  BY DEF P, S, OneMember
<1>. HIDE DEF text, T
<1>3. cJSON_Parse(text) = Parsed(6, List("object", <<[string |-> Msg, item |-> item]>>))
  BY <1>1, <1>2, OneMemberRead DEF cJSON_Parse
<1>. QED BY <1>3, MsgOfOne DEF text

\* What the program makes of each of the payloads: what its sender means, if it is made
\* of digits.
LEMMA OrdersMeant ==
  /\ DOMAIN Orders = 1..6 /\ DOMAIN Payloads = 1..6
  /\ \A p \in 1..6 : Orders[p] \in Seq(Nat) /\ (Payloads[p].digits => Read(Orders[p], Payloads[p].meant))
<1>. DEFINE Text2 == <<P("lbrace"), S(<<105>>), P("colon"), N(7), P("comma"),
                       S(<<77, 83, 71>>), P("colon"), S(<<97, 48>>), P("rbrace"), P("rest")>>
            Text4 == <<P("lbrace"), S(Msg), P("colon")>>
<1>1. /\ DOMAIN Payloads = 1..6
      /\ Payloads[1].text = OneMember(S(<<48, 49, 49, 70>>)) /\ Payloads[1].meant = <<1, 31>>
      /\ Payloads[2].text = Text2 /\ Payloads[2].meant = <<160>>
      /\ Payloads[3].text = OneMember(N(7)) /\ Payloads[3].meant = <<>>
      /\ Payloads[4].text = Text4 /\ Payloads[4].meant = <<>>
      /\ Payloads[5].text = OneMember(S(<<48, 49, 48, 50, 48, 51>>)) /\ Payloads[5].meant = <<1, 2, 3>>
      /\ Payloads[6].text = OneMember(S(<<122, 122>>)) /\ ~Payloads[6].digits
  BY DEF Payloads
<1>2. DOMAIN Orders = 1..6 /\ \A p \in 1..6 : Orders[p] = hex_to_bytes(MsgOf(cJSON_Parse(Payloads[p].text)))
  BY <1>1 DEF Orders
<1>3. \A text : cJSON_Parse(text) = cJSON_ParseWithOpts(text, FALSE) BY DEF cJSON_Parse
<1>4. \A bytes : MsgOf(cJSON_Parse(OneMember(S(bytes)))) = bytes
  <2>1. \A bytes : S(bytes).t = "string" /\ S(bytes).val = bytes BY DEF S
  <2>. QED BY <2>1, OneMemberMsg
<1>5. MsgOf(cJSON_Parse(Text2)) = <<97, 48>>
  <2>. DEFINE T == {P("lbrace"), S(<<105>>), P("colon"), N(7), P("comma"),
                    S(<<77, 83, 71>>), S(<<97, 48>>), P("rbrace"), P("rest")}
  <2>1. Text2 \in Seq(T) /\ Len(Text2) = 10 OBVIOUS
  <2>2. /\ Text2[1].t = "lbrace" /\ Text2[2].t = "string" /\ Text2[3].t = "colon" /\ Text2[4].t = "number"
        /\ Text2[5].t = "comma" /\ Text2[6].t = "string" /\ Text2[7].t = "colon" /\ Text2[8].t = "string"
        /\ Text2[9].t = "rbrace"
        /\ Text2[2].val = <<105>> /\ Text2[6].val = <<77, 83, 71>> /\ Text2[8].val = <<97, 48>>
    BY DEF P, S, N
  <2>. HIDE DEF Text2, T
  <2>3. cJSON_Parse(Text2)
          = Parsed(10, List("object", <<[string |-> Text2[2].val, item |-> Text2[4]]>>
                                        \o <<[string |-> Text2[6].val, item |-> Text2[8]]>>))
    BY <2>1, <2>2, TwoMembersRead
  <2>4. Chars(Text2[2].val) # Msg /\ Chars(Text2[6].val) = Msg BY <2>2 DEF Chars, Msg
  <2>5. MsgOf(cJSON_Parse(Text2)) = IF Text2[8].t = "string" THEN Text2[8].val ELSE <<>>
    BY <2>3, <2>4, MsgOfSecond
  <2>. QED BY <2>2, <2>5
<1>6. MsgOf(cJSON_Parse(OneMember(N(7)))) = <<>>
  <2>1. N(7).t = "number" BY DEF N
  <2>. QED BY <2>1, OneMemberMsg
<1>7. MsgOf(cJSON_Parse(Text4)) = <<>>
  <2>. DEFINE T == {P("lbrace"), S(Msg), P("colon")}
  <2>1. Text4 \in Seq(T) /\ Len(Text4) = 3 OBVIOUS
  <2>2. Text4[1].t = "lbrace" /\ Text4[2].t = "string" /\ Text4[3].t = "colon" BY DEF P, S
  <2>. HIDE DEF Text4, T
  <2>. QED BY <2>1, <2>2, CutRead
<1>. HIDE DEF Text2, Text4
<1>8. Orders[1] = <<1, 31>>
  <2>. DEFINE chars == <<48, 49, 49, 70>>
  <2>1. /\ chars \in Seq(Nat) /\ Len(chars) = 4
        /\ chars[1] = 48 /\ chars[2] = 49 /\ chars[3] = 49 /\ chars[4] = 70
    OBVIOUS
  <2>2. Orders[1] = hex_to_bytes(chars) BY <1>1, <1>2, <1>4
  <2>. HIDE DEF chars
  <2>. QED BY <2>1, <2>2, TwoPairs, Hex
<1>9. Orders[2] = <<160>>
  <2>. DEFINE chars == <<97, 48>>
  <2>1. chars \in Seq(Nat) /\ Len(chars) = 2 /\ chars[1] = 97 /\ chars[2] = 48 OBVIOUS
  <2>2. Orders[2] = hex_to_bytes(chars) BY <1>1, <1>2, <1>5
  <2>. HIDE DEF chars
  <2>. QED BY <2>1, <2>2, OnePair, Hex
<1>10. Orders[3] = <<>> /\ Orders[4] = <<>>
  <2>1. Min({Len(<<>>) \div 2, MaxBytes}) = 0
    <3>1. Len(<<>>) \div 2 = 0 OBVIOUS
    <3>. QED BY <3>1, Pairs
  <2>2. ASSUME NEW string, Min({Len(string) \div 2, MaxBytes}) = 0 PROVE hex_to_bytes(string) = <<>>
    <3>1. hex_to_bytes(string) = [k \in 1..0 |-> Pair(string[2 * k - 1], string[2 * k])]
      BY <2>2 DEF hex_to_bytes
    <3>2. [k \in 1..0 |-> Pair(string[2 * k - 1], string[2 * k])] = <<>> OBVIOUS
    <3>. QED BY <3>1, <3>2, Zenon
  <2>3. hex_to_bytes(<<>>) = <<>> BY <2>1, <2>2, Zenon
  <2>. QED BY <1>1, <1>2, <1>6, <1>7, <2>3
<1>11. Orders[5] = <<1, 2>>
  <2>. DEFINE chars == <<48, 49, 48, 50, 48, 51>>
  <2>1. /\ chars \in Seq(Nat) /\ Len(chars) = 6
        /\ chars[1] = 48 /\ chars[2] = 49 /\ chars[3] = 48 /\ chars[4] = 50
    OBVIOUS
  <2>2. Orders[5] = hex_to_bytes(chars) BY <1>1, <1>2, <1>4
  <2>. HIDE DEF chars
  <2>. QED BY <2>1, <2>2, TwoPairs, Hex
<1>12. Orders[6] \in Seq(Nat)
  <2>. DEFINE chars == <<122, 122>>
  <2>1. chars \in Seq(Nat) /\ Len(chars) = 2 /\ chars[1] = 122 /\ chars[2] = 122 OBVIOUS
  <2>2. Orders[6] = hex_to_bytes(chars) BY <1>1, <1>2, <1>4
  <2>. HIDE DEF chars
  <2>3. Orders[6] = <<Pair(122, 122)>> BY <2>1, <2>2, OnePair
  <2>. QED BY <2>3, Hex
<1>13. <<1, 31>> \in Seq(Nat) /\ <<160>> \in Seq(Nat) /\ <<>> \in Seq(Nat) /\ <<1, 2>> \in Seq(Nat)
  OBVIOUS
<1>14. Read(<<1, 2>>, <<1, 2, 3>>)
  <2>. DEFINE meant == <<1, 2, 3>>
              order == <<1, 2>>
  <2>1. meant \in Seq(Nat) /\ Len(meant) = 3 /\ order \in Seq(Nat) /\ Len(order) = 2 OBVIOUS
  <2>2. SubSeq(order, 1, 2) = order
    <3>. HIDE DEF order
    <3>. QED BY <2>1
  <2>3. meant[1] = order[1] /\ meant[2] = order[2] OBVIOUS
  <2>. HIDE DEF meant, order
  <2>4. SubSeq(meant, 1, 2) = order
    <3>. DEFINE front == SubSeq(meant, 1, 2)
    <3>1. front \in Seq(Nat) /\ Len(front) = 2 /\ front[1] = meant[1] /\ front[2] = meant[2] BY <2>1
    <3>. HIDE DEF front
    <3>2. \A i \in 1..2 : i = 1 \/ i = 2 OBVIOUS
    <3>3. \A i \in 1..2 : front[i] = order[i] BY <2>3, <3>1, <3>2
    <3>4. front = order BY <2>1, <3>1, <3>3, SeqEqual
    <3>. QED BY <3>4 DEF front
  <2>5. Read(order, meant) BY <2>1, <2>2, <2>4 DEF Read, IsPrefix, MaxBytes
  <2>. QED BY <2>5 DEF order, meant
<1>15. /\ Read(Orders[1], Payloads[1].meant) /\ Read(Orders[2], Payloads[2].meant)
       /\ Read(Orders[3], Payloads[3].meant) /\ Read(Orders[4], Payloads[4].meant)
       /\ Read(Orders[5], Payloads[5].meant)
  BY <1>1, <1>8, <1>9, <1>10, <1>11, <1>13, <1>14, AllRead, Zenon
<1>16. \A p \in 1..6 : p \in {1, 2, 3, 4, 5} \/ p = 6 OBVIOUS
<1>17. \A p \in {1, 2, 3, 4, 5} : Read(Orders[p], Payloads[p].meant) BY <1>15
<1>18. \A p \in 1..6 : Payloads[p].digits => Read(Orders[p], Payloads[p].meant) BY <1>1, <1>16, <1>17
<1>19. \A p \in 1..6 : Orders[p] \in Seq(Nat) BY <1>12, <1>16, <1>17 DEF Read
<1>. QED BY <1>1, <1>2, <1>18, <1>19

-----------------------------------------------------------------------------
(* The bytes of the line                                                   *)

Bytes == Seq(Nat \X Nat)

\* Two bytes that follow each other on the line l.
Follow(l, a, b) == b = <<a[1], a[2] + 1>> \/ (a[2] = l[a[1]].len /\ b = <<a[1] + 1, 1>>)

\* The bytes of s follow each other on the line l, up to its end.
Ordered(l, s) ==
  /\ \A i \in 1..Len(s) : s[i][1] \in 1..Len(l) /\ s[i][2] \in 1..l[s[i][1]].len
  /\ \A i \in 1..(Len(s) - 1) : Follow(l, s[i], s[i + 1])
  /\ s # <<>> => s[Len(s)] = <<Len(l), l[Len(l)].len>>

\* All of the bytes of one good frame of the line l.
BytesOf(l, f) == [i \in 1..l[f].len |-> <<f, i>>]
Whole(l, bytes) ==
  /\ Len(bytes) >= MinLength /\ bytes[1][1] \in 1..Len(l)
  /\ l[bytes[1][1]].good /\ l[bytes[1][1]].flow = "none"
  /\ bytes = BytesOf(l, bytes[1][1])

\* The length of a frame.
LEMMA FrameLength ==
  ASSUME NEW l \in Seq(Frames), NEW f \in 1..Len(l)
  PROVE  l[f].len \in Nat /\ l[f].len > 0
<1>1. l[f] \in Frames BY ElementOfSeq, Zenon
<1>2. l[f] \in [len : Nat \ {0}, good : BOOLEAN, flow : {"none", "start", "stop"}]
  BY <1>1, FramesAssumption, Zenon
<1>. QED BY <1>2

\* Where the parts of a sequence are.
LEMMA Parts ==
  ASSUME NEW T, NEW a \in Seq(T), NEW b \in Seq(T)
  PROVE  /\ a \o b \in Seq(T) /\ Len(a \o b) = Len(a) + Len(b) /\ Len(a) \in Nat /\ Len(b) \in Nat
         /\ \A i \in 1..Len(a) : (a \o b)[i] = a[i]
         /\ \A i \in 1..Len(b) : (a \o b)[Len(a) + i] = b[i]
OBVIOUS

\* What is left of such a stream is one.
LEMMA SuffixOrdered ==
  ASSUME NEW l, NEW a \in Bytes, NEW b \in Bytes, Ordered(l, a \o b)
  PROVE  Ordered(l, b)
<1>. DEFINE s == a \o b
            m == Len(a)
            n == Len(b)
<1>1. /\ Len(s) = m + n /\ m \in Nat /\ n \in Nat
      /\ \A i \in 1..n : s[m + i] = b[i]
  BY Parts DEF Bytes
<1>2. b # <<>> => n # 0 BY DEF Bytes
<1>3. b # <<>> => s # <<>>
  <2>1. s \in Seq(Nat \X Nat) BY DEF Bytes
  <2>2. b # <<>> => Len(s) # 0 BY <1>1, <1>2
  <2>. HIDE DEF s
  <2>. QED BY <2>1, <2>2
<1>. HIDE DEF s, m, n
<1>4. /\ \A i \in 1..Len(s) : s[i][1] \in 1..Len(l) /\ s[i][2] \in 1..l[s[i][1]].len
      /\ \A i \in 1..(Len(s) - 1) : Follow(l, s[i], s[i + 1])
      /\ s # <<>> => s[Len(s)] = <<Len(l), l[Len(l)].len>>
  BY DEF Ordered, s
<1>5. ASSUME NEW i \in 1..n PROVE b[i][1] \in 1..Len(l) /\ b[i][2] \in 1..l[b[i][1]].len
  <2>1. m + i \in 1..Len(s) BY <1>1
  <2>2. s[m + i] = b[i] BY <1>1
  <2>. QED BY <1>4, <2>1, <2>2
<1>6. ASSUME NEW i \in 1..(n - 1) PROVE Follow(l, b[i], b[i + 1])
  <2>1. m + i \in 1..(Len(s) - 1) /\ i \in 1..n /\ i + 1 \in 1..n /\ m + i + 1 = m + (i + 1) BY <1>1
  <2>2. s[m + i] = b[i] /\ s[m + (i + 1)] = b[i + 1] BY <1>1, <2>1
  <2>3. Follow(l, s[m + i], s[m + i + 1]) BY <1>4, <2>1
  <2>. QED BY <2>1, <2>2, <2>3
<1>7. ASSUME b # <<>> PROVE b[n] = <<Len(l), l[Len(l)].len>>
  <2>1. n \in 1..n /\ s[m + n] = b[n] /\ m + n = Len(s) BY <1>1, <1>2, <1>7
  <2>. QED BY <1>3, <1>4, <1>7, <2>1
<1>. QED BY <1>5, <1>6, <1>7 DEF Ordered, n

\* A frame that is sent goes on where the stream ends.
LEMMA FrameOrdered ==
  ASSUME NEW l \in Seq(Frames), NEW frame \in Frames, NEW s \in Bytes, Ordered(l, s)
  PROVE  /\ BytesOf(Append(l, frame), Len(l) + 1) \in Bytes
         /\ Ordered(Append(l, frame), s \o BytesOf(Append(l, frame), Len(l) + 1))
<1>. DEFINE k == Append(l, frame)
            f == Len(l) + 1
            b == BytesOf(k, f)
            n == frame.len
            m == Len(s)
            t == s \o b
<1>1. /\ k \in Seq(Frames) /\ Len(k) = f /\ f \in Nat /\ f \in 1..Len(k)
      /\ \A i \in 1..Len(l) : k[i] = l[i] /\ i \in 1..Len(k) /\ i # f
      /\ k[f] = frame
  <2>1. k \in Seq(Frames) /\ Len(k) = f /\ k[f] = frame BY AppendProperties, Zenon
  <2>2. \A i \in 1..Len(l) : k[i] = l[i] OBVIOUS
  <2>3. Len(l) \in Nat OBVIOUS
  <2>. HIDE DEF k
  <2>. QED BY <2>1, <2>2, <2>3
<1>2. n \in Nat /\ n > 0 BY <1>1, FrameLength
<1>. HIDE DEF k, f, n
<1>3. b = [i \in 1..n |-> <<f, i>>] BY <1>1 DEF BytesOf, n
<1>4. b \in Bytes /\ Len(b) = n /\ \A i \in 1..n : b[i] = <<f, i>>
  BY <1>1, <1>2, <1>3 DEF Bytes
<1>. HIDE DEF b
<1>5. /\ Len(t) = m + n /\ m \in Nat
      /\ \A i \in 1..m : t[i] = s[i]
      /\ \A i \in 1..n : t[m + i] = <<f, i>>
  <2>1. /\ Len(t) = m + Len(b) /\ m \in Nat
        /\ \A i \in 1..m : t[i] = s[i]
        /\ \A i \in 1..Len(b) : t[m + i] = b[i]
    <3>1. s \in Seq(Nat \X Nat) /\ b \in Seq(Nat \X Nat) BY <1>4 DEF Bytes
    <3>. HIDE DEF m
    <3>2. Len(t) = Len(s) + Len(b) /\ Len(s) \in Nat BY <3>1, Parts
    <3>3. \A i \in 1..Len(s) : t[i] = s[i] BY <3>1, Parts
    <3>4. \A i \in 1..Len(b) : t[Len(s) + i] = b[i] BY <3>1, Parts
    <3>. QED BY <3>2, <3>3, <3>4, Zenon DEF m
  <2>. HIDE DEF t, m
  <2>. QED BY <1>4, <2>1
<1>. HIDE DEF t
<1>6. /\ \A i \in 1..m : s[i][1] \in 1..Len(l) /\ s[i][2] \in 1..l[s[i][1]].len
      /\ \A i \in 1..(m - 1) : Follow(l, s[i], s[i + 1])
      /\ m # 0 => s[m] = <<Len(l), l[Len(l)].len>>
  <2>1. m # 0 => s # <<>> OBVIOUS
  <2>. QED BY <2>1 DEF Ordered
<1>. HIDE DEF m
<1>7. \A i \in 1..(m + n) : i \in 1..m \/ (i - m \in 1..n /\ i = m + (i - m) /\ i \notin 1..m)
  BY <1>2, <1>5
<1>8. ASSUME NEW i \in 1..(m + n) PROVE t[i][1] \in 1..Len(k) /\ t[i][2] \in 1..k[t[i][1]].len
  <2>1. CASE i \in 1..m
    <3>1. t[i] = s[i] /\ s[i][1] \in 1..Len(l) /\ s[i][2] \in 1..l[s[i][1]].len BY <1>5, <1>6, <2>1
    <3>. QED BY <1>1, <3>1
  <2>2. CASE i \notin 1..m
    <3>1. i - m \in 1..n /\ i = m + (i - m) BY <1>7, <2>2
    <3>2. t[i] = <<f, i - m>> BY <1>5, <3>1
    <3>3. k[f].len = n BY <1>1 DEF n
    <3>. QED BY <1>1, <3>1, <3>2, <3>3
  <2>. QED BY <2>1, <2>2
<1>9. ASSUME NEW i \in 1..((m + n) - 1) PROVE Follow(k, t[i], t[i + 1])
  <2>1. CASE i \in 1..(m - 1)
    <3>1. i \in 1..m /\ i + 1 \in 1..m BY <1>5, <2>1
    <3>2. t[i] = s[i] /\ t[i + 1] = s[i + 1] /\ Follow(l, s[i], s[i + 1]) BY <1>5, <1>6, <2>1, <3>1
    <3>3. k[s[i][1]] = l[s[i][1]] BY <1>1, <1>6, <3>1
    <3>. QED BY <3>2, <3>3 DEF Follow
  <2>2. CASE i = m
    <3>1. m # 0 /\ m \in 1..m /\ 1 \in 1..n /\ i + 1 = m + 1 BY <1>2, <1>5, <2>2
    <3>2. t[i] = <<Len(l), l[Len(l)].len>> /\ t[i + 1] = <<f, 1>> BY <1>5, <1>6, <2>2, <3>1
    <3>3. Len(l) \in 1..Len(l) BY <1>6, <3>1, <3>2, <1>5, <2>2
    <3>4. k[Len(l)] = l[Len(l)] /\ f = Len(l) + 1 BY <1>1, <3>3 DEF f
    <3>. QED BY <3>2, <3>4 DEF Follow
  <2>3. CASE ~(i < m) /\ i # m
    <3>1. i - m \in 1..n /\ i + 1 - m \in 1..n /\ i = m + (i - m) /\ i + 1 = m + (i + 1 - m)
          /\ i + 1 - m = (i - m) + 1
      BY <1>2, <1>5, <2>3
    <3>2. t[i] = <<f, i - m>> /\ t[i + 1] = <<f, i + 1 - m>> BY <1>5, <3>1
    <3>. QED BY <3>1, <3>2 DEF Follow
  <2>. QED BY <1>5, <2>1, <2>2, <2>3
<1>10. t[m + n] = <<Len(k), k[Len(k)].len>>
  <2>1. n \in 1..n BY <1>2
  <2>2. k[f].len = n BY <1>1 DEF n
  <2>3. t[m + n] = <<f, n>> BY <1>5, <2>1
  <2>. QED BY <1>1, <2>2, <2>3
<1>11. Ordered(k, t)
  <2>1. Len(t) = m + n BY <1>5
  <2>2. \A i \in 1..Len(t) : t[i][1] \in 1..Len(k) /\ t[i][2] \in 1..k[t[i][1]].len
    BY <1>8, <2>1
  <2>3. \A i \in 1..(Len(t) - 1) : Follow(k, t[i], t[i + 1]) BY <1>9, <2>1
  <2>4. t[Len(t)] = <<Len(k), k[Len(k)].len>> BY <1>10, <2>1, Zenon
  <2>. QED BY <2>2, <2>3, <2>4, Zenon DEF Ordered
<1>12. b \in Bytes /\ Ordered(k, s \o b) BY <1>4, <1>11 DEF t
<1>. QED BY <1>12, Zenon DEF k, f, b

\* Behind the end of a frame come later ones.
LEMMA BehindFrame ==
  ASSUME NEW l \in Seq(Frames), NEW s \in Bytes, Ordered(l, s), NEW n \in 1..Len(s),
         s[n][2] = l[s[n][1]].len
  PROVE  \A i \in (n + 1)..Len(s) : s[n][1] < s[i][1]
<1>. DEFINE f == s[n][1]
            T == {i \in (n + 1)..Len(s) : f < s[i][1]}
<1>1. /\ \A i \in 1..Len(s) : s[i][1] \in 1..Len(l) /\ s[i][2] \in 1..l[s[i][1]].len
      /\ \A i \in 1..(Len(s) - 1) : Follow(l, s[i], s[i + 1])
      /\ Len(s) \in Nat /\ Len(l) \in Nat /\ n \in Nat
  BY DEF Ordered, Bytes
<1>2. CASE n + 1 =< Len(s)
  <2>1. n + 1 \in T
    <3>1. n \in 1..(Len(s) - 1) /\ n + 1 \in 1..Len(s) BY <1>1, <1>2
    <3>2. Follow(l, s[n], s[n + 1]) /\ f \in Nat BY <1>1, <3>1
    <3>3. CASE s[n + 1] = <<f, s[n][2] + 1>>
      <4>1. s[n + 1][1] = f /\ s[n + 1][2] = s[n][2] + 1 BY <3>3
      <4>2. s[n][2] + 1 \in 1..l[f].len BY <1>1, <3>1, <4>1
      <4>3. l[f].len \in Nat BY <1>1, FrameLength
      <4>. QED BY <4>2, <4>3
    <3>4. CASE s[n + 1] = <<f + 1, 1>> BY <1>1, <3>1, <3>2, <3>4
    <3>. QED BY <3>2, <3>3, <3>4 DEF Follow
  <2>2. ASSUME NEW i \in (n + 1 + 1)..Len(s), i - 1 \in T PROVE i \in T
    <3>1. i - 1 \in 1..(Len(s) - 1) /\ i - 1 + 1 = i /\ i \in (n + 1)..Len(s) /\ i \in 1..Len(s)
          /\ i - 1 \in 1..Len(s)
      BY <1>1
    <3>2. Follow(l, s[i - 1], s[i]) /\ f < s[i - 1][1] BY <1>1, <2>2, <3>1
    <3>3. s[i][1] = s[i - 1][1] \/ s[i][1] = s[i - 1][1] + 1 BY <3>2 DEF Follow
    <3>4. s[i][1] \in Nat /\ s[i - 1][1] \in Nat /\ f \in Nat BY <1>1, <3>1
    <3>5. f < s[i][1] BY <3>2, <3>3, <3>4
    <3>. QED BY <3>1, <3>5
  <2>3. n + 1 \in Nat BY <1>1
  <2>. HIDE DEF T
  <2>4. \A i \in (n + 1)..Len(s) : i \in T BY <1>1, <2>1, <2>2, <2>3, Induction
  <2>. QED BY <2>4 DEF T
<1>3. CASE ~(n + 1 =< Len(s)) BY <1>1, <1>3
<1>. QED BY <1>2, <1>3

-----------------------------------------------------------------------------
(* The invariant                                                           *)

Orderly == (1..MaxCommands) \X (1..6)
Writing == [number : 1..MaxCommands, bytes : Seq(Nat), full : BOOLEAN]
Report == [text : {Message(bytes) : bytes \in Bytes}, bytes : Bytes]

Types ==
  /\ line \in Seq(Frames) /\ buf \in Bytes /\ tty \in Bytes
  /\ pc \in {"down", "connect", "mac", "serial", "receive", "publish"}
  /\ link \in {"none", "lost", "wait", "up", "subscribed"}
  /\ reports \in Seq(Report) /\ wire \in Seq(Writing)
  /\ inbox \in Seq(Orderly) /\ asked \in 0..MaxCommands
  /\ faults \in 0..MaxFaults /\ stopped \in BOOLEAN

\* What main has received and not used and what is in the port are one stretch of the
\* line up to its end, nothing while the port is closed; and what main publishes is all
\* of one good frame.
StreamInv ==
  /\ Ordered(line, buf \o tty) /\ Len(buf) =< BufferSize
  /\ ~PortOpen => buf = <<>> /\ tty = <<>>
  /\ pc = "publish" => Whole(line, buf)

\* The reports are of good frames, in their order, all before what is still there.
ReportInv ==
  /\ \A k \in 1..Len(reports) :
       /\ reports[k].text = Message(reports[k].bytes) /\ Whole(line, reports[k].bytes)
       /\ \A i \in 1..Len(buf \o tty) : reports[k].bytes[1][1] < (buf \o tty)[i][1]
  /\ \A i, j \in 1..Len(reports) : i < j => reports[i].bytes[1][1] < reports[j].bytes[1][1]

IInv == Types /\ StreamInv /\ ReportInv

\* What is left of the stretch when its beginning is used or dropped.
LEMMA Dropped ==
  ASSUME IInv, NEW a \in Bytes, NEW b \in Bytes, buf \o tty = a \o b
  PROVE  /\ Ordered(line, b)
         /\ \A k \in 1..Len(reports), i \in 1..Len(b) : reports[k].bytes[1][1] < b[i][1]
<1>. DEFINE s == buf \o tty
<1>1. Ordered(line, b)
  <2>1. Ordered(line, a \o b) BY DEF IInv, StreamInv
  <2>. QED BY <2>1, SuffixOrdered
<1>2. s = a \o b OBVIOUS
<1>. HIDE DEF s
<1>3. /\ Len(s) = Len(a) + Len(b) /\ Len(a) \in Nat /\ Len(b) \in Nat
      /\ \A i \in 1..Len(b) : s[Len(a) + i] = b[i]
  BY <1>2, Parts DEF Bytes
<1>4. ASSUME NEW k \in 1..Len(reports), NEW i \in 1..Len(b)
      PROVE  reports[k].bytes[1][1] < b[i][1]
  <2>1. \A j \in 1..Len(s) : reports[k].bytes[1][1] < s[j][1]
    BY <1>4, Zenon DEF IInv, ReportInv, s
  <2>2. Len(a) + i \in 1..Len(s) /\ s[Len(a) + i] = b[i] BY <1>3
  <2>3. reports[k].bytes[1][1] < s[Len(a) + i][1] BY <2>1, <2>2, Zenon
  <2>. QED BY <2>2, <2>3
<1>. QED BY <1>1, <1>4

\* A step that does no more than that.
LEMMA StreamDrops ==
  ASSUME IInv, NEW a \in Bytes, buf' \in Bytes, tty' \in Bytes,
         buf \o tty = a \o (buf' \o tty'), UNCHANGED <<line, reports>>
  PROVE  Ordered(line, buf' \o tty') /\ ReportInv'
<1>. DEFINE b == buf' \o tty'
<1>1. b \in Bytes BY DEF Bytes
<1>2. buf \o tty = a \o b OBVIOUS
<1>. HIDE DEF b
<1>3. /\ Ordered(line, b)
      /\ \A k \in 1..Len(reports), i \in 1..Len(b) : reports[k].bytes[1][1] < b[i][1]
  BY <1>1, <1>2, Dropped
<1>4. /\ \A k \in 1..Len(reports) :
           reports[k].text = Message(reports[k].bytes) /\ Whole(line, reports[k].bytes)
      /\ \A i, j \in 1..Len(reports) : i < j => reports[i].bytes[1][1] < reports[j].bytes[1][1]
  BY DEF IInv, ReportInv
<1>5. ReportInv' BY <1>3, <1>4, Zenon DEF ReportInv, b
<1>. QED BY <1>3, <1>5 DEF b

\* Nothing in the buffer and in the port.
LEMMA NothingThere ==
  /\ <<>> \in Bytes /\ \A s \in Bytes : s \o <<>> = s /\ <<>> \o s = s
  /\ \A l : Ordered(l, <<>>)
BY DEF Bytes, Ordered

\* Main and the MQTT thread leave the line and what came from it alone.
LEMMA StreamStays ==
  ASSUME IInv, UNCHANGED <<line, tty, buf, reports>>,
         pc' \in {"down", "connect", "mac", "serial", "receive", "publish"},
         ~PortOpen' => ~PortOpen, pc' = "publish" => pc = "publish"
  PROVE  StreamInv' /\ ReportInv'
<1>1. StreamInv' BY DEF IInv, StreamInv
<1>2. ReportInv' BY DEF IInv, ReportInv
<1>. QED BY <1>1, <1>2

\* The process ends.
LEMMA ExitStep ==
  ASSUME IInv, Exit, UNCHANGED <<line, reports>>
  PROVE  StreamInv' /\ ReportInv' /\ buf' \in Bytes /\ tty' \in Bytes /\ inbox' \in Seq(Orderly)
<1>1. buf' = <<>> /\ tty' = <<>> /\ inbox' = <<>> /\ pc' = "down" BY DEF Exit
<1>2. <<>> \in Bytes /\ <<>> \in Seq(Orderly) /\ Len(<<>>) = 0 BY NothingThere
<1>. DEFINE s == buf \o tty
<1>3. s \in Bytes BY DEF IInv, Types, Bytes
<1>4. s = s \o (buf' \o tty')
  <2>. HIDE DEF s
  <2>. QED BY <1>1, <1>2, <1>3, NothingThere
<1>. HIDE DEF s
<1>5. Ordered(line, buf' \o tty') /\ ReportInv' BY <1>1, <1>2, <1>3, <1>4, StreamDrops DEF s
<1>6. StreamInv' BY <1>1, <1>2, <1>5 DEF StreamInv, PortOpen, BufferSize
<1>. QED BY <1>1, <1>2, <1>5, <1>6

\* What main has received is kept, published or dropped.
LEMMA ReceivedStep ==
  ASSUME IInv, pc = "receive", NEW bytes \in Bytes, bytes # <<>>, Len(bytes) =< BufferSize,
         tty' \in Bytes, buf \o tty = bytes \o tty', UNCHANGED <<line, reports>>,
         Received(bytes) \/ (buf' = bytes /\ pc' = pc)
  PROVE  StreamInv' /\ ReportInv' /\ buf' \in Bytes /\ pc' \in {"receive", "publish"}
<1>0. <<>> \in Bytes /\ Len(<<>>) = 0 BY NothingThere
<1>1. CASE buf' = bytes
  <2>1. bytes \o tty' \in Bytes BY DEF Bytes
  <2>2. buf \o tty = <<>> \o (buf' \o tty') BY <1>1, <2>1, NothingThere
  <2>3. Ordered(line, buf' \o tty') /\ ReportInv' BY <1>0, <1>1, <2>2, StreamDrops
  <2>4. pc' \in {"receive", "publish"} /\ (pc' = "publish" => check_modbus_rtu_format(bytes))
    BY DEF Received
  <2>5. bytes[1][1] \in 1..Len(line)
    <3>1. Len(bytes) \in Nat /\ Len(bytes) # 0 BY DEF Bytes
    <3>2. (bytes \o tty')[1] = bytes[1] /\ 1 \in 1..Len(bytes \o tty')
      <4>. HIDE DEF Bytes
      <4>1. bytes \in Seq(Nat \X Nat) /\ tty' \in Seq(Nat \X Nat) BY DEF Bytes
      <4>. QED BY <3>1, <4>1, Parts
    <3>3. Ordered(line, bytes \o tty') BY DEF IInv, StreamInv
    <3>. QED BY <3>2, <3>3 DEF Ordered
  <2>6. check_modbus_rtu_format(bytes) => Whole(line, bytes)
    BY <2>5 DEF check_modbus_rtu_format, Intact, FrameBytes, Whole, BytesOf
  <2>7. StreamInv' BY <1>1, <2>3, <2>4, <2>6 DEF StreamInv, PortOpen
  <2>. QED BY <1>1, <2>3, <2>4, <2>7
<1>2. CASE buf' # bytes
  <2>1. buf' = <<>> /\ pc' = "receive" BY <1>2 DEF Received
  <2>2. buf \o tty = bytes \o (buf' \o tty') BY <2>1, NothingThere
  <2>3. Ordered(line, buf' \o tty') /\ ReportInv' BY <1>0, <2>1, <2>2, StreamDrops
  <2>4. StreamInv' BY <1>0, <2>1, <2>3 DEF StreamInv, PortOpen, BufferSize
  <2>. QED BY <1>0, <2>1, <2>3, <2>4
<1>. QED BY <1>1, <1>2

\* A byte moves from the port to the buffer.
LEMMA ByteMoves ==
  ASSUME NEW T, NEW a \in Seq(T), NEW b \in Seq(T), b # <<>>
  PROVE  /\ Append(a, Head(b)) \in Seq(T) /\ Tail(b) \in Seq(T) /\ Append(a, Head(b)) # <<>>
         /\ Append(a, Head(b)) \o Tail(b) = a \o b
<1>1. Head(b) \in T /\ Tail(b) \in Seq(T) OBVIOUS
<1>2. Append(a, Head(b)) = a \o <<Head(b)>> BY <1>1, AppendIsConcat
<1>3. <<Head(b)>> \o Tail(b) = b
  <2>1. <<Head(b)>> \in Seq(T) BY <1>1
  <2>. QED BY <1>1, <2>1
<1>4. (a \o <<Head(b)>>) \o Tail(b) = a \o (<<Head(b)>> \o Tail(b))
  <2>1. <<Head(b)>> \in Seq(T) BY <1>1
  <2>. QED BY <1>1, <2>1, ConcatAssociative
<1>5. Append(a, Head(b)) \in Seq(T) /\ Append(a, Head(b)) # <<>> BY <1>1, AppendProperties
<1>. QED BY <1>1, <1>2, <1>3, <1>4, <1>5

\* A frame is reported.
LEMMA ReportStep ==
  ASSUME IInv, pc = "publish", UNCHANGED <<line, tty>>, buf' = <<>>, pc' = "receive",
         reports' = Append(reports, [text |-> Message(buf), bytes |-> buf])
  PROVE  ReportInv'
<1>. DEFINE r == [text |-> Message(buf), bytes |-> buf]
            n == Len(reports)
            f == buf[1][1]
<1>0. line \in Seq(Frames) /\ buf \in Bytes /\ tty \in Bytes /\ reports \in Seq(Report) BY DEF IInv, Types
<1>1. Whole(line, buf) BY DEF IInv, StreamInv
<1>2. /\ Ordered(line, tty)
      /\ \A k \in 1..n, i \in 1..Len(tty) : reports[k].bytes[1][1] < tty[i][1]
  BY <1>0, Dropped
<1>3. /\ Len(buf \o tty) = Len(buf) + Len(tty) /\ Len(buf) \in Nat /\ Len(tty) \in Nat
      /\ \A i \in 1..Len(buf) : (buf \o tty)[i] = buf[i]
      /\ \A i \in 1..Len(tty) : (buf \o tty)[Len(buf) + i] = tty[i]
  <2>1. buf \in Seq(Nat \X Nat) /\ tty \in Seq(Nat \X Nat) BY <1>0 DEF Bytes
  <2>. QED BY <2>1, Parts
<1>4. Len(buf) >= MinLength /\ f \in 1..Len(line) /\ buf = BytesOf(line, f) BY <1>1 DEF Whole
<1>5. 1 \in 1..Len(buf) BY <1>3, <1>4 DEF MinLength
<1>6. Len(buf) = line[f].len /\ buf[Len(buf)] = <<f, line[f].len>>
  <2>1. line[f].len \in Nat /\ line[f].len > 0 BY <1>0, <1>4, FrameLength
  <2>. HIDE DEF f
  <2>2. Len(BytesOf(line, f)) = line[f].len BY <2>1 DEF BytesOf
  <2>3. BytesOf(line, f)[line[f].len] = <<f, line[f].len>> BY <2>1 DEF BytesOf
  <2>. QED BY <1>4, <2>2, <2>3
<1>7. \A i \in 1..Len(tty) : f < tty[i][1]
  <2>. DEFINE s == buf \o tty
              m == Len(buf)
  <2>1. Ordered(line, s) /\ s \in Bytes
    <3>1. Ordered(line, s) BY DEF IInv, StreamInv
    <3>. QED BY <1>0, <3>1 DEF Bytes
  <2>2. m \in 1..Len(s) /\ s[m] = <<f, line[f].len>>
    <3>1. m \in 1..m /\ m \in 1..(m + Len(tty)) BY <1>3, <1>5
    <3>2. (buf \o tty)[Len(buf)] = buf[Len(buf)] BY <1>3, <3>1, Zenon
    <3>3. Len(buf) \in 1..Len(buf \o tty) BY <1>3, <3>1, Zenon
    <3>. QED BY <1>6, <3>2, <3>3, Zenon
  <2>. HIDE DEF s, m, f
  <2>3. s[m][1] = f /\ s[m][2] = line[s[m][1]].len BY <2>2
  <2>4. \A i \in (m + 1)..Len(s) : s[m][1] < s[i][1] BY <1>0, <2>1, <2>2, <2>3, BehindFrame
  <2>5. ASSUME NEW i \in 1..Len(tty) PROVE f < tty[i][1]
    <3>1. m + i \in (m + 1)..Len(s) /\ s[m + i] = tty[i] BY <1>3 DEF m, s
    <3>2. s[m][1] < s[m + i][1] BY <2>4, <3>1, Zenon
    <3>. QED BY <2>3, <3>1, <3>2
  <2>. QED BY <2>5
<1>8. \A k \in 1..n : reports[k].bytes[1][1] < f
  <2>1. (buf \o tty)[1] = buf[1] /\ 1 \in 1..Len(buf \o tty) BY <1>3, <1>5
  <2>2. \A k \in 1..n : \A i \in 1..Len(buf \o tty) : reports[k].bytes[1][1] < (buf \o tty)[i][1]
    BY DEF IInv, ReportInv
  <2>. QED BY <2>1, <2>2
<1>9. /\ reports' = Append(reports, r) /\ Len(reports') = n + 1 /\ n \in Nat
      /\ \A k \in 1..n : reports'[k] = reports[k]
      /\ reports'[n + 1] = r /\ r.text = Message(buf) /\ r.bytes = buf
  <2>1. r.text = Message(buf) /\ r.bytes = buf OBVIOUS
  <2>. HIDE DEF r
  <2>2. reports' = Append(reports, r) BY DEF r
  <2>. QED BY <1>0, <2>1, <2>2
<1>. HIDE DEF r, n, f
<1>10. \A k \in 1..(n + 1) : k \in 1..n \/ k = n + 1 BY <1>9
<1>11. ASSUME NEW k \in 1..Len(reports')
       PROVE  /\ reports'[k].text = Message(reports'[k].bytes) /\ Whole(line, reports'[k].bytes)
              /\ \A i \in 1..Len(tty) : reports'[k].bytes[1][1] < tty[i][1]
  <2>1. CASE k \in 1..n
    <3>1. reports[k].text = Message(reports[k].bytes) /\ Whole(line, reports[k].bytes)
      BY <2>1 DEF IInv, ReportInv, n
    <3>. QED BY <1>2, <1>9, <2>1, <3>1
  <2>2. CASE k = n + 1 BY <1>1, <1>7, <1>9, <2>2 DEF f
  <2>. QED BY <1>9, <1>10, <2>1, <2>2
<1>12. ASSUME NEW i \in 1..Len(reports'), NEW j \in 1..Len(reports'), i < j
       PROVE  reports'[i].bytes[1][1] < reports'[j].bytes[1][1]
  <2>1. CASE j \in 1..n
    <3>1. i \in 1..n BY <1>9, <1>12, <2>1
    <3>2. reports[i].bytes[1][1] < reports[j].bytes[1][1] BY <1>12, <2>1, <3>1 DEF IInv, ReportInv, n
    <3>. QED BY <1>9, <2>1, <3>1, <3>2
  <2>2. CASE j = n + 1
    <3>1. i \in 1..n BY <1>9, <1>12, <2>2
    <3>2. reports[i].bytes[1][1] < f BY <1>8, <3>1
    <3>. QED BY <1>9, <2>2, <3>1, <3>2 DEF f
  <2>. QED BY <1>9, <1>10, <2>1, <2>2
<1>13. buf' \o tty' = tty BY <1>0, NothingThere
<1>. QED BY <1>11, <1>12, <1>13 DEF ReportInv

-----------------------------------------------------------------------------
(* The steps                                                               *)

\* The conjuncts of the invariant that a step need not mention.
LEMMA Kept ==
  ASSUME IInv
  PROVE  /\ line \in Seq(Frames) /\ buf \in Bytes /\ tty \in Bytes
         /\ pc \in {"down", "connect", "mac", "serial", "receive", "publish"}
         /\ link \in {"none", "lost", "wait", "up", "subscribed"}
         /\ reports \in Seq(Report) /\ wire \in Seq(Writing)
         /\ inbox \in Seq(Orderly) /\ asked \in 0..MaxCommands
         /\ faults \in 0..MaxFaults /\ MaxFaults \in Nat /\ MaxCommands \in Nat /\ stopped \in BOOLEAN
         /\ Ordered(line, buf \o tty) /\ Len(buf) =< BufferSize
         /\ ~PortOpen => buf = <<>> /\ tty = <<>>
  BY BoundsAssumption DEF IInv, Types, StreamInv

\* What may fail uses up a fault.
LEMMA FaultStep == ASSUME IInv, Fails \/ Fine PROVE faults' \in 0..MaxFaults
<1>1. faults \in 0..MaxFaults /\ MaxFaults \in Nat BY Kept
<1>2. CASE Fails BY <1>1, <1>2 DEF Fails
<1>3. CASE Fine BY <1>1, <1>3 DEF Fine
<1>. QED BY <1>2, <1>3

\* Main starts up, or ends.
LEMMA StartKeeps ==
  ASSUME IInv, Start \/ mqtt_init \/ get_mac_address \/ serial_init
  PROVE  IInv'
<1>1. UNCHANGED <<line, reports, asked, wire>> /\ (Fails \/ Fine)
  BY DEF Start, mqtt_init, get_mac_address, serial_init, serialVars, brokerVars
<1>2. faults' \in 0..MaxFaults BY <1>1, FaultStep
<1>3. CASE Exit
  <2>1. StreamInv' /\ ReportInv' /\ buf' \in Bytes /\ tty' \in Bytes /\ inbox' \in Seq(Orderly)
    BY <1>1, <1>3, ExitStep
  <2>2. pc' = "down" /\ link' = "none" /\ stopped' = FALSE BY <1>3 DEF Exit
  <2>3. Types' BY <1>1, <1>2, <2>1, <2>2, Kept DEF Types
  <2>. QED BY <2>1, <2>3 DEF IInv
<1>4. CASE ~Exit
  <2>1. UNCHANGED <<tty, stopped, buf, inbox>> /\ link' \in {link, "wait"}
        /\ pc' \in {"connect", "mac", "serial", "receive"}
        /\ pc \in {"down", "connect", "mac", "serial"}
    BY <1>4 DEF Start, mqtt_init, get_mac_address, serial_init, serialVars, brokerVars
  <2>2. StreamInv' /\ ReportInv' BY <1>1, <2>1, StreamStays DEF PortOpen
  <2>3. Types' BY <1>1, <1>2, <2>1, Kept DEF Types
  <2>. QED BY <2>2, <2>3 DEF IInv
<1>. QED BY <1>3, <1>4

\* Main receives a byte, hears nothing for a second, or cannot receive.
LEMMA ReceiveKeeps ==
  ASSUME IInv, ReceiveByte \/ Silence \/ ReceiveFails
  PROVE  IInv'
<1>. DEFINE bytes == Append(buf, Head(tty))
<1>1. UNCHANGED <<line, stopped, reports, broker, link, inbox, asked, wire>> /\ (Fails \/ Fine)
      /\ pc = "receive"
  BY DEF ReceiveByte, Silence, ReceiveFails, brokerVars
<1>2. faults' \in 0..MaxFaults BY <1>1, FaultStep
<1>3. StreamInv' /\ ReportInv' /\ buf' \in Bytes /\ pc' \in {"receive", "publish"} /\ tty' \in Bytes
  <2>1. CASE ReceiveByte
    <3>1. tty # <<>> /\ tty' = Tail(tty) BY <2>1 DEF ReceiveByte
    <3>2. buf \in Seq(Nat \X Nat) /\ tty \in Seq(Nat \X Nat) BY Kept DEF Bytes
    <3>. DEFINE X == Nat \X Nat
    <3>3. bytes \in Seq(X) /\ tty' \in Seq(X) /\ bytes # <<>> /\ bytes \o tty' = buf \o tty
      <4>1. buf \in Seq(X) /\ tty \in Seq(X) BY <3>2
      <4>. HIDE DEF X
      <4>2. /\ Append(buf, Head(tty)) \in Seq(X) /\ Tail(tty) \in Seq(X) /\ Append(buf, Head(tty)) # <<>>
            /\ Append(buf, Head(tty)) \o Tail(tty) = buf \o tty
        BY <3>1, <4>1, ByteMoves, Zenon
      <4>. QED BY <3>1, <4>2, Zenon
    <3>4. Len(bytes) = BufferSize \/ Len(bytes) < BufferSize \/ Len(bytes) \in MinLength..(BufferSize - 1)
      BY <2>1, Zenon DEF ReceiveByte
    <3>5. Received(bytes) \/ (buf' = bytes /\ pc' = pc) BY <2>1 DEF ReceiveByte
    <3>. HIDE DEF bytes
    <3>6. Len(bytes) =< BufferSize
      <4>. DEFINE n == Len(bytes)
      <4>1. n \in Nat BY <3>3
      <4>2. n = BufferSize \/ n < BufferSize \/ n \in MinLength..(BufferSize - 1) BY <3>4
      <4>. HIDE DEF n
      <4>3. n =< BufferSize BY <4>1, <4>2 DEF BufferSize, MinLength
      <4>. QED BY <4>3 DEF n
    <3>7. bytes \in Bytes /\ tty' \in Bytes BY <3>3 DEF Bytes
    <3>. QED BY <1>1, <3>3, <3>5, <3>6, <3>7, ReceivedStep
  <2>2. CASE Silence
    <3>1. tty = <<>> /\ tty' = tty /\ buf # <<>> /\ Received(buf) BY <2>2 DEF Silence
    <3>2. buf \in Bytes /\ tty' \in Bytes /\ Len(buf) =< BufferSize BY <3>1, Kept
    <3>. QED BY <1>1, <3>1, <3>2, ReceivedStep
  <2>3. CASE ReceiveFails
    <3>1. tty' = tty /\ buf # <<>> BY <2>3 DEF ReceiveFails
    <3>2. buf \in Bytes /\ tty \in Bytes /\ Len(buf) =< BufferSize BY Kept
    <3>3. CASE Received(buf) BY <1>1, <3>1, <3>2, <3>3, ReceivedStep
    <3>4. CASE ~Received(buf)
      <4>1. buf' = <<>> /\ pc' = "receive" BY <1>1, <2>3, <3>4 DEF ReceiveFails
      <4>2. buf' \in Bytes /\ tty' \in Bytes /\ Len(<<>>) = 0 BY <3>1, <3>2, <4>1, NothingThere
      <4>3. buf \o tty = buf \o (buf' \o tty') BY <3>1, <3>2, <4>1, NothingThere
      <4>4. Ordered(line, buf' \o tty') /\ ReportInv' BY <1>1, <3>2, <4>2, <4>3, StreamDrops
      <4>5. StreamInv' BY <1>1, <4>1, <4>2, <4>4 DEF StreamInv, PortOpen, BufferSize
      <4>. QED BY <4>1, <4>2, <4>4, <4>5
    <3>. QED BY <3>3, <3>4
  <2>. QED BY <2>1, <2>2, <2>3
<1>4. Types' BY <1>1, <1>2, <1>3, Kept DEF Types
<1>. QED BY <1>3, <1>4 DEF IInv

\* Main publishes, or cannot.
LEMMA PublishKeeps == ASSUME IInv, mqtt_publish PROVE IInv'
<1>1. UNCHANGED <<line, tty, stopped, broker, link, inbox, asked, wire>> /\ Fine
      /\ pc = "publish" /\ pc' = "receive" /\ buf' = <<>>
  BY DEF mqtt_publish, brokerVars
<1>2. faults' \in 0..MaxFaults BY <1>1, FaultStep
<1>3. buf \in Bytes /\ tty \in Bytes /\ reports \in Seq(Report) BY Kept
<1>4. buf' \in Bytes /\ Len(<<>>) = 0 BY <1>1, NothingThere
<1>5. buf \o tty = buf \o (buf' \o tty') BY <1>1, <1>3, NothingThere
<1>6. StreamInv'
  <2>1. Ordered(line, tty) BY <1>3, Dropped
  <2>2. buf' \o tty' = tty BY <1>1, <1>3, NothingThere
  <2>. QED BY <1>1, <1>4, <2>1, <2>2 DEF StreamInv, PortOpen, BufferSize
<1>7. ReportInv' /\ reports' \in Seq(Report)
  <2>1. CASE reports' = Append(reports, [text |-> Message(buf), bytes |-> buf])
    <3>1. [text |-> Message(buf), bytes |-> buf] \in Report BY <1>3 DEF Report
    <3>2. reports' \in Seq(Report) BY <1>3, <2>1, <3>1, AppendProperties
    <3>3. ReportInv' BY <1>1, <2>1, ReportStep
    <3>. QED BY <3>2, <3>3
  <2>2. CASE UNCHANGED reports
    <3>1. ReportInv' BY <1>1, <1>3, <1>4, <1>5, <2>2, StreamDrops
    <3>. QED BY <1>3, <2>2, <3>1
  <2>. QED BY <2>1, <2>2 DEF mqtt_publish
<1>8. Types' BY <1>1, <1>2, <1>3, <1>4, <1>7, Kept DEF Types
<1>. QED BY <1>6, <1>7, <1>8 DEF IInv

\* The MQTT thread connects, or ends the process.
LEMMA ConnectKeeps == ASSUME IInv, Reconnect \/ on_connect PROVE IInv'
<1>1. UNCHANGED <<line, reports, asked, wire>> /\ (Fails \/ Fine)
  BY DEF Reconnect, on_connect, serialVars
<1>2. faults' \in 0..MaxFaults BY <1>1, FaultStep
<1>3. CASE Exit
  <2>1. StreamInv' /\ ReportInv' /\ buf' \in Bytes /\ tty' \in Bytes /\ inbox' \in Seq(Orderly)
    BY <1>1, <1>3, ExitStep
  <2>2. pc' = "down" /\ link' = "none" /\ stopped' = FALSE BY <1>3 DEF Exit
  <2>3. Types' BY <1>1, <1>2, <2>1, <2>2, Kept DEF Types
  <2>. QED BY <2>1, <2>3 DEF IInv
<1>4. CASE ~Exit
  <2>1. UNCHANGED <<tty, stopped, buf, pc, inbox>> /\ link' \in {"wait", "up"}
    BY <1>4 DEF Reconnect, on_connect, serialVars
  <2>2. StreamInv' /\ ReportInv' BY <1>1, <2>1, Kept, StreamStays DEF PortOpen
  <2>3. Types' BY <1>1, <1>2, <2>1, Kept DEF Types
  <2>. QED BY <2>2, <2>3 DEF IInv
<1>. QED BY <1>3, <1>4

\* What on_message writes, if it does: for the command that comes next the beginning
\* of what the program makes of it, and all of it or the port is full.
LEMMA WritingStep ==
  ASSUME IInv, on_message
  PROVE  /\ Head(inbox) \in Orderly /\ inbox' = Tail(inbox) /\ inbox' \in Seq(Orderly)
         /\ wire' # wire =>
              LET order == Orders[Head(inbox)[2]]
              IN \E taken \in 0..Len(order) : wire' = Written(order, taken)
<1>1. inbox \in Seq(Orderly) /\ inbox # <<>> /\ inbox' = Tail(inbox) BY Kept DEF on_message
<1>. DEFINE p == Head(inbox)[2]
            order == Orders[p]
<1>2. Head(inbox) \in Orderly /\ Tail(inbox) \in Seq(Orderly)
  <2>. HIDE DEF Orderly
  <2>. QED BY <1>1
<1>3. p \in 1..6 BY <1>2 DEF Orderly
<1>4. order \in Seq(Nat) BY <1>3, OrdersMeant
<1>5. ASSUME wire' # wire PROVE \E taken \in 0..Len(order) : wire' = Written(order, taken)
  <2>1. wire' = Written(order, Len(order))
        \/ \E taken \in 0..(Len(order) - 1) : wire' = Written(order, taken)
    BY <1>5 DEF on_message
  <2>. HIDE DEF order, p
  <2>2. Len(order) \in Nat BY <1>4
  <2>. QED BY <2>1, <2>2
<1>. QED BY <1>1, <1>2, <1>5

\* The MQTT thread takes a command.
LEMMA MessageKeeps == ASSUME IInv, on_message PROVE IInv'
<1>1. UNCHANGED <<line, tty, stopped, buf, pc, reports, link, asked>> /\ (Fails \/ Fine)
  BY DEF on_message, serialVars
<1>2. faults' \in 0..MaxFaults BY <1>1, FaultStep
<1>3. StreamInv' /\ ReportInv' BY <1>1, Kept, StreamStays DEF PortOpen
<1>4. Head(inbox) \in Orderly /\ inbox' \in Seq(Orderly) BY WritingStep
<1>5. wire' \in Seq(Writing)
  <2>1. CASE wire' = wire BY <2>1, Kept
  <2>2. CASE wire' # wire
    <3>. DEFINE order == Orders[Head(inbox)[2]]
    <3>1. PICK taken \in 0..Len(order) : wire' = Written(order, taken) BY <2>2, WritingStep
    <3>2. Head(inbox)[1] \in 1..MaxCommands /\ Head(inbox)[2] \in 1..6 BY <1>4 DEF Orderly
    <3>3. order \in Seq(Nat) BY <3>2, OrdersMeant
    <3>. HIDE DEF order
    <3>4. SubSeq(order, 1, taken) \in Seq(Nat) /\ (taken < Len(order)) \in BOOLEAN BY <3>1, <3>3
    <3>. DEFINE w == [number |-> Head(inbox)[1], bytes |-> SubSeq(order, 1, taken),
                      full |-> taken < Len(order)]
    <3>5. w \in Writing BY <3>2, <3>4 DEF Writing
    <3>6. wire' = Append(wire, w) BY <3>1 DEF Written
    <3>. HIDE DEF w
    <3>7. wire \in Seq(Writing) BY Kept
    <3>. QED BY <3>5, <3>6, <3>7, AppendProperties
  <2>. QED BY <2>1, <2>2
<1>6. Types' BY <1>1, <1>2, <1>4, <1>5, Kept DEF Types
<1>. QED BY <1>3, <1>6 DEF IInv

\* The port behind the buffer, and a frame behind both.
LEMMA Regroup ==
  ASSUME NEW T, NEW a \in Seq(T), NEW b \in Seq(T), NEW c \in Seq(T)
  PROVE  a \o (b \o c) = (a \o b) \o c
BY ConcatAssociative

\* A device sends a frame.
LEMMA FrameKeeps == ASSUME IInv, SendFrame PROVE IInv'
<1>1. UNCHANGED <<pc, buf, reports, broker, link, inbox, asked, wire>> /\ Fine
  BY DEF SendFrame, brokerVars
<1>2. faults' \in 0..MaxFaults BY <1>1, FaultStep
<1>3. PICK frame \in Frames :
        /\ line' = Append(line, frame)
        /\ tty' = IF PortOpen THEN tty \o [i \in 1..frame.len |-> <<Len(line) + 1, i>>] ELSE tty
        /\ stopped' = (PortOpen /\ StoppedBy(frame))
  BY DEF SendFrame
<1>. DEFINE f == Len(line) + 1
            b == BytesOf(line', f)
            s == buf \o tty
<1>4. line \in Seq(Frames) /\ buf \in Bytes /\ tty \in Bytes /\ Ordered(line, s) BY Kept
<1>5. /\ line' \in Seq(Frames) /\ Len(line') = f /\ f \in Nat /\ line'[f] = frame
      /\ \A g \in 1..Len(line) : line'[g] = line[g] /\ g \in 1..Len(line') /\ g < f
  <2>1. line' \in Seq(Frames) /\ Len(line') = f /\ line'[f] = frame BY <1>3, <1>4, AppendProperties, Zenon
  <2>2. \A g \in 1..Len(line) : line'[g] = line[g] BY <1>3, <1>4
  <2>3. Len(line) \in Nat BY <1>4
  <2>. QED BY <2>1, <2>2, <2>3
<1>6. s \in Bytes BY <1>4 DEF Bytes
<1>7. b \in Bytes /\ Ordered(line', s \o b)
  <2>. HIDE DEF s
  <2>. QED BY <1>3, <1>4, <1>6, FrameOrdered, Zenon
<1>8. b = [i \in 1..frame.len |-> <<f, i>>] BY <1>5 DEF BytesOf
<1>9. \A bytes : Whole(line, bytes) => Whole(line', bytes)
  <2>. SUFFICES ASSUME NEW bytes, Whole(line, bytes) PROVE Whole(line', bytes)
    OBVIOUS
  <2>. QED BY <1>5 DEF Whole, BytesOf
<1>10. \A k \in 1..Len(reports) : reports[k].bytes[1][1] < f
  <2>. SUFFICES ASSUME NEW k \in 1..Len(reports) PROVE reports[k].bytes[1][1] < f
    OBVIOUS
  <2>1. Whole(line, reports[k].bytes) BY DEF IInv, ReportInv
  <2>. QED BY <1>5, <2>1 DEF Whole
<1>11. /\ buf' \o tty' \in {s, s \o b} /\ tty' \in Bytes /\ Ordered(line', buf' \o tty')
       /\ ~PortOpen => buf' = <<>> /\ tty' = <<>>
  <2>1. CASE PortOpen
    <3>1. tty' = tty \o b BY <1>3, <1>8, <2>1
    <3>2. buf \in Seq(Nat \X Nat) /\ tty \in Seq(Nat \X Nat) /\ b \in Seq(Nat \X Nat) BY <1>4, <1>7 DEF Bytes
    <3>. HIDE DEF b
    <3>3. buf \o (tty \o b) = s \o b
      <4>. DEFINE X == Nat \X Nat
      <4>1. buf \in Seq(X) /\ tty \in Seq(X) /\ b \in Seq(X) BY <3>2
      <4>. HIDE DEF X
      <4>. QED BY <4>1, Regroup
    <3>4. tty \o b \in Seq(Nat \X Nat) BY <3>2, Parts
    <3>5. tty' \in Bytes BY <3>1, <3>4 DEF Bytes
    <3>. QED BY <1>1, <1>7, <2>1, <3>1, <3>3, <3>5
  <2>2. CASE ~PortOpen
    <3>1. tty' = tty /\ buf' = buf /\ buf = <<>> /\ tty = <<>> BY <1>1, <1>3, <2>2, Kept
    <3>2. s = <<>> BY <3>1, NothingThere
    <3>. QED BY <1>4, <3>1, <3>2, NothingThere
  <2>. QED BY <2>1, <2>2
<1>. HIDE DEF s, b, f
<1>12. StreamInv'
  <2>1. Len(buf') =< BufferSize /\ (pc = "publish" => Whole(line, buf)) BY <1>1 DEF IInv, StreamInv
  <2>. QED BY <1>1, <1>9, <1>11, <2>1 DEF StreamInv, PortOpen
<1>13. ASSUME NEW k \in 1..Len(reports), NEW i \in 1..Len(buf' \o tty')
       PROVE  reports[k].bytes[1][1] < (buf' \o tty')[i][1]
  <2>1. \A j \in 1..Len(s) : reports[k].bytes[1][1] < s[j][1] BY DEF IInv, ReportInv, s
  <2>2. CASE buf' \o tty' = s BY <2>1, <2>2
  <2>3. CASE buf' \o tty' = s \o b
    <3>1. s \in Seq(Nat \X Nat) /\ b \in Seq(Nat \X Nat) BY <1>6, <1>7 DEF Bytes
    <3>2. /\ Len(s \o b) = Len(s) + Len(b) /\ Len(s) \in Nat /\ Len(b) \in Nat
          /\ \A j \in 1..Len(s) : (s \o b)[j] = s[j]
          /\ \A j \in 1..Len(b) : (s \o b)[Len(s) + j] = b[j]
      BY <3>1, Parts
    <3>3. CASE i \in 1..Len(s) BY <2>1, <2>3, <3>2, <3>3
    <3>4. CASE i \notin 1..Len(s)
      <4>1. i - Len(s) \in 1..Len(b) /\ i = Len(s) + (i - Len(s)) BY <2>3, <3>2, <3>4
      <4>2. (s \o b)[i] = b[i - Len(s)] BY <3>2, <4>1
      <4>3. \A j \in 1..Len(b) : b[j] = <<f, j>>
        <5>1. frame.len \in Nat BY <1>5, FrameLength DEF f
        <5>2. Len(b) = frame.len BY <1>8, <5>1
        <5>. QED BY <1>8, <5>2
      <4>4. (buf' \o tty')[i][1] = f BY <2>3, <4>1, <4>2, <4>3
      <4>. QED BY <1>10, <4>4
    <3>. QED BY <3>3, <3>4
  <2>. QED BY <1>11, <2>2, <2>3
<1>14. ReportInv'
  <2>1. /\ \A k \in 1..Len(reports) :
             reports[k].text = Message(reports[k].bytes) /\ Whole(line, reports[k].bytes)
        /\ \A i, j \in 1..Len(reports) : i < j => reports[i].bytes[1][1] < reports[j].bytes[1][1]
    BY DEF IInv, ReportInv
  <2>. QED BY <1>1, <1>9, <1>13, <2>1 DEF ReportInv
<1>15. Types'
  <2>1. stopped' \in BOOLEAN BY <1>3
  <2>. QED BY <1>1, <1>2, <1>5, <1>11, <2>1, Kept DEF Types
<1>. QED BY <1>12, <1>14, <1>15 DEF IInv

\* The broker sends a command on, accepts the subscription, goes and comes back.
LEMMA BrokerKeeps ==
  ASSUME IInv, Command \/ Subscribed \/ BrokerDown \/ BrokerUp
  PROVE  IInv'
<1>1. UNCHANGED <<line, tty, stopped, buf, pc, reports, wire>> /\ (Fails \/ Fine)
  BY DEF Command, Subscribed, BrokerDown, BrokerUp, serialVars
<1>2. faults' \in 0..MaxFaults BY <1>1, FaultStep
<1>3. StreamInv' /\ ReportInv' BY <1>1, Kept, StreamStays DEF PortOpen
<1>4. link' \in {link, "lost", "subscribed"} BY DEF Command, Subscribed, BrokerDown, BrokerUp
<1>5. asked' \in 0..MaxCommands /\ inbox' \in Seq(Orderly)
  <2>1. CASE Command
    <3>1. PICK p \in DOMAIN Payloads :
            inbox' = IF link = "subscribed" THEN Append(inbox, <<asked', p>>) ELSE inbox
      BY <2>1 DEF Command
    <3>2. asked' = asked + 1 /\ asked < MaxCommands BY <2>1 DEF Command
    <3>3. asked' \in 1..MaxCommands BY <3>2, Kept
    <3>4. p \in 1..6 BY <3>1, OrdersMeant
    <3>5. <<asked', p>> \in Orderly BY <3>3, <3>4 DEF Orderly
    <3>. DEFINE c == <<asked', p>>
    <3>6. inbox' = Append(inbox, c) \/ inbox' = inbox BY <3>1
    <3>. HIDE DEF c
    <3>7. c \in Orderly /\ inbox \in Seq(Orderly) BY <3>5, Kept DEF c
    <3>8. Append(inbox, c) \in Seq(Orderly) BY <3>7, AppendProperties
    <3>. QED BY <3>3, <3>6, <3>7, <3>8
  <2>2. CASE BrokerDown
    <3>1. inbox' = <<>> /\ asked' = asked BY <2>2 DEF BrokerDown
    <3>2. <<>> \in Seq(Orderly) OBVIOUS
    <3>. QED BY <3>1, <3>2, Kept
  <2>3. CASE Subscribed \/ BrokerUp
    <3>1. inbox' = inbox /\ asked' = asked BY <2>3 DEF Subscribed, BrokerUp
    <3>. QED BY <3>1, Kept
  <2>. QED BY <2>1, <2>2, <2>3
<1>6. Types' BY <1>1, <1>2, <1>4, <1>5, Kept DEF Types
<1>. QED BY <1>3, <1>6 DEF IInv

\* Nothing has been sent yet.
LEMMA InitIInv == ASSUME Init PROVE IInv
<1>. USE DEF Init
<1>1. <<>> \in Bytes /\ <<>> \o <<>> = <<>> /\ Ordered(line, <<>>) /\ Len(<<>>) = 0
  BY NothingThere
<1>2. Types
  <2>1. MaxFaults \in Nat /\ MaxCommands \in Nat BY BoundsAssumption
  <2>2. stopped \in BOOLEAN BY Zenon
  <2>. HIDE DEF Init
  <2>3. /\ line = <<>> /\ tty = <<>> /\ pc = "down" /\ buf = <<>> /\ reports = <<>>
        /\ link = "none" /\ inbox = <<>> /\ asked = 0 /\ wire = <<>> /\ faults = MaxFaults
    BY DEF Init
  <2>. QED BY <1>1, <2>1, <2>2, <2>3 DEF Types
<1>3. StreamInv BY <1>1 DEF StreamInv, BufferSize, PortOpen
<1>4. ReportInv BY DEF ReportInv
<1>. QED BY <1>2, <1>3, <1>4 DEF IInv

\* Every step keeps the inductive invariant.
LEMMA NextIInv == ASSUME IInv, [Next]_vars PROVE IInv'
<1>1. CASE UNCHANGED vars
  <2>1. StreamInv' /\ ReportInv' BY <1>1, Kept, StreamStays DEF vars, PortOpen
  <2>2. Types' BY <1>1, Kept DEF vars, Types
  <2>. QED BY <2>1, <2>2 DEF IInv
<1>2. CASE Main BY <1>2, StartKeeps, ReceiveKeeps, PublishKeeps DEF Main
<1>3. CASE Mosquitto BY <1>3, ConnectKeeps, MessageKeeps DEF Mosquitto
<1>4. CASE SendFrame \/ Command \/ Subscribed \/ BrokerDown \/ BrokerUp
  BY <1>4, FrameKeeps, BrokerKeeps
<1>. QED BY <1>1, <1>2, <1>3, <1>4 DEF Next

-----------------------------------------------------------------------------
(* The theorems                                                            *)

\* The inductive invariant holds, for any frames, commands and faults.
THEOREM Invariance == Spec => []IInv
<1>1. Init => IInv BY InitIInv
<1>2. IInv /\ [Next]_vars => IInv' BY NextIInv
<1>. QED BY <1>1, <1>2, PTL DEF Spec

\* serial_receive_modbus: buf never holds more than it has room for, and what is in it
\* and in the port is what the port has passed on, in order and without a gap.
THEOREM TypeCorrect == Spec => []TypeOK
<1>1. ASSUME IInv PROVE TypeOK
  <2>. DEFINE s == buf \o tty
  <2>1. \A i \in 1..(Len(s) - 1) : Follow(line, s[i], s[i + 1])
    BY <1>1, Zenon DEF IInv, StreamInv, Ordered, s
  <2>. HIDE DEF s
  <2>2. InOrder(s) BY <2>1 DEF InOrder, Follow
  <2>. QED BY <1>1, <2>2, Kept DEF TypeOK, s
<1>. QED BY <1>1, Invariance, PTL

\* mqtt_publish and check_modbus_rtu_format: whatever runs together in the buffer, a
\* reader of what is published finds in it all of one good frame of the line, and the
\* frames come in the order of the line, each of them once.
THEOREM ReportsCorrect == Spec => []ReportsAreFrames
<1>1. ASSUME IInv PROVE ReportsAreFrames
  <2>1. reports \in Seq(Report) /\ DOMAIN reports = 1..Len(reports) BY <1>1, Kept, LenProperties
  <2>2. ASSUME NEW r \in ToSet(reports), Len(r.bytes) =< Room
        PROVE  MsgOf(cJSON_ParseWithOpts(r.text, TRUE)) = FrameBytes(r.bytes[1][1])
    <3>1. PICK k \in 1..Len(reports) : r = reports[k] BY <2>1 DEF ToSet
    <3>2. reports[k] \in Report BY <2>1, ElementOfSeq, Zenon
    <3>3. r.bytes \in Bytes BY <3>1, <3>2 DEF Report
    <3>4. r.text = Message(r.bytes) /\ Whole(line, r.bytes) BY <1>1, <3>1 DEF IInv, ReportInv
    <3>5. MsgOf(cJSON_ParseWithOpts(Message(r.bytes), TRUE)) = r.bytes
      BY <2>2, <3>3, MessageRead, Zenon DEF Bytes
    <3>6. r.bytes = FrameBytes(r.bytes[1][1]) BY <3>4 DEF Whole, BytesOf, FrameBytes
    <3>. QED BY <3>4, <3>5, <3>6
  <2>3. \A i, j \in DOMAIN reports : i < j => reports[i].bytes[1][1] < reports[j].bytes[1][1]
    BY <1>1, <2>1 DEF IInv, ReportInv
  <2>. QED BY <2>2, <2>3 DEF ReportsAreFrames
<1>. QED BY <1>1, Invariance, PTL

\* on_message, hex_to_bytes and serial_send_hex: nothing goes to the port but for the
\* command that comes next.  If that is made of digits, it is what its sender means, or
\* the beginning of it: as much as a full port takes, or as bytes[] holds.
THEOREM OnlyMeant == Spec => OnlyMeantIsWritten
<1>. DEFINE A == wire' # wire =>
       /\ inbox' = Tail(inbox) /\ Front(wire') = wire /\ Last(wire').number = Head(inbox)[1]
       /\ Digits(Head(inbox)) => WrittenFor(Head(inbox), Last(wire'))
<1>1. IInv /\ [Next]_vars => [A]_vars
  <2>. SUFFICES ASSUME IInv, Next, wire' # wire PROVE A
    BY DEF vars
  <2>1. on_message
    BY DEF Next, Main, Mosquitto, Start, mqtt_init, get_mac_address, serial_init, ReceiveByte, Silence,
           ReceiveFails, mqtt_publish, Reconnect, on_connect, SendFrame, Command, Subscribed,
           BrokerDown, BrokerUp
  <2>. DEFINE c == Head(inbox)
              order == Orders[c[2]]
  <2>2. PICK taken \in 0..Len(order) : wire' = Written(order, taken) BY <2>1, WritingStep, Zenon
  <2>3. c \in Orderly /\ inbox' = Tail(inbox) BY <2>1, WritingStep
  <2>4. c[2] \in 1..6 BY <2>3 DEF Orderly
  <2>5. order \in Seq(Nat) /\ (Digits(c) => Read(order, Meant(c))) BY <2>4, OrdersMeant DEF Digits, Meant
  <2>. DEFINE w == [number |-> c[1], bytes |-> SubSeq(order, 1, taken), full |-> taken < Len(order)]
  <2>6. w.number = c[1] /\ w.bytes = SubSeq(order, 1, taken) /\ w.full = (taken < Len(order))
    OBVIOUS
  <2>7. wire' = Append(wire, w) BY <2>2 DEF Written
  <2>. HIDE DEF w, order, c
  <2>8. Front(wire') = wire /\ Last(wire') = w
    <3>1. wire \in Seq(Writing) BY Kept
    <3>2. Len(wire') = Len(wire) + 1 /\ wire'[Len(wire) + 1] = w /\ Len(wire) \in Nat BY <2>7, <3>1
    <3>3. SubSeq(wire', 1, Len(wire)) = wire BY <2>7, <3>1
    <3>. QED BY <3>2, <3>3 DEF Front, Last
  <2>9. ASSUME Digits(c) PROVE WrittenFor(c, w)
    <3>1. taken \in 0..Len(order) /\ Len(order) \in Nat BY <2>2, <2>5
    <3>2. Read(order, Meant(c)) /\ Meant(c) \in Seq(Nat) BY <2>5, <2>9 DEF Read
    <3>3. IsPrefix(w.bytes, Meant(c)) BY <2>5, <2>6, <3>1, <3>2, BeginningOf
    <3>4. taken = Len(order) => w.bytes = order BY <2>5, <2>6, <3>1
    <3>5. taken = Len(order) \/ w.full
      <4>1. taken = Len(order) \/ taken < Len(order) BY <3>1
      <4>. QED BY <2>6, <4>1, Zenon
    <3>6. order = Meant(c) \/ Len(order) = MaxBytes BY <3>2 DEF Read
    <3>. QED BY <3>3, <3>4, <3>5, <3>6 DEF WrittenFor
  <2>. QED BY <2>3, <2>6, <2>8, <2>9 DEF c
<1>. QED BY <1>1, Invariance, PTL DEF Spec, OnlyMeantIsWritten
=============================================================================
