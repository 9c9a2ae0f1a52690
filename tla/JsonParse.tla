----------------------------- MODULE JsonParse ------------------------------
(***************************************************************************)
(* cJSON's recursive descent parser (cJSON.c) over tokens.  One function   *)
(* reads for all of them: what a call of parse_value, or of the loop over  *)
(* the elements or the members of a list, returns.                         *)
(***************************************************************************)
EXTENDS Integers, Sequences

P(c) == [t |-> c]                         \* brackets, braces, comma, colon and literals
S(s) == [t |-> "string", val |-> s]       \* s a sequence of bytes
N(n) == [t |-> "number", val |-> <<n>>]
NUL == P("NUL")
At(text, i) == IF i \in DOMAIN text THEN text[i] ELSE NUL

NestingLimit == 3                         \* CJSON_NESTING_LIMIT, scaled down

\* at is where the buffer's offset is left.
Parsed(at, val) == [ok |-> TRUE, at |-> at, val |-> val]
Failed(at) == [ok |-> FALSE, at |-> at, val |-> P("invalid")]

\* The calls that reading a text may come to: the token they start at and the depth.
Call(what, at, depth) == [what |-> what, at |-> at, depth |-> depth]
Calls(text) == [what : {"value", "elements", "members"}, at : 1..(Len(text) + 1), depth : 0..NestingLimit]

List(t, items) == [t |-> t, items |-> items]

\* An array, or an object: empty, or what the loop over its parts returns.
parse_list(text, read, i, depth, t, close, parts) ==
  CASE depth >= NestingLimit -> Failed(i)
    [] depth < NestingLimit /\ At(text, i + 1).t = close -> Parsed(i + 2, List(t, <<>>))
    [] OTHER -> read[Call(parts, i + 1, depth + 1)]
parse_array(text, read, i, depth) == parse_list(text, read, i, depth, "array", "rbrack", "elements")
parse_object(text, read, i, depth) == parse_list(text, read, i, depth, "object", "rbrace", "members")

\* A part of a list whose value is v: the next ones follow, the end, or neither.
Linked(text, read, depth, t, close, parts, v, item) ==
  LET rest == read[Call(parts, v.at + 1, depth)]
  IN CASE v.ok /\ At(text, v.at).t = "comma" ->
            IF rest.ok THEN Parsed(rest.at, List(t, <<item>> \o rest.val.items)) ELSE rest
       [] v.ok /\ At(text, v.at).t = close -> Parsed(v.at + 1, List(t, <<item>>))
       [] OTHER -> Failed(v.at)

elements(text, read, i, depth) ==
  LET v == read[Call("value", i, depth)]
  IN Linked(text, read, depth, "array", "rbrack", "elements", v, v.val)

members(text, read, i, depth) ==
  LET v == read[Call("value", i + 2, depth)]
  IN IF At(text, i).t # "string" \/ At(text, i + 1).t # "colon" THEN Failed(i)
     ELSE Linked(text, read, depth, "object", "rbrace", "members", v,
                 [string |-> At(text, i).val, item |-> v.val])

parse_value(text, read, i, depth) ==
  LET tok == At(text, i)
  IN CASE tok.t \in {"null", "true", "false", "string", "number"} -> Parsed(i + 1, tok)
       [] tok.t = "lbrack" -> parse_array(text, read, i, depth)
       [] tok.t = "lbrace" -> parse_object(text, read, i, depth)
       [] OTHER -> Failed(i)

Returns(text, read, call) ==
  CASE call.what = "value" -> parse_value(text, read, call.at, call.depth)
    [] call.what = "elements" -> elements(text, read, call.at, call.depth)
    [] call.what = "members" -> members(text, read, call.at, call.depth)

Reads(text) == LET read[call \in Calls(text)] == Returns(text, read, call) IN read

\* cJSON_Parse asks for no terminator: what follows the value is not looked at.
cJSON_ParseWithOpts(text, require_null_terminated) ==
  LET v == Reads(text)[Call("value", 1, 0)]
  IN IF v.ok /\ require_null_terminated /\ At(text, v.at) # NUL THEN Failed(v.at) ELSE v
cJSON_Parse(text) == cJSON_ParseWithOpts(text, FALSE)
=============================================================================
