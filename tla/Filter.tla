------------------------------- MODULE Filter -------------------------------
(***************************************************************************)
(* The filter language of the hub, IFL (internal/hub/filter.go): the       *)
(* recursive-descent parser over the lexer's tokens, its limits, and what  *)
(* its operators match.                                                    *)
(*                                                                         *)
(* A predicate is the set of the entries it accepts.  The state machine    *)
(* types an expression chunk by chunk, and every expression on the way is  *)
(* compiled; the reference is the grammar, which says what expressions     *)
(* there are and what they mean without saying how they are parsed.        *)
(* The lexer, `matches`, `startswith` and the text of the error messages   *)
(* are left out: an error is `Error`.                                      *)
(***************************************************************************)
EXTENDS Integers, Sequences, FiniteSets, SequencesExt

CONSTANTS
  Chunks,         \* token sequences an expression is typed from
  Entries,        \* records [src, dst, ip, num, text]; a value is a string
  Fold, Num, Net, \* Fold[v]: lower case; Num[v]: ParseFloat; Net[v]: the addresses of a CIDR
  Within,         \* Within[v]: the values that occur in v
  None,           \* not a number, not a CIDR
  maxFilterDepth, maxInListLen,
  MaxToks         \* bound: an expression of so many tokens is not extended

VARIABLE toks

tok(kind, val) == [kind |-> kind, val |-> val]

Literals == {"string", "number", "ident"}
Relational == {">", "<", ">=", "<="}

-----------------------------------------------------------------------------
(* What a comparison matches.                                              *)

\* The fields of the model: two of the endpoints, an address and a number.
fieldGetter(field, e) ==
  CASE field = "src.namespace" -> e.src
    [] field = "dst.namespace" -> e.dst
    [] field = "dst.ip" -> e.ip
    [] field = "l4.ttl" -> e.num

Fields == {"src.namespace", "dst.namespace", "dst.ip", "l4.ttl", "namespace"}

\* The typed accessor of a numeric field; an absent value is no number.
numericFieldGetter(e) == IF e.num = "" THEN None ELSE Num[e.num]

Ordered(op, v, w) ==
  CASE op = ">" -> v > w [] op = "<" -> v < w [] op = ">=" -> v >= w [] OTHER -> v <= w

numericValueMatcher(op, want) ==
  {e \in Entries : numericFieldGetter(e) # None /\ Ordered(op, numericFieldGetter(e), Num[want])}

EqualFold(v, w) == Fold[v] = Fold[w]

\* The values an operator matches.  An address is the only value in a CIDR.
valueMatcher(op, want) ==
  CASE op = "==" /\ Net[want] # None -> Net[want]
    [] op = "==" /\ Net[want] = None -> {v \in DOMAIN Fold : EqualFold(v, want)}
    [] op = "!=" /\ Net[want] # None -> DOMAIN Fold \ Net[want]
    [] op = "!=" /\ Net[want] = None -> {v \in DOMAIN Fold : ~EqualFold(v, want)}
    [] op = "contains" -> {v \in DOMAIN Fold : Fold[want] \in Within[Fold[v]]}
    [] op \in Relational -> {v \in DOMAIN Fold : Num[v] # None /\ Ordered(op, Num[v], Num[want])}

buildFieldPredicate(field, match) ==
  IF field = "namespace" THEN {e \in Entries : e.src \in match \/ e.dst \in match}
  ELSE {e \in Entries : fieldGetter(field, e) \in match}

\* "field op val": the set, or {} and not ok for what is refused.
Error == [ok |-> FALSE, pos |-> 0, pred |-> {}]
Parsed(pos, pred) == [ok |-> TRUE, pos |-> pos, pred |-> pred]

NamespaceIs(match) == buildFieldPredicate("namespace", match)

compare(field, op, val, pos) ==
  CASE field \notin Fields -> Error
    [] field \in Fields /\ op \in Relational /\ Num[val] = None -> Error
    [] field = "namespace" /\ op = "!=" ->
         Parsed(pos, Entries \ NamespaceIs(valueMatcher("==", val)))
    [] field = "l4.ttl" /\ op \in Relational /\ Num[val] # None ->
         Parsed(pos, numericValueMatcher(op, val))
    [] OTHER -> Parsed(pos, buildFieldPredicate(field, valueMatcher(op, val)))

\* What occurs in the text of an entry.
fulltext(e) == UNION {Within[Fold[v]] : v \in {e.ip, e.text}}

BareMatch(val) == {e \in Entries : Fold[val] \in fulltext(e)}

-----------------------------------------------------------------------------
(* The parser.  pos is the next token, d the depth of the recursion.       *)

cur(pos) == IF pos <= Len(toks) THEN toks[pos] ELSE tok("op", "")

RECURSIVE parseInList(_, _)
parseInList(pos, values) ==
  LET vs == Append(values, cur(pos).val) IN
    CASE cur(pos).kind \notin Literals \/ Len(vs) > maxInListLen -> Error
      [] cur(pos).kind \in Literals /\ Len(vs) <= maxInListLen ->
           CASE cur(pos + 1).kind = "rparen" -> Parsed(pos + 2, ToSet(vs))
             [] cur(pos + 1).kind = "comma" -> parseInList(pos + 2, vs)
             [] OTHER -> Error

parseComparison(pos) ==
  LET field == cur(pos).val
      op == cur(pos + 1).val
      list == IF cur(pos + 2).kind = "lparen" THEN parseInList(pos + 3, <<>>) ELSE Error
      In == {v \in DOMAIN Fold : \E w \in list.pred : EqualFold(v, w)}
  IN CASE op = "in" /\ list.ok /\ field \in Fields ->
            Parsed(list.pos, buildFieldPredicate(field, In))
       [] op = "in" /\ ~(list.ok /\ field \in Fields) -> Error
       [] op # "in" /\ pos + 2 > Len(toks) -> Error
       [] OTHER -> compare(field, op, cur(pos + 2).val, pos + 3)

RECURSIVE parseOr(_, _), parseUnary(_, _)

parsePrimary(pos, d) ==
  LET t == cur(pos) IN
    CASE t.kind = "lparen" ->
           LET inner == parseOr(pos + 1, d + 1)
           IN IF d + 1 > maxFilterDepth \/ ~inner.ok \/ cur(inner.pos).kind # "rparen" THEN Error
              ELSE Parsed(inner.pos + 1, inner.pred)
      [] t.kind = "ident" /\ pos < Len(toks) /\ cur(pos + 1).kind = "op" -> parseComparison(pos)
      [] t.kind = "ident" /\ ~(pos < Len(toks) /\ cur(pos + 1).kind = "op") ->
           Parsed(pos + 1, BareMatch(t.val))
      [] t.kind \in {"string", "number"} -> Parsed(pos + 1, BareMatch(t.val))
      [] OTHER -> Error

\* Mutant of parseUnary: not takes all that follows.
parseUnaryWide(pos, d) ==
  IF cur(pos).kind # "not" THEN parsePrimary(pos, d)
  ELSE LET inner == parseOr(pos + 1, d + 1)
       IN IF d + 1 > maxFilterDepth \/ ~inner.ok THEN Error
          ELSE Parsed(inner.pos, Entries \ inner.pred)

parseUnary(pos, d) ==
  IF cur(pos).kind # "not" THEN parsePrimary(pos, d)
  ELSE LET inner == parseUnary(pos + 1, d + 1)
       IN IF d + 1 > maxFilterDepth \/ ~inner.ok THEN Error
          ELSE Parsed(inner.pos, Entries \ inner.pred)

RECURSIVE moreAnd(_, _)
moreAnd(left, d) ==
  IF ~left.ok \/ cur(left.pos).kind # "and" THEN left
  ELSE LET right == parseUnary(left.pos + 1, d)
       IN IF right.ok THEN moreAnd(Parsed(right.pos, left.pred \cap right.pred), d) ELSE Error

parseAnd(pos, d) == moreAnd(parseUnary(pos, d), d)

RECURSIVE moreOr(_, _)
moreOr(left, d) ==
  IF ~left.ok \/ cur(left.pos).kind # "or" THEN left
  ELSE LET right == parseAnd(left.pos + 1, d)
       IN IF right.ok THEN moreOr(Parsed(right.pos, left.pred \cup right.pred), d) ELSE Error

parseOr(pos, d) == moreOr(parseAnd(pos, d), d)

CompileFilter ==
  IF toks = <<>> THEN Parsed(1, Entries)
  ELSE LET r == parseOr(1, 0) IN IF r.ok /\ r.pos = Len(toks) + 1 THEN r ELSE Error

-----------------------------------------------------------------------------
(* The reference: the meanings of the tokens i .. j.  A comparison takes   *)
(* any token for its value, as the parser does.                            *)

Kind(i) == toks[i].kind

Values(i, j) == {toks[k].val : k \in {k \in i .. j : (k - i) % 2 = 0}}

IsList(i, j) ==
  /\ j >= i /\ (j - i) % 2 = 0 /\ (j - i) \div 2 < maxInListLen
  /\ \A k \in i .. j : IF (k - i) % 2 = 0 THEN Kind(k) \in Literals ELSE Kind(k) = "comma"

\* != is the complement of ==, in is a union of equalities, an order needs
\* two numbers; the namespace of an entry is that of either end.
Holds(e, field, op, val) ==
  LET vs == IF field = "namespace" THEN {e.src, e.dst} ELSE {fieldGetter(field, e)}
      Is == \E v \in vs : IF Net[val] # None THEN v \in Net[val] ELSE EqualFold(v, val)
  IN CASE op = "==" -> Is
       [] op = "!=" -> ~Is
       [] op = "contains" -> \E v \in vs : Fold[val] \in Within[Fold[v]]
       [] OTHER -> \E v \in vs : Num[v] # None /\ Ordered(op, Num[v], Num[val])

Atom(i, j) ==
  LET f == toks[i].val IN
    CASE i = j /\ Kind(i) \in Literals -> {BareMatch(f)}
      [] j = i + 2 /\ Kind(i) = "ident" /\ f \in Fields
         /\ Kind(i + 1) = "op" /\ toks[i + 1].val # "in"
         /\ (toks[i + 1].val \in Relational => Num[toks[j].val] # None) ->
           {{e \in Entries : Holds(e, f, toks[i + 1].val, toks[j].val)}}
      [] j > i + 3 /\ Kind(i) = "ident" /\ f \in Fields
         /\ toks[i + 1] = tok("op", "in") /\ Kind(i + 2) = "lparen" /\ Kind(j) = "rparen"
         /\ IsList(i + 3, j - 1) ->
           {{e \in Entries : \E v \in (IF f = "namespace" THEN {e.src, e.dst} ELSE {fieldGetter(f, e)}) :
                               \E w \in Values(i + 3, j - 1) : EqualFold(v, w)}}
      [] OTHER -> {}

RECURSIVE Meaning(_, _, _, _)
Meaning(level, i, j, d) ==
  IF i > j THEN {}
  ELSE CASE level = "or" ->
              Meaning("and", i, j, d) \cup
              UNION {{x \cup y : x \in Meaning("or", i, k - 1, d), y \in Meaning("and", k + 1, j, d)} :
                       k \in {k \in i .. j : Kind(k) = "or"}}
         [] level = "and" ->
              Meaning("unary", i, j, d) \cup
              UNION {{x \cap y : x \in Meaning("and", i, k - 1, d), y \in Meaning("unary", k + 1, j, d)} :
                       k \in {k \in i .. j : Kind(k) = "and"}}
         [] level = "unary" ->
              Atom(i, j) \cup
              IF d >= maxFilterDepth THEN {}
              ELSE IF Kind(i) = "not" THEN {Entries \ x : x \in Meaning("unary", i + 1, j, d + 1)}
              ELSE IF Kind(i) = "lparen" /\ Kind(j) = "rparen" THEN Meaning("or", i + 1, j - 1, d + 1)
              ELSE {}

-----------------------------------------------------------------------------
Init == toks = <<>>

Type == /\ Len(toks) < MaxToks
        /\ \E c \in Chunks : toks' = toks \o c

Next == Type

Spec == Init /\ [][Next]_toks

\* An expression compiles exactly when the grammar, with its limits on depth
\* and lists, has a meaning for it, and it then matches what that meaning
\* says: precedence, parentheses and "not" apply to the right operands, != is
\* the complement of == also for ranges and for the namespace of either end,
\* and a missing number is in no order (CompileFilter, filter.go:50-71).
CompilesAsMeant ==
  toks # <<>> =>
    LET meant == Meaning("or", 1, Len(toks), 0) IN
      IF CompileFilter.ok THEN meant = {CompileFilter.pred} ELSE meant = {}
=============================================================================
