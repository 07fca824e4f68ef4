----------------------------- MODULE MCHubStore -----------------------------
(***************************************************************************)
(* Model of the hub's parts for TLC: those of HubParts, and the compiler   *)
(* of filters (Filter), whose parser is recursive.                         *)
(***************************************************************************)
EXTENDS HubParts, TLC

CONSTANTS maxFilterDepth, maxInListLen, MaxToks

VARIABLE toks

Symm == Permutations(Adders) \cup Permutations(IDs)

\* A filter is typed from these tokens.  A comparison takes any token for its
\* value, so the values are all of them.
tok(kind, val) == [kind |-> kind, val |-> val]
comparison(field, op, value) == <<tok("ident", field), tok("op", op), value>>

FilterChunks ==
  {<<tok("lparen", "(")>>, <<tok("rparen", ")")>>, <<tok("not", "not")>>,
   <<tok("and", "and")>>, <<tok("or", "or")>>, <<tok("comma", ",")>>,
   <<tok("string", "shop")>>, <<tok("ident", "typo"), tok("op", "==")>>,
   comparison("namespace", "!=", tok("string", "shop")),
   comparison("dst.ip", "==", tok("string", "10/8")),
   comparison("src.namespace", "contains", tok("string", "shop")),
   comparison("l4.ttl", "<", tok("number", "7")),
   comparison("namespace", "in", tok("lparen", "("))}

FilterEntries ==
  {[src |-> "shop", dst |-> "kube", ip |-> "10.1", num |-> "5", text |-> "shop-eu"],
   [src |-> "SHOP", dst |-> "", ip |-> "", num |-> "", text |-> ""],
   [src |-> "shop-eu", dst |-> "kube", ip |-> "10.1", num |-> "7", text |-> "5"]}

FilterValues ==
  {"", "SHOP", "shop-eu", "kube", "5", "10.1"} \cup
  UNION {{c[i].val : i \in DOMAIN c} : c \in FilterChunks}

LowerCase == [v \in FilterValues |-> IF v = "SHOP" THEN "shop" ELSE v]
Numeric == [v \in FilterValues |-> CASE v = "5" -> 5 [] v = "7" -> 7 [] OTHER -> Nil]
Occurring == [v \in FilterValues |-> {"", v} \cup IF v = "shop-eu" THEN {"shop"} ELSE {}]
Network == [v \in FilterValues |-> IF v = "10/8" THEN {"10.1"} ELSE Nil]

I == INSTANCE Filter WITH Chunks <- FilterChunks, Entries <- FilterEntries,
       Fold <- LowerCase, Num <- Numeric, Net <- Network, Within <- Occurring,
       None <- Nil

-----------------------------------------------------------------------------
\* Where no other part runs, a filter is typed.
MCInit == PartsInit /\ I!Init

MCNext ==
  \/ PartsNext /\ UNCHANGED toks
  \/ part = "other" /\ I!Next /\ UNCHANGED partsVars

MCSpec == MCInit /\ [][MCNext]_<<partsVars, toks>>

\* A filter compiles to what its grammar means, or is refused; see Filter
\* (filter.go:50-71, 182-542).
FiltersCompileAsMeant == part = "other" => I!CompilesAsMeant
=============================================================================
