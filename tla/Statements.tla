------------------------------ MODULE Statements ------------------------------
(***************************************************************************)
(* The statements BaseRepository builds, and what PostgreSQL answers to    *)
(* them.  A statement is what its text means to the server: conditions     *)
(* that refer to parameters by name, an order, a limit and an offset; or a *)
(* text the server refuses.                                                *)
(*                                                                         *)
(* A lookup such as a__ge is a record of attribute and suffix, "" without  *)
(* one; a `where` argument is a function from lookups to values.  A table  *)
(* is a function from its ids to its one other column, a.                  *)
(***************************************************************************)
EXTENDS Naturals, Sequences, FiniteSets

CONSTANTS
  Links,  \* the rows of the joined table: the id they refer to, and their a
  None

ASSUME StatementsAssumption == None \notin Nat

Attributes == {"id", "a"}

(* LOOKUP_EXPRESSION_OPERATOR_MAP, less the two for texts: the operator of *)
(* a suffix as a relation of a column and a parameter.                     *)
Operator(suffix, x, v) ==
  CASE suffix \in {"", "eq"} -> x = v
    [] suffix = "neq" -> x # v
    [] suffix = "lt" -> x < v
    [] suffix = "le" -> x <= v
    [] suffix = "gt" -> x > v
    [] suffix = "ge" -> x >= v

Operators == {"", "eq", "neq", "lt", "le", "gt", "ge", "is", "is_not"}

(* An unknown attribute is an AttributeError, a suffix without an operator *)
(* (between, in, not_in have none) a ValueError.                           *)
Refuses(where) ==
  \E k \in DOMAIN where : k.attr \notin Attributes \/ k.suffix \notin Operators

(* __collect_where_string_from_repo: a condition per lookup, on the table  *)
(* it is collected for (0, or the number of the join).  The parameter is   *)
(* named <lookup>_0: the lookups of a dict differ, so its counter is never *)
(* used, and the check of already_collected_params picks the same name.    *)
Conditions(table, where) == {[table |-> table, key |-> k] : k \in DOMAIN where}

(* {**f, **g}.                                                             *)
Merge(f, g) ==
  [k \in DOMAIN f \cup DOMAIN g |-> IF k \in DOMAIN g THEN g[k] ELSE f[k]]

(* collect_join_where_string: the parameters of the joins, by name; the    *)
(* last join with a lookup gives it its value.                             *)
JoinParameters(joins) ==
  LET last(k) == CHOOSE i \in 1..Len(joins) :
                   /\ k \in DOMAIN joins[i]
                   /\ \A j \in i + 1..Len(joins) : k \notin DOMAIN joins[j]
  IN  [k \in UNION {DOMAIN joins[i] : i \in 1..Len(joins)} |-> joins[last(k)][k]]

JoinConditions(joins) == UNION {Conditions(i, joins[i]) : i \in 1..Len(joins)}

(* collect_order_string: a known attribute, a known direction, once each.  *)
RefusesOrder(order) ==
  \/ \E i \in 1..Len(order) :
       order[i].attr \notin Attributes \/ order[i].suffix \notin {"", "asc", "desc"}
  \/ \E i, j \in 1..Len(order) : i # j /\ order[i].attr = order[j].attr

(* What get_by_attributes raises before it reaches the server.             *)
RefusesRead(call) ==
  \/ call.skip_locked /\ ~call.lock
  \/ Refuses(call.where)
  \/ \E i \in 1..Len(call.joins) : Refuses(call.joins[i])
  \/ RefusesOrder(call.order)

(* The server takes no parameter after IS; and between the conditions of   *)
(* the table and those of the joins there is never an AND, because the     *)
(* prefix it depends on is never empty.                                    *)
Malformed(where, joins) ==
  \/ \E c \in Conditions(0, where) \cup JoinConditions(joins) : c.key.suffix \in {"is", "is_not"}
  \/ Conditions(0, where) # {} /\ JoinConditions(joins) # {}

(* The statement of get_by_attributes; a limit of 0 is no limit.           *)
Select(call) ==
  [conditions |-> Conditions(0, call.where) \cup JoinConditions(call.joins),
   params |-> Merge(call.where, JoinParameters(call.joins)),
   joins |-> Len(call.joins),
   order |-> call.order,
   limit |-> IF call.limit = 0 THEN None ELSE call.limit,
   offset |-> call.offset]

-----------------------------------------------------------------------------
(* PostgreSQL (external).                                                  *)

(* The rows of FROM and INNER JOIN: an id and one linked row per join.     *)
Combinations(table, joins) ==
  {c \in [id : DOMAIN table, links : [1..joins -> Links]] :
     \A i \in 1..joins : c.links[i].of = c.id}

Column(table, c, cond) ==
  IF cond.table = 0 THEN IF cond.key.attr = "id" THEN c.id ELSE table[c.id]
                    ELSE IF cond.key.attr = "id" THEN c.id ELSE c.links[cond.table].a

Satisfies(table, c, conditions, params) ==
  \A cond \in conditions : Operator(cond.key.suffix, Column(table, c, cond), params[cond.key])

Before(table, x, y, key) ==
  LET u == IF key.attr = "id" THEN x.id ELSE table[x.id]
      v == IF key.attr = "id" THEN y.id ELSE table[y.id]
  IN  IF key.suffix = "desc" THEN u > v ELSE u < v

Sorted(table, s, order) ==
  \A i, j \in 1..Len(s) : i < j =>
    \A k \in 1..Len(order) :
      Before(table, s[j], s[i], order[k]) =>
        \E l \in 1..k - 1 : Before(table, s[i], s[j], order[l])

(* The answers a server may give: the selected rows in any order that is   *)
(* sorted as asked, cut to offset and limit, as ids.                       *)
Cut(s, offset, limit) ==
  LET last == IF limit = None \/ offset + limit > Len(s) THEN Len(s) ELSE offset + limit
  IN  SubSeq(s, offset + 1, last)

Answers(table, selected, order, offset, limit) ==
  LET n == Cardinality(selected)
      orders == {s \in [1..n -> selected] :
                   /\ \A i, j \in 1..n : i # j => s[i] # s[j]
                   /\ Sorted(table, s, order)}
  IN  {[i \in 1..Len(Cut(s, offset, limit)) |-> Cut(s, offset, limit)[i].id] : s \in orders}

Execute(table, stmt) ==
  Answers(table,
          {c \in Combinations(table, stmt.joins) :
             Satisfies(table, c, stmt.conditions, stmt.params)},
          stmt.order, stmt.offset, stmt.limit)

(* The ids a WHERE without joins selects, for count, update and remove.    *)
Matching(table, where) ==
  {id \in DOMAIN table :
     Satisfies(table, [id |-> id, links |-> <<>>], Conditions(0, where), where)}

-----------------------------------------------------------------------------
(* What a caller of get_by_attributes asks for: every lookup of every      *)
(* argument holds with its own value.                                      *)
Asked(table, call) ==
  LET holds(c) ==
        /\ \A k \in DOMAIN call.where :
             Operator(k.suffix, IF k.attr = "id" THEN c.id ELSE table[c.id], call.where[k])
        /\ \A i \in 1..Len(call.joins) : \A k \in DOMAIN call.joins[i] :
             Operator(k.suffix, IF k.attr = "id" THEN c.id ELSE c.links[i].a, call.joins[i][k])
  IN  Answers(table, {c \in Combinations(table, Len(call.joins)) : holds(c)},
              call.order, call.offset, call.limit)

(* Two joins with a lookup in common, and different values for it.         *)
Clash(joins) ==
  \E i, j \in 1..Len(joins) : \E k \in DOMAIN joins[i] \cap DOMAIN joins[j] :
    joins[i][k] # joins[j][k]
=============================================================================
