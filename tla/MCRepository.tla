----------------------------- MODULE MCRepository -----------------------------
EXTENDS Repository

(* Of the joined table, one row refers to user 1 and two to user 2.        *)
MCLinks == {[of |-> 1, a |-> 0], [of |-> 2, a |-> 0], [of |-> 2, a |-> 1]}

(* No user, two that differ in a, and three of which two are alike.        *)
MCStarts == {<<>>, <<0, 1>>, <<1, 0, 1>>}

(* No rows, and rows for one chunk and for two, with and without a         *)
(* repeated id.                                                            *)
MCBatches == {<<>>, <<<<1, 0>>>>, <<<<3, 1>>, <<1, 0>>>>, <<<<1, 0>>, <<2, 1>>, <<3, 0>>>>,
              <<<<3, 0>>, <<2, 1>>, <<2, 0>>>>}

Lookup(attr, suffix) == [attr |-> attr, suffix |-> suffix]

(* The arguments with at most one lookup of a set, or with two of them.    *)
None1(keys) == {<<>>} \cup UNION {[{k} -> Values] : k \in keys}

Two(k, l) == [{k, l} -> Values]

MCWheres ==
  None1({Lookup("a", ""), Lookup("a", "ge"), Lookup("a", "between"), Lookup("b", "")})
    \cup [{Lookup("id", "")} -> Ids] \cup Two(Lookup("a", "le"), Lookup("id", "ge"))

JoinWheres == None1({Lookup("a", ""), Lookup("a", "neq")})

MCReads ==
  LET read(where, joins, order, limit, offset, lock, skip) ==
        [where |-> where, joins |-> joins, order |-> order, limit |-> limit, offset |-> offset,
         lock |-> lock, skip_locked |-> skip]
      orders == {<<>>, <<Lookup("a", "desc")>>, <<Lookup("a", ""), Lookup("id", "desc")>>,
                 <<Lookup("a", ""), Lookup("a", "desc")>>}
      joins == UNION {[1..n -> JoinWheres] : n \in 0..2}
  IN  {read(w, <<>>, o, l, f, FALSE, FALSE) :
         w \in MCWheres \cup None1({Lookup("a", "is")}), o \in orders, l \in {None, 0, 1}, f \in {0, 1}}
      \cup {read(w, j, o, None, 0, FALSE, FALSE) :
         w \in None1({Lookup("a", "")}), j \in joins, o \in orders}
      \cup {read(<<>>, j, <<>>, l, 0, TRUE, skip) : j \in joins, l \in {None, 1}, skip \in BOOLEAN}
      \cup {read(<<>>, <<>>, <<>>, None, 0, FALSE, TRUE)}
=============================================================================
