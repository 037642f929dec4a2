--------------------------- MODULE RepositoryProofs ---------------------------
(***************************************************************************)
(* Type correctness of the repositories, and what they promise: that reads *)
(* answer what was asked, that the outbox follows the durable changes, and *)
(* what add_batch leaves behind; for any users, values, arguments, batches *)
(* and failures.                                                           *)
(***************************************************************************)
EXTENDS Repository, SequenceTheorems, FiniteSetTheorems, TLAPS

(* Induction.  The theorems of the library that take a predicate are not   *)
(* for these provers; this one follows from the order of finite sets.      *)
LEMMA Least ==
  ASSUME NEW T, T \subseteq Nat, T # {}
  PROVE  \E x \in T : \A y \in T : x <= y
<1>1. PICK t \in T : TRUE
  OBVIOUS
<1> DEFINE W == {0..x : x \in {y \in T : y <= t}}
<1>2. IsFiniteSet(0..t)
  BY <1>1, FS_Interval
<1>3. W \subseteq FiniteSubsetsOf(0..t)
  <2>1. \A x \in T : x <= t => 0..x \subseteq 0..t /\ IsFiniteSet(0..x)
    BY <1>1, FS_Interval
  <2>2. QED
    BY <2>1 DEF FiniteSubsetsOf
<1>4. W # {}
  BY <1>1
<1>5. IsWellFoundedOn(StrictSubsetOrdering(0..t), FiniteSubsetsOf(0..t))
  BY FS_StrictSubsetOrderingWellFounded
<1>6. PICK X \in W : \A Y \in W : <<Y, X>> \notin StrictSubsetOrdering(0..t)
  <2> HIDE DEF W
  <2>1. QED
    BY <1>3, <1>4, <1>5, WFMin
<1>7. PICK x \in T : x <= t /\ X = 0..x
  OBVIOUS
<1>8. ASSUME NEW y \in T, y < x PROVE FALSE
  <2>1. 0..y \in W /\ 0..y \subseteq 0..x /\ x \notin 0..y /\ x \in 0..x
    BY <1>1, <1>7, <1>8
  <2>2. 0..y \in SUBSET (0..t) /\ 0..x \in SUBSET (0..t)
    BY <1>1, <1>7, <1>8
  <2>3. <<0..y, 0..x>> \in StrictSubsetOrdering(0..t)
    BY <2>1, <2>2 DEF StrictSubsetOrdering
  <2>4. QED
    BY <1>6, <1>7, <2>1, <2>3
<1>9. QED
  BY <1>7, <1>8

(* A function on 1..n is a sequence of that length.                        *)
LEMMA Sized ==
  ASSUME NEW S, NEW n \in Nat, NEW s \in [1..n -> S]
  PROVE  s \in Seq(S) /\ Len(s) = n
<1>1. s \in Seq(S)
  BY SeqDef
<1>2. Len(s) \in Nat /\ 1..n = 1..Len(s)
  BY <1>1, LenProperties
<1>3. QED
  <2>1. CASE n = 0
    BY <1>1, <1>2, <2>1
  <2>2. CASE n > 0
    BY <1>1, <1>2, <2>2
  <2>3. QED
    BY <2>1, <2>2

(* A set of ids has an order, in which each of them comes once.            *)
LEMMA ListedOnce ==
  ASSUME NEW ids \in SUBSET Ids
  PROVE  /\ IsFiniteSet(ids) /\ Cardinality(ids) \in Nat
         /\ Listed(ids) \in [1..Cardinality(ids) -> ids]
         /\ \A i, j \in 1..Cardinality(ids) : i # j => Listed(ids)[i] # Listed(ids)[j]
         /\ \A id \in ids : \E i \in 1..Cardinality(ids) : Listed(ids)[i] = id
<1> DEFINE n == Cardinality(ids)
<1>1. IsFiniteSet(ids)
  BY RepositoryAssumption, FS_Subset
<1>2. n \in Nat /\ ExistsBijection(1..n, ids)
  BY <1>1, FS_CardinalityType
<1>3. \E s \in [1..n -> ids] : \A i, j \in DOMAIN s : i # j => s[i] # s[j]
  BY <1>2 DEF ExistsBijection, Bijection, Injection, IsInjective
<1>4. /\ Listed(ids) \in [1..n -> ids]
      /\ \A i, j \in DOMAIN Listed(ids) : i # j => Listed(ids)[i] # Listed(ids)[j]
  BY <1>3 DEF Listed
<1>5. Listed(ids) \in Injection(1..n, ids)
  BY <1>4 DEF Injection, IsInjective
<1>6. Cardinality(1..n) = n
  BY <1>2, FS_Interval
<1>7. Listed(ids) \in Surjection(1..n, ids)
  BY <1>1, <1>5, <1>6, FS_Injection
<1>8. QED
  BY <1>1, <1>2, <1>4, <1>7 DEF Surjection

-----------------------------------------------------------------------------
(* Databases.                                                              *)

LEMMA DatabaseParts ==
  ASSUME NEW db \in Database
  PROVE  /\ db.users \in Tables
         /\ db.outbox \in Seq(Messages) /\ Len(db.outbox) \in Nat
         /\ DOMAIN db.outbox = 1..Len(db.outbox)
         /\ db.changes \in Seq(Changes) /\ Len(db.changes) \in Nat
         /\ DOMAIN db.changes = 1..Len(db.changes)
<1>1. db.users \in Tables /\ db.outbox \in Seq(Messages) /\ db.changes \in Seq(Changes)
  BY DEF Database
<1>2. QED
  BY <1>1, LenProperties

LEMMA TableParts ==
  /\ \A t \in Tables : DOMAIN t \in SUBSET Ids /\ \A id \in DOMAIN t : t[id] \in Values
  /\ \A ids \in SUBSET Ids : [ids -> Values] \subseteq Tables
  BY DEF Tables

(* Rows put into a table.                                                  *)
LEMMA MergedTable ==
  ASSUME NEW t \in Tables, NEW r \in Tables
  PROVE  Merge(t, r) \in Tables
<1>1. DOMAIN t \cup DOMAIN r \in SUBSET Ids
  BY TableParts
<1>2. Merge(t, r) \in [DOMAIN t \cup DOMAIN r -> Values]
  BY TableParts DEF Merge
<1>3. QED
  BY <1>1, <1>2, TableParts

(* What a database gains by a statement: its old changes stay, and of the  *)
(* new ones at most one is to be announced.                                *)
Grows(db, d) ==
  /\ Len(d.changes) >= Len(db.changes)
  /\ \A i \in 1..Len(db.changes) : d.changes[i] = db.changes[i]

Silent(db, d) ==
  /\ d.outbox = db.outbox
  /\ \A i \in Len(db.changes) + 1..Len(d.changes) : ~Told(d.changes[i])

Marks(db, d, said) ==
  \E p \in Len(db.changes) + 1..Len(d.changes) :
    /\ Told(d.changes[p]) /\ d.changes[p].what = said
    /\ \A i \in Len(db.changes) + 1..Len(d.changes) : i # p => ~Told(d.changes[i])

Spoken(db, d, said) == d.outbox = Append(db.outbox, said) /\ Marks(db, d, said)

LEMMA SameMarks ==
  ASSUME NEW db, NEW c, NEW d, NEW said, d.changes = c.changes, Marks(db, c, said)
  PROVE  Marks(db, d, said)
  BY DEF Marks

LEMMA SilentAnnounces ==
  ASSUME NEW db \in Database, NEW d \in Database, Grows(db, d), Silent(db, d), Announces(db)
  PROVE  Announces(d)
<1> DEFINE old == {i \in DOMAIN db.changes : Told(db.changes[i])}
           new == {i \in DOMAIN d.changes : Told(d.changes[i])}
<1>1. PICK at \in [DOMAIN db.outbox -> old] :
        /\ \A i \in old : \E n \in DOMAIN db.outbox : at[n] = i
        /\ \A m, n \in DOMAIN db.outbox : m < n => at[m] < at[n]
        /\ \A n \in DOMAIN db.outbox : db.outbox[n] = db.changes[at[n]].what
  BY DEF Announces
<1>2. /\ DOMAIN db.changes = 1..Len(db.changes) /\ DOMAIN d.changes = 1..Len(d.changes)
      /\ Len(db.changes) \in Nat /\ Len(d.changes) \in Nat
  BY DatabaseParts
<1>3. new = old
  BY <1>2 DEF Grows, Silent
<1>4. \A n \in DOMAIN db.outbox : d.changes[at[n]] = db.changes[at[n]]
  BY <1>2 DEF Grows
<1>5. QED
  BY <1>1, <1>3, <1>4 DEF Announces, Silent

LEMMA SpokenAnnounces ==
  ASSUME NEW db \in Database, NEW d \in Database, NEW said \in Messages,
         Grows(db, d), Spoken(db, d, said), Announces(db)
  PROVE  Announces(d)
<1> DEFINE old == {i \in DOMAIN db.changes : Told(db.changes[i])}
           new == {i \in DOMAIN d.changes : Told(d.changes[i])}
<1> PICK m : m = Len(db.outbox)
  OBVIOUS
<1>1. PICK at \in [DOMAIN db.outbox -> old] :
        /\ \A i \in old : \E n \in DOMAIN db.outbox : at[n] = i
        /\ \A k, n \in DOMAIN db.outbox : k < n => at[k] < at[n]
        /\ \A n \in DOMAIN db.outbox : db.outbox[n] = db.changes[at[n]].what
  BY DEF Announces
<1>2. /\ DOMAIN db.changes = 1..Len(db.changes) /\ DOMAIN d.changes = 1..Len(d.changes)
      /\ Len(db.changes) \in Nat /\ Len(d.changes) \in Nat
      /\ DOMAIN db.outbox = 1..m /\ DOMAIN d.outbox = 1..Len(d.outbox) /\ m \in Nat
  BY DatabaseParts
<1>3. PICK p \in Len(db.changes) + 1..Len(d.changes) :
        /\ Told(d.changes[p]) /\ d.changes[p].what = said
        /\ \A i \in Len(db.changes) + 1..Len(d.changes) : i # p => ~Told(d.changes[i])
  BY DEF Spoken, Marks
<1>4. /\ Len(d.outbox) = m + 1 /\ d.outbox[m + 1] = said
      /\ \A n \in 1..m : d.outbox[n] = db.outbox[n]
  BY DatabaseParts, AppendProperties DEF Spoken
<1>5. new = old \cup {p} /\ \A i \in old : i < p /\ d.changes[i] = db.changes[i]
  <2>1. /\ \A i \in DOMAIN db.changes : i \in DOMAIN d.changes /\ d.changes[i] = db.changes[i]
        /\ Len(db.changes) <= Len(d.changes)
    BY <1>2 DEF Grows
  <2>2. /\ p \in DOMAIN d.changes /\ \A i \in DOMAIN db.changes : i < p
        /\ \A i \in DOMAIN d.changes : i \in DOMAIN db.changes \/ i \in Len(db.changes) + 1..Len(d.changes)
    BY <1>2, <1>3
  <2>3. \A i \in new : i \in old \/ i = p
    BY <1>3, <2>1, <2>2, Zenon
  <2>4. p \in new /\ \A i \in old : i \in new
    BY <1>3, <2>1, <2>2
  <2>5. new = old \cup {p}
    BY <2>3, <2>4
  <2>6. QED
    BY <2>1, <2>2, <2>5
<1> HIDE DEF old, new
<1>6. PICK to : to = [n \in 1..m + 1 |-> IF n = m + 1 THEN p ELSE at[n]]
  OBVIOUS
<1>7. DOMAIN to = 1..m + 1 /\ to[m + 1] = p /\ \A n \in 1..m : to[n] = at[n] /\ at[n] \in old
  <2>1. DOMAIN to = 1..m + 1
    BY <1>6
  <2>2. m + 1 \in 1..m + 1 /\ \A n \in 1..m : n \in 1..m + 1 /\ n # m + 1
    BY <1>2
  <2>3. to[m + 1] = p /\ \A n \in 1..m : to[n] = at[n]
    BY <1>6, <2>2
  <2>4. \A n \in 1..m : at[n] \in old
    BY <1>2
  <2>5. QED
    BY <2>1, <2>3, <2>4
<1>8. \A n \in 1..m + 1 : to[n] \in new /\ (n = m + 1 \/ n \in 1..m)
  BY <1>2, <1>5, <1>7
<1>9. DOMAIN d.outbox = 1..m + 1 /\ to \in [1..m + 1 -> new]
  BY <1>2, <1>4, <1>6, <1>7, <1>8
<1>10. \A i \in new : \E n \in 1..m + 1 : to[n] = i
  <2>1. m + 1 \in 1..m + 1 /\ 1..m \subseteq 1..m + 1
    BY <1>2
  <2>2. QED
    BY <1>1, <1>2, <1>5, <1>7, <2>1
<1>11. \A k, n \in 1..m + 1 : k < n => to[k] < to[n]
  <2> SUFFICES ASSUME NEW k \in 1..m + 1, NEW n \in 1..m + 1, k < n PROVE to[k] < to[n]
    OBVIOUS
  <2>1. k \in 1..m
    BY <1>2
  <2>2. CASE n = m + 1
    BY <1>5, <1>7, <2>1, <2>2
  <2>3. CASE n \in 1..m
    BY <1>1, <1>2, <1>7, <2>1, <2>3
  <2>4. QED
    BY <1>8, <2>2, <2>3
<1>12. \A n \in 1..m + 1 : d.outbox[n] = d.changes[to[n]].what
  <2>1. ASSUME NEW n \in 1..m PROVE d.outbox[n] = d.changes[to[n]].what
    <3>1. d.outbox[n] = db.outbox[n] /\ db.outbox[n] = db.changes[at[n]].what
      BY <1>1, <1>2, <1>4
    <3>2. to[n] = at[n] /\ d.changes[at[n]] = db.changes[at[n]]
      BY <1>5, <1>7
    <3>3. QED
      BY <3>1, <3>2
  <2>2. d.outbox[m + 1] = d.changes[to[m + 1]].what
    BY <1>3, <1>4, <1>7
  <2>3. QED
    BY <1>8, <2>1, <2>2
<1>13. /\ to \in [DOMAIN d.outbox -> new]
       /\ \A i \in new : \E n \in DOMAIN d.outbox : to[n] = i
       /\ \A k, n \in DOMAIN d.outbox : k < n => to[k] < to[n]
       /\ \A n \in DOMAIN d.outbox : d.outbox[n] = d.changes[to[n]].what
  BY <1>9, <1>10, <1>11, <1>12
<1>14. QED
  BY <1>13, Zenon DEF Announces, new

(* What a statement that changes rows, and returns the one with this id,   *)
(* makes of a database before save_outbox.                                 *)
Carries(db, users, action, id, d) ==
  /\ d \in Database /\ d.users = users /\ Grows(db, d) /\ d.outbox = db.outbox
  /\ ~InTransaction => Silent(db, d)
  /\ InTransaction => \E said : said = <<action, id>> /\ Marks(db, d, said)

LEMMA ChangeMade ==
  ASSUME NEW db \in Database, NEW users \in Tables, NEW action \in Actions,
         NEW ids \in SUBSET Ids, NEW id \in ids
  PROVE  Carries(db, users, action, id, Change(db, users, action, ids, id))
<1> PICK d : d = Change(db, users, action, ids, id)
  OBVIOUS
<1> SUFFICES Carries(db, users, action, id, d)
  OBVIOUS
<1> PICK made : made = Made(action, ids, id)
  OBVIOUS
<1> PICK n : n = Cardinality(ids)
  OBVIOUS
<1>1. /\ n \in Nat /\ Listed(ids) \in [1..n -> ids]
      /\ \A i, j \in 1..n : i # j => Listed(ids)[i] # Listed(ids)[j]
      /\ \A x \in ids : \E i \in 1..n : Listed(ids)[i] = x
  BY ListedOnce
<1>2. /\ DOMAIN made = 1..n
      /\ \A i \in 1..n :
           /\ made[i] = [what |-> <<action, Listed(ids)[i]>>, silent |-> made[i].silent]
           /\ made[i].what = <<action, Listed(ids)[i]>>
           /\ made[i].silent = IF ~InTransaction THEN "outside"
                               ELSE IF Listed(ids)[i] = id THEN "no" ELSE "several"
  BY DEF Made
<1>3. made \in Seq(Changes) /\ Len(made) = n
  <2>1. ASSUME NEW i \in 1..n PROVE made[i] \in Changes
    <3>1. Listed(ids)[i] \in Ids
      BY <1>1
    <3>2. <<action, Listed(ids)[i]>> \in Messages /\ made[i].silent \in {"no", "several", "outside"}
      BY <1>2, <3>1 DEF Messages
    <3>3. QED
      BY <1>2, <3>2 DEF Changes
  <2>2. made = [i \in 1..n |-> made[i]]
    BY DEF Made
  <2>3. made \in [1..n -> Changes]
    BY <2>1, <2>2
  <2>4. QED
    BY <1>1, <2>3, Sized
<1>4. d.changes = db.changes \o made /\ d.users = users /\ d.outbox = db.outbox
  BY DEF Change
<1>5. /\ db.changes \in Seq(Changes) /\ Len(db.changes) \in Nat
      /\ db.outbox \in Seq(Messages)
  BY DatabaseParts
<1>7. /\ d.changes \in Seq(Changes) /\ Len(d.changes) = Len(db.changes) + n
      /\ \A i \in 1..Len(db.changes) + n :
           d.changes[i] = IF i <= Len(db.changes) THEN db.changes[i] ELSE made[i - Len(db.changes)]
  BY <1>3, <1>4, <1>5, ConcatProperties
<1>8. d \in Database
  BY <1>4, <1>5, <1>7 DEF Change, Database
<1>9. Grows(db, d)
  <2>1. \A i \in 1..Len(db.changes) : i \in 1..Len(db.changes) + n /\ i <= Len(db.changes)
    BY <1>1, <1>5
  <2>2. Len(d.changes) >= Len(db.changes)
    BY <1>1, <1>5, <1>7
  <2>3. QED
    BY <1>7, <2>1, <2>2 DEF Grows
<1>10. ASSUME NEW i \in Len(db.changes) + 1..Len(d.changes)
       PROVE  /\ i - Len(db.changes) \in 1..n /\ d.changes[i] = made[i - Len(db.changes)]
              /\ d.changes[i].silent = IF ~InTransaction THEN "outside"
                   ELSE IF Listed(ids)[i - Len(db.changes)] = id THEN "no" ELSE "several"
  <2>1. PICK j : j = i - Len(db.changes)
    OBVIOUS
  <2>2. j \in 1..n /\ i \in 1..Len(db.changes) + n /\ ~(i <= Len(db.changes))
    BY <1>1, <1>5, <1>7, <2>1
  <2>3. d.changes[i] = made[j]
    BY <1>7, <2>1, <2>2
  <2>4. made[j].silent = IF ~InTransaction THEN "outside"
                         ELSE IF Listed(ids)[j] = id THEN "no" ELSE "several"
    BY <1>2, <2>2
  <2>5. QED
    BY <2>1, <2>2, <2>3, <2>4
<1>11. ~InTransaction => Silent(db, d)
  BY <1>4, <1>10 DEF Silent, Told
<1>12. ASSUME InTransaction
       PROVE  \E said : said = <<action, id>> /\ Marks(db, d, said)
  <2> PICK said : said = <<action, id>>
    OBVIOUS
  <2>1. PICK j \in 1..n : Listed(ids)[j] = id
    BY <1>1
  <2>2. PICK p : p = Len(db.changes) + j
    OBVIOUS
  <2>3. p \in Len(db.changes) + 1..Len(d.changes) /\ p - Len(db.changes) = j
    BY <1>1, <1>5, <1>7, <2>2
  <2>4. made[j].what = <<action, id>>
    BY <1>2, <2>1
  <2>5. Told(d.changes[p]) /\ d.changes[p].what = said
    BY <1>10, <1>12, <2>1, <2>3, <2>4 DEF Told
  <2>6. ASSUME NEW i \in Len(db.changes) + 1..Len(d.changes), i # p
        PROVE  ~Told(d.changes[i])
    <3>1. i - Len(db.changes) # j
      BY <1>1, <1>5, <2>2, <2>6
    <3>2. Listed(ids)[i - Len(db.changes)] # id
      BY <1>1, <1>10, <2>1, <3>1
    <3>3. QED
      BY <1>10, <1>12, <3>2 DEF Told
  <2>7. QED
    BY <2>3, <2>5, <2>6 DEF Marks
<1>13. QED
  BY <1>4, <1>8, <1>9, <1>11, <1>12 DEF Carries

-----------------------------------------------------------------------------
(* The databases of a state: the durable one, and those of the blocks.     *)
Known == {durable} \cup {txn[i] : i \in 1..Len(txn)}

(* A call is made of a caller that is free, and an error inside a block    *)
(* leaves it.                                                              *)
Calls ==
  /\ batch # NoBatch => answer = Silence /\ ~failing
  /\ failing => InTransaction

Shape == TypeOK /\ Calls

LEMMA Blocks ==
  ASSUME TypeOK
  PROVE  /\ Len(txn) \in Nat /\ Len(txn) <= 2 /\ (InTransaction <=> Len(txn) > 0)
         /\ \A i \in 1..Len(txn) : txn[i] \in Database
         /\ View \in Known /\ View \in Database /\ Known \subseteq Database
<1>1. txn \in Seq(Database) /\ durable \in Database
  BY DEF TypeOK
<1>2. Len(txn) \in Nat /\ Len(txn) <= 2 /\ \A i \in 1..Len(txn) : txn[i] \in Database
  <2>1. Len(txn) \in Nat
    BY <1>1, LenProperties
  <2>2. Len(txn) <= 2
    BY DEF TypeOK
  <2>3. ASSUME NEW i \in 1..Len(txn) PROVE txn[i] \in Database
    BY <1>1
  <2>4. QED
    BY <2>1, <2>2, <2>3
<1>3. InTransaction <=> Len(txn) > 0
  BY <1>1, <1>2, EmptySeq DEF InTransaction
<1>4. Known \subseteq Database
  BY <1>1, <1>2 DEF Known
<1>5. View \in Known
  <2>1. CASE InTransaction
    <3>1. Len(txn) \in 1..Len(txn)
      BY <1>2, <1>3, <2>1
    <3>2. QED
      BY <2>1, <3>1 DEF View, Known
  <2>2. CASE ~InTransaction
    BY <2>2 DEF View, Known
  <2>3. QED
    BY <2>1, <2>2
<1>6. QED
  BY <1>2, <1>3, <1>4, <1>5

(* The statement's database takes the place of the one it has seen.        *)
LEMMA Becoming ==
  ASSUME TypeOK, NEW d \in Database, Becomes(d)
  PROVE  /\ durable' \in Database /\ txn' \in Seq(Database) /\ Len(txn') = Len(txn)
         /\ gone' = gone /\ (InTransaction' <=> InTransaction) /\ View' = d
         /\ \A x \in Known' : x = d \/ x \in Known
<1>1. CASE InTransaction
  <2>1. txn' = [txn EXCEPT ![Len(txn)] = d] /\ durable' = durable /\ gone' = gone
    BY <1>1 DEF Becomes
  <2>2. txn \in Seq(Database) /\ Len(txn) \in 1..Len(txn) /\ Len(txn) \in Nat
    BY <1>1, Blocks DEF TypeOK
  <2>3. /\ txn' \in Seq(Database) /\ Len(txn') = Len(txn)
        /\ \A j \in 1..Len(txn) : txn'[j] = IF j = Len(txn) THEN d ELSE txn[j]
    BY <2>1, <2>2, ExceptSeq
  <2>4. txn' # <<>>
    <3>1. Len(txn') # 0
      BY <2>2, <2>3
    <3>2. QED
      BY <2>3, <3>1, EmptySeq
  <2>5. \A x \in Known' : x = d \/ x \in Known
    BY <2>1, <2>3, Zenon DEF Known
  <2>6. QED
    BY <1>1, <2>1, <2>2, <2>3, <2>4, <2>5 DEF TypeOK, InTransaction, View
<1>2. CASE ~InTransaction
  BY <1>2 DEF Becomes, TypeOK, InTransaction, View, Known
<1>3. QED
  BY <1>1, <1>2

-----------------------------------------------------------------------------
(* Steps.  A step makes no database but by a statement, and a statement    *)
(* announces what is to be announced.                                      *)
Develops ==
  \A x \in Known' :
    x \in Known \/ (x \in Database /\ \E y \in Known : Announces(y) => Announces(x))

Databases ==
  durable \in Database /\ txn \in Seq(Database) /\ Len(txn) <= 2 /\ gone \in BOOLEAN

Batch ==
  batch \in [rows : Seq(Rows), done : Seq(Ids),
             given : Seq(Rows), lost : Nat, before : Tables \cup {<<>>}]

LEMMA TypeParts == TypeOK <=> Databases /\ failing \in BOOLEAN /\ Batch /\ faults \in 0..MaxFaults
  BY DEF TypeOK, Databases, Batch

LEMMA Still ==
  ASSUME TypeOK, UNCHANGED dbVars
  PROVE  Databases' /\ Develops /\ View' = View /\ (InTransaction' <=> InTransaction)
  BY TypeParts DEF Databases, Develops, Known, View, InTransaction, dbVars

LEMMA Statement ==
  ASSUME TypeOK, NEW d \in Database, Becomes(d), Announces(View) => Announces(d)
  PROVE  Databases' /\ Develops /\ View' = d /\ (InTransaction' <=> InTransaction)
<1>1. /\ durable' \in Database /\ txn' \in Seq(Database) /\ Len(txn') = Len(txn)
      /\ gone' = gone /\ (InTransaction' <=> InTransaction) /\ View' = d
      /\ \A x \in Known' : x = d \/ x \in Known
  BY Becoming
<1>2. Len(txn) <= 2 /\ gone \in BOOLEAN
  BY DEF TypeOK
<1>3. Databases'
  BY <1>1, <1>2 DEF Databases
<1>4. View \in Known
  BY Blocks
<1>5. QED
  BY <1>1, <1>3, <1>4 DEF Develops

(* A statement that is repeated in a new transaction.                      *)
LEMMA Renewed ==
  ASSUME TypeOK, NEW d \in Database, InNewTransaction(d), Announces(durable) => Announces(d)
  PROVE  Databases' /\ Develops /\ View' = d /\ InTransaction /\ InTransaction'
<1>1. /\ Len(txn) \in Nat /\ Len(txn) <= 2 /\ Len(txn) > 0 /\ InTransaction
      /\ durable \in Database /\ txn \in Seq(Database)
  BY Blocks DEF InNewTransaction, TypeOK
<1>2. PICK n \in Nat : n = Len(txn) /\ n > 0 /\ n <= 2
  BY <1>1
<1>3. txn' = [i \in 1..n |-> d] /\ durable' = durable /\ gone' \in BOOLEAN
  <2>1. DOMAIN txn = 1..n
    BY <1>1, <1>2, LenProperties
  <2>2. QED
    BY <2>1 DEF InNewTransaction
<1>4. txn' \in Seq(Database) /\ Len(txn') = n
  BY <1>2, <1>3, Sized
<1>5. Databases'
  BY <1>1, <1>2, <1>3, <1>4 DEF Databases
<1>6. InTransaction'
  <2>1. txn' # <<>>
    BY <1>2, <1>4
  <2>2. QED
    BY <2>1 DEF InTransaction
<1>7. View' = d
  <2>1. n \in 1..n
    BY <1>2
  <2>2. View' = txn'[Len(txn')]
    BY <1>6 DEF View, InTransaction
  <2>3. QED
    BY <1>3, <1>4, <2>1, <2>2
<1>8. Develops
  <2>1. \A x \in Known' : x = d \/ x \in Known
    BY <1>3, <1>4 DEF Known
  <2>2. durable \in Known
    BY DEF Known
  <2>3. QED
    BY <2>1, <2>2 DEF Develops
<1>9. QED
  BY <1>1, <1>5, <1>6, <1>7, <1>8

(* The message of a change that was rolled back before it.                 *)
LEMMA UndoneAnnounces ==
  ASSUME NEW db \in Database, NEW action \in Actions, NEW id \in Ids
  PROVE  /\ AnnouncedUndone(db, action, id) \in Database
         /\ Announces(db) => Announces(AnnouncedUndone(db, action, id))
<1> PICK said \in Messages : said = <<action, id>>
  BY DEF Messages
<1> PICK made \in Changes : made = [what |-> said, silent |-> "undone"]
  BY DEF Changes
<1> PICK d : d = AnnouncedUndone(db, action, id)
  OBVIOUS
<1>1. /\ db.users \in Tables /\ db.outbox \in Seq(Messages) /\ db.changes \in Seq(Changes)
      /\ Len(db.changes) \in Nat
      /\ db = [users |-> db.users, outbox |-> db.outbox, changes |-> db.changes]
  BY DatabaseParts DEF Database
<1>2. /\ d = [users |-> db.users, changes |-> d.changes, outbox |-> d.outbox]
      /\ d.users = db.users /\ d.changes = Append(db.changes, made)
      /\ d.outbox = Append(db.outbox, said)
  BY <1>1 DEF AnnouncedUndone, Announced
<1> PICK n \in Nat : n = Len(db.changes)
  BY <1>1
<1>3. /\ d.changes \in Seq(Changes) /\ d.outbox \in Seq(Messages)
      /\ Len(d.changes) = n + 1 /\ d.changes[n + 1] = made
      /\ \A i \in 1..n : d.changes[i] = db.changes[i]
  BY <1>1, <1>2, AppendProperties
<1>4. d \in Database
  BY <1>1, <1>2, <1>3 DEF Database
<1>5. Grows(db, d)
  BY <1>3 DEF Grows
<1>6. Spoken(db, d, said)
  <2>1. n + 1 \in n + 1..n + 1 /\ \A i \in n + 1..n + 1 : i = n + 1
    OBVIOUS
  <2>2. Told(made) /\ made.what = said
    BY DEF Told
  <2>3. Marks(db, d, said)
    BY <1>3, <2>1, <2>2 DEF Marks
  <2>4. QED
    BY <1>2, <2>3 DEF Spoken
<1>7. Announces(db) => Announces(d)
  BY <1>4, <1>5, <1>6, SpokenAnnounces
<1>8. QED
  BY <1>4, <1>7

(* A statement of the users, and its event in the outbox.                  *)
LEMMA Saving ==
  ASSUME TypeOK, NEW users \in Tables, NEW action \in Actions,
         NEW ids \in SUBSET Ids, NEW id \in ids,
         SaveOutbox(Change(View, users, action, ids, id), action, id)
  PROVE  /\ Databases' /\ Develops /\ (InTransaction' <=> InTransaction)
         /\ failing' = failing \/ failing' = FALSE
         /\ answer'.kind = "write"
         /\ faults' = faults \/ (faults < MaxFaults /\ faults' = faults + 1)
<1> PICK c : c = Change(View, users, action, ids, id)
  OBVIOUS
<1>1. /\ c \in Database /\ c.users = users /\ Grows(View, c) /\ c.outbox = View.outbox
      /\ ~InTransaction => Silent(View, c)
      /\ InTransaction => \E said : said = <<action, id>> /\ Marks(View, c, said)
  <2>1. View \in Database
    BY Blocks
  <2>2. Carries(View, users, action, id, Change(View, users, action, ids, id))
    BY <2>1, ChangeMade
  <2>3. Carries(View, users, action, id, c)
    BY <2>2
  <2>4. QED
    BY <2>3 DEF Carries
<1> PICK out : out = Append(View.outbox, <<action, id>>)
  OBVIOUS
<1> PICK d : d = [users |-> c.users, changes |-> c.changes, outbox |-> out]
  OBVIOUS
<1>2. \/ InTransaction /\ Becomes(d)
      \/ ~InTransaction /\ Becomes(c)
      \/ InTransaction /\ InNewTransaction(AnnouncedUndone(durable, action, id))
  <2>1. Announced(c, action, id) = d
    BY <1>1 DEF Announced
  <2>2. QED
    BY <2>1 DEF SaveOutbox, InNewTransaction
<1>3. /\ failing' = failing \/ failing' = FALSE
      /\ answer'.kind = "write"
      /\ faults' = faults \/ (faults < MaxFaults /\ faults' = faults + 1)
  <2>1. CASE ~InTransaction
    BY <2>1 DEF SaveOutbox, Raise, Wrote, InNewTransaction
  <2>2. CASE InTransaction
    BY <2>2 DEF SaveOutbox, Return, Wrote, Fault
  <2>3. QED
    BY <2>1, <2>2
<1>4. CASE ~InTransaction /\ Becomes(c)
  <2>1. Announces(View) => Announces(c)
    BY <1>1, <1>4, Blocks, SilentAnnounces
  <2>2. QED
    BY <1>1, <1>3, <1>4, <2>1, Statement
<1>5. CASE InTransaction /\ Becomes(d)
  <2>1. <<action, id>> \in Messages
    BY DEF Messages
  <2>2. out \in Seq(Messages)
    BY <2>1, Blocks, DatabaseParts, AppendProperties
  <2>3. d \in Database /\ d.users = users /\ d.changes = c.changes /\ d.outbox = out
    <3>1. c.users \in Tables /\ c.changes \in Seq(Changes)
      BY <1>1, DatabaseParts
    <3>2. QED
      BY <1>1, <2>2, <3>1 DEF Database
  <2>4. Grows(View, d)
    BY <1>1, <2>3 DEF Grows
  <2>5. PICK said : said = <<action, id>> /\ Marks(View, c, said)
    BY <1>1, <1>5
  <2>6. said \in Messages /\ Spoken(View, d, said)
    BY <2>1, <2>3, <2>5, SameMarks DEF Spoken
  <2>7. Announces(View) => Announces(d)
    <3>1. View \in Database
      BY Blocks
    <3>2. QED
      BY <2>3, <2>4, <2>6, <3>1, SpokenAnnounces
  <2>8. QED
    BY <1>3, <1>5, <2>3, <2>7, Statement
<1>6. CASE InTransaction /\ InNewTransaction(AnnouncedUndone(durable, action, id))
  <2>1. durable \in Database /\ id \in Ids
    BY DEF TypeOK
  <2>2. PICK u \in Database : /\ u = AnnouncedUndone(durable, action, id)
                              /\ Announces(durable) => Announces(u)
    BY <2>1, UndoneAnnounces
  <2>3. InNewTransaction(u)
    BY <1>6, <2>2
  <2>4. QED
    BY <1>3, <2>2, <2>3, Renewed
<1>7. QED
  BY <1>2, <1>4, <1>5, <1>6

LEMMA Touched ==
  ASSUME TypeOK, NEW where, NEW action \in Actions, NEW users \in Tables, Idle,
         Touch(where, action, users)
  PROVE  /\ Databases' /\ Develops /\ (InTransaction' <=> InTransaction)
         /\ failing' \in BOOLEAN /\ (failing' => InTransaction) /\ answer'.kind = "write"
         /\ faults' = faults \/ (faults < MaxFaults /\ faults' = faults + 1)
<1> PICK ids : ids = Matching(View.users, where)
  OBVIOUS
<1>1. failing = FALSE
  BY DEF Idle, TypeOK
<1>2. ids \in SUBSET Ids
  BY Blocks, DatabaseParts, TableParts DEF Matching
<1>3. CASE \E id \in ids : SaveOutbox(Change(View, users, action, ids, id), action, id)
  <2>1. PICK id \in ids : SaveOutbox(Change(View, users, action, ids, id), action, id)
    BY <1>3
  <2>2. QED
    BY <1>1, <1>2, <2>1, Saving
<1>4. CASE /\ UNCHANGED <<dbVars, faults>>
           /\ Raise(Wrote("error")) \/ Raise(Wrote("none"))
  <2>1. failing' = InTransaction /\ answer'.kind = "write"
    BY <1>4 DEF Raise, Wrote
  <2>2. failing' \in BOOLEAN /\ (failing' => InTransaction)
    BY <2>1 DEF InTransaction
  <2>3. QED
    BY <1>4, <2>1, <2>2, Still
<1>5. QED
  BY <1>3, <1>4 DEF Touch

(* add: an id that is taken, or one row more.                              *)
LEMMA Added ==
  ASSUME TypeOK, NEW id \in Ids, NEW v \in Values, Add(id, v)
  PROVE  /\ Databases' /\ Develops /\ (InTransaction' <=> InTransaction)
         /\ failing' \in BOOLEAN /\ (failing' => InTransaction) /\ answer'.kind = "write"
         /\ faults' = faults \/ (faults < MaxFaults /\ faults' = faults + 1)
<1> PICK ids : ids = {id}
  OBVIOUS
<1> PICK row : row = [i \in {id} |-> v]
  OBVIOUS
<1> PICK users : users = Merge(View.users, row)
  OBVIOUS
<1>1. failing = FALSE
  BY DEF Add, Idle, TypeOK
<1>2. ids \in SUBSET Ids /\ id \in ids
  OBVIOUS
<1>3. users \in Tables
  <2>1. View.users \in Tables
    BY Blocks, DatabaseParts
  <2>2. row \in [{id} -> Values] /\ {id} \in SUBSET Ids
    OBVIOUS
  <2>3. row \in Tables
    BY <2>2, TableParts
  <2>4. QED
    BY <2>1, <2>3, MergedTable
<1>4. CASE SaveOutbox(Change(View, users, "CREATE", ids, id), "CREATE", id)
  <2>1. PICK action \in Actions : action = "CREATE"
    BY DEF Actions
  <2>2. SaveOutbox(Change(View, users, action, ids, id), action, id)
    BY <1>4, <2>1
  <2>3. QED
    BY <1>1, <1>2, <1>3, <2>2, Saving
<1>5. CASE UNCHANGED <<dbVars, faults>> /\ Raise(Wrote("error"))
  <2>1. failing' = InTransaction /\ answer'.kind = "write"
    BY <1>5 DEF Raise, Wrote
  <2>2. failing' \in BOOLEAN /\ (failing' => InTransaction)
    BY <2>1 DEF InTransaction
  <2>3. QED
    BY <1>5, <2>1, <2>2, Still
<1>6. QED
  BY <1>4, <1>5 DEF Add

(* The rows of the next INSERT.                                            *)
LEMMA ChunkTyped ==
  ASSUME Batch
  PROVE  /\ BatchSize \in Nat /\ BatchSize > 0
         /\ batch.rows \in Seq(Rows) /\ Len(batch.rows) \in Nat
         /\ Chunk \in Seq(Rows) /\ Len(Chunk) \in Nat
         /\ Len(Chunk) = Min(BatchSize, Len(batch.rows))
         /\ \A i \in 1..Len(Chunk) : /\ Chunk[i] \in Rows
                                     /\ Chunk[i] = batch.rows[i]
         /\ DOMAIN Chunk = 1..Len(Chunk)
<1>1. BatchSize \in Nat /\ BatchSize > 0
  BY RepositoryAssumption DEF BatchSize, Columns
<1>2. batch.rows \in Seq(Rows)
  BY DEF Batch
<1>3. PICK n : n = Len(batch.rows)
  OBVIOUS
<1>4. n \in Nat /\ \A i \in 1..n : batch.rows[i] \in Rows
  <2>1. n \in Nat
    BY <1>2, <1>3, LenProperties
  <2>2. ASSUME NEW i \in 1..n PROVE batch.rows[i] \in Rows
    BY <1>2, <1>3, ElementOfSeq
  <2>3. QED
    BY <2>1, <2>2
<1>5. PICK m : m = Min(BatchSize, n)
  OBVIOUS
<1>6. m \in Nat /\ m <= n
  BY <1>1, <1>4, <1>5 DEF Min
<1>7. /\ SubSeq(batch.rows, 1, m) \in Seq(Rows)
      /\ Len(SubSeq(batch.rows, 1, m)) = m
      /\ \A i \in 1..m : SubSeq(batch.rows, 1, m)[i] = batch.rows[i]
  <2>1. \A i \in 1..m : batch.rows[i] \in Rows
    BY <1>4, <1>6
  <2>2. 1 \in Int /\ m \in Int
    BY <1>6
  <2>3. /\ SubSeq(batch.rows, 1, m) \in Seq(Rows)
        /\ Len(SubSeq(batch.rows, 1, m)) = IF 1 <= m THEN m - 1 + 1 ELSE 0
        /\ \A i \in 1..m - 1 + 1 : SubSeq(batch.rows, 1, m)[i] = batch.rows[1 + i - 1]
    BY <2>1, <2>2, SubSeqProperties
  <2>4. QED
    BY <1>6, <2>3
<1>8. Chunk = SubSeq(batch.rows, 1, m)
  BY <1>3, <1>5 DEF Chunk
<1>9. DOMAIN Chunk = 1..Len(Chunk)
  BY <1>7, <1>8, LenProperties
<1>10. QED
  BY <1>1, <1>2, <1>3, <1>4, <1>5, <1>6, <1>7, <1>8, <1>9

LEMMA RowsAsTable ==
  ASSUME NEW rows \in Seq(Rows)
  PROVE  /\ AsTable(rows) \in Tables
         /\ \A id : id \in DOMAIN AsTable(rows) <=> \E i \in 1..Len(rows) : rows[i][1] = id
         /\ (\A i, j \in 1..Len(rows) : i # j => rows[i][1] # rows[j][1]) =>
              \A i \in 1..Len(rows) : AsTable(rows)[rows[i][1]] = rows[i][2]
<1> PICK n : n = Len(rows)
  OBVIOUS
<1>1. /\ DOMAIN rows = 1..n /\ \A i \in 1..n : rows[i] \in Rows
  BY LenProperties
<1> PICK T : T = {rows[i] : i \in 1..n}
  OBVIOUS
<1> PICK ids : ids = {rows[i][1] : i \in 1..n}
  OBVIOUS
<1>2. ids \in SUBSET Ids /\ \A r \in T : r \in Rows
  BY <1>1 DEF Rows
<1> DEFINE chosen(id) == CHOOSE r \in T : r[1] = id
<1>3. AsTable(rows) = [id \in ids |-> chosen(id)[2]]
  BY <1>1 DEF AsTable
<1>4. ASSUME NEW id \in ids PROVE chosen(id) \in T /\ chosen(id)[1] = id
  <2>1. \E r \in T : r[1] = id
    OBVIOUS
  <2>2. QED
    BY <2>1
<1> HIDE DEF chosen
<1>5. \A id \in ids : chosen(id)[2] \in Values
  BY <1>2, <1>4 DEF Rows
<1>6. AsTable(rows) \in [ids -> Values]
  BY <1>3, <1>5
<1>7. ASSUME \A i, j \in 1..n : i # j => rows[i][1] # rows[j][1], NEW i \in 1..n
      PROVE  AsTable(rows)[rows[i][1]] = rows[i][2]
  <2> PICK id \in ids : id = rows[i][1]
    OBVIOUS
  <2>1. chosen(id) \in T /\ chosen(id)[1] = id
    BY <1>4
  <2>2. PICK j \in 1..n : chosen(id) = rows[j]
    BY <2>1
  <2>3. j = i
    BY <1>7, <2>1, <2>2
  <2>4. AsTable(rows)[id] = chosen(id)[2]
    BY <1>3
  <2>5. QED
    BY <2>2, <2>3, <2>4
<1>8. \A id : id \in DOMAIN AsTable(rows) <=> \E i \in 1..n : rows[i][1] = id
  BY <1>3
<1>9. QED
  BY <1>2, <1>6, <1>7, <1>8, TableParts

(* Rows that differ in their ids, and a table of some of them.             *)
Distinct(rows, n) == \A i, j \in 1..n : i # j => rows[i][1] # rows[j][1]

Tabulates(t, rows, at) ==
  /\ \A id : id \in DOMAIN t <=> \E i \in at : rows[i][1] = id
  /\ \A i \in at : t[rows[i][1]] = rows[i][2]

LEMMA TableOf ==
  ASSUME NEW rows \in Seq(Rows), Distinct(rows, Len(rows))
  PROVE  AsTable(rows) \in Tables /\ Tabulates(AsTable(rows), rows, 1..Len(rows))
  BY RowsAsTable DEF Distinct, Tabulates

LEMMA ChunkInserted ==
  ASSUME TypeOK
  PROVE  /\ WithChunk \in Database /\ WithChunk.users = Merge(View.users, AsTable(Chunk))
         /\ Announces(View) => Announces(WithChunk)
<1> PICK d : d = WithChunk
  OBVIOUS
<1> PICK v : v = View
  OBVIOUS
<1> PICK m : m = Len(Chunk)
  OBVIOUS
<1> PICK made : made = [i \in 1..m |-> [what |-> <<"CREATE", Chunk[i][1]>>, silent |-> "batch"]]
  OBVIOUS
<1>1. /\ v \in Database /\ v.users \in Tables /\ v.outbox \in Seq(Messages)
      /\ v.changes \in Seq(Changes) /\ Len(v.changes) \in Nat
  BY Blocks, DatabaseParts
<1>2. Chunk \in Seq(Rows) /\ m \in Nat /\ \A i \in 1..m : Chunk[i] \in Rows
  BY ChunkTyped, TypeParts
<1>3. made \in Seq(Changes) /\ Len(made) = m
  <2>1. ASSUME NEW i \in 1..m PROVE made[i] \in Changes
    <3>1. <<"CREATE", Chunk[i][1]>> \in Messages
      BY <1>2 DEF Messages, Actions, Rows
    <3>2. QED
      BY <3>1 DEF Changes
  <2>2. made \in [1..m -> Changes]
    BY <2>1
  <2>3. QED
    BY <1>2, <2>2, Sized
<1>4. /\ d.users = Merge(v.users, AsTable(Chunk)) /\ d.outbox = v.outbox
      /\ d.changes = v.changes \o made
      /\ d = [users |-> d.users, changes |-> d.changes, outbox |-> d.outbox]
  BY DEF WithChunk
<1>5. /\ d.changes \in Seq(Changes) /\ Len(d.changes) = Len(v.changes) + m
      /\ \A i \in 1..Len(v.changes) + m :
           d.changes[i] = IF i <= Len(v.changes) THEN v.changes[i] ELSE made[i - Len(v.changes)]
  BY <1>1, <1>3, <1>4, ConcatProperties
<1>6. d.users \in Tables
  BY <1>1, <1>2, <1>4, RowsAsTable, MergedTable
<1>7. d \in Database
  BY <1>1, <1>4, <1>5, <1>6 DEF Database
<1>8. Grows(v, d)
  <2>1. \A i \in 1..Len(v.changes) : i \in 1..Len(v.changes) + m /\ i <= Len(v.changes)
    BY <1>1, <1>2
  <2>2. Len(d.changes) >= Len(v.changes)
    BY <1>1, <1>2, <1>5
  <2>3. QED
    BY <1>5, <2>1, <2>2 DEF Grows
<1>9. Silent(v, d)
  <2>1. ASSUME NEW i \in Len(v.changes) + 1..Len(d.changes) PROVE d.changes[i].silent = "batch"
    <3> PICK j : j = i - Len(v.changes)
      OBVIOUS
    <3>1. j \in 1..m /\ i \in 1..Len(v.changes) + m /\ ~(i <= Len(v.changes))
      BY <1>1, <1>2, <1>5
    <3>2. d.changes[i] = made[j]
      BY <1>5, <3>1
    <3>3. QED
      BY <3>1, <3>2
  <2>2. QED
    BY <1>4, <2>1 DEF Silent, Told
<1>10. Announces(v) => Announces(d)
  BY <1>1, <1>7, <1>8, <1>9, SilentAnnounces
<1>11. QED
  BY <1>4, <1>7, <1>10

(* What is left of the data, and what is returned of it.                   *)
LEMMA RestTyped ==
  ASSUME Batch
  PROVE  /\ Rest(batch.rows, Len(Chunk)) \in Seq(Rows)
         /\ batch.done \o Returned(Chunk) \in Seq(Ids)
<1> PICK rows : rows = batch.rows
  OBVIOUS
<1> PICK m : m = Len(Chunk)
  OBVIOUS
<1>1. /\ rows \in Seq(Rows) /\ Len(rows) \in Nat /\ m \in Nat
      /\ Chunk \in Seq(Rows) /\ DOMAIN Chunk = 1..m
      /\ \A i \in 1..m : Chunk[i] \in Rows
  BY ChunkTyped
<1>2. SubSeq(rows, m + 1, Len(rows)) \in Seq(Rows)
  <2>1. \A i \in m + 1..Len(rows) : rows[i] \in Rows
    <3>1. \A i \in m + 1..Len(rows) : i \in 1..Len(rows)
      BY <1>1
    <3>2. QED
      BY <1>1, <3>1, ElementOfSeq
  <2>2. m + 1 \in Int /\ Len(rows) \in Int
    BY <1>1
  <2>3. QED
    BY <2>1, <2>2, SubSeqProperties
<1>3. Returned(Chunk) \in Seq(Ids)
  <2>1. Returned(Chunk) \in [1..m -> Ids]
    BY <1>1 DEF Returned, Rows
  <2>2. QED
    BY <1>1, <2>1, Sized
<1>4. batch.done \in Seq(Ids)
  BY DEF Batch
<1>5. QED
  BY <1>2, <1>3, <1>4, ConcatProperties DEF Rest

LEMMA NoRows == NoBatch \in [rows : Seq(Rows), done : Seq(Ids), given : Seq(Rows),
                            lost : Nat, before : Tables \cup {<<>>}]
<1>1. <<>> \in Seq(Rows) /\ <<>> \in Seq(Ids)
  OBVIOUS
<1>2. QED
  BY <1>1 DEF NoBatch

(* The parts of a state that is well formed, from those of a step.         *)
LEMMA Shaped ==
  ASSUME Databases', failing' \in BOOLEAN, Batch',
         faults' \in 0..MaxFaults, Calls'
  PROVE  Shape'
  BY DEF Shape, TypeOK, Databases, Batch

LEMMA Spending ==
  ASSUME TypeOK, faults' = faults \/ (faults < MaxFaults /\ faults' = faults + 1)
  PROVE  faults' \in 0..MaxFaults
  BY RepositoryAssumption DEF TypeOK

LEMMA ChunkGoesIn ==
  ASSUME Shape, InsertChunk
  PROVE  Shape' /\ Develops
<1>1. TypeOK /\ Batch /\ batch # NoBatch /\ answer = Silence /\ failing = FALSE
  BY TypeParts DEF Shape, Calls, InsertChunk, TypeOK
<1>2. Databases' /\ Develops /\ (InTransaction' <=> InTransaction)
  <2>1. Becomes(WithChunk)
    BY DEF InsertChunk
  <2>2. WithChunk \in Database /\ (Announces(View) => Announces(WithChunk))
    BY <1>1, ChunkInserted
  <2> PICK d \in Database : d = WithChunk
    BY <2>2
  <2>3. Becomes(d) /\ (Announces(View) => Announces(d))
    BY <2>1, <2>2
  <2>4. QED
    BY <1>1, <2>3, Statement
<1>3. faults' \in 0..MaxFaults
  BY <1>1 DEF InsertChunk, TypeOK
<1> PICK rest \in Seq(Rows) : rest = Rest(batch.rows, Len(Chunk))
  BY <1>1, RestTyped
<1> PICK done \in Seq(Ids) : done = batch.done \o Returned(Chunk)
  BY <1>1, RestTyped
<1>4. \/ batch' = NoBatch /\ failing' = failing
      \/ batch' = [batch EXCEPT !.rows = rest, !.done = done] /\ UNCHANGED <<failing, answer>>
  BY DEF InsertChunk, Return
<1>5. Batch'
  <2>1. CASE batch' = NoBatch
    BY <2>1, NoRows DEF Batch
  <2>2. CASE batch' = [batch EXCEPT !.rows = rest, !.done = done]
    BY <1>1, <2>2 DEF Batch
  <2>3. QED
    BY <1>4, <2>1, <2>2
<1>6. failing' = FALSE /\ Calls'
  BY <1>1, <1>4 DEF Calls
<1>7. QED
  BY <1>2, <1>3, <1>5, <1>6, Shaped

LEMMA ChunkGoesWrong ==
  ASSUME Shape, ChunkFails
  PROVE  Shape' /\ Develops
<1>1. TypeOK /\ Batch
  BY TypeParts DEF Shape
<1>2. /\ batch' = NoBatch /\ txn' = txn /\ gone' = gone /\ failing' = InTransaction
      /\ durable' = durable \/ (~InTransaction /\ durable' = WithChunk)
      /\ faults' = faults \/ (faults < MaxFaults /\ faults' = faults + 1)
  BY DEF ChunkFails, Raise, Fault
<1>3. Databases' /\ Develops /\ (InTransaction' <=> InTransaction)
  <2>1. CASE durable' = durable
    BY <1>1, <1>2, <2>1, Still DEF dbVars
  <2>2. CASE ~InTransaction /\ durable' = WithChunk
    <3>1. WithChunk \in Database /\ (Announces(View) => Announces(WithChunk))
      BY <1>1, ChunkInserted
    <3> PICK d \in Database : d = WithChunk
      BY <3>1
    <3>2. Becomes(d) /\ (Announces(View) => Announces(d))
      BY <1>2, <2>2, <3>1 DEF Becomes
    <3>3. QED
      BY <1>1, <3>2, Statement
  <2>3. QED
    BY <1>2, <2>1, <2>2
<1>4. faults' \in 0..MaxFaults
  BY <1>1, <1>2, Spending
<1>5. Batch'
  BY <1>2, NoRows DEF Batch
<1>6. failing' \in BOOLEAN /\ Calls'
  BY <1>2, <1>3 DEF Calls, InTransaction
<1>7. QED
  BY <1>3, <1>4, <1>5, <1>6, Shaped

(* A step that leaves the databases alone.                                 *)
LEMMA Aside ==
  ASSUME Shape, UNCHANGED <<dbVars, batch>>, batch = NoBatch,
         failing' = failing \/ failing' = InTransaction,
         faults' = faults \/ (faults < MaxFaults /\ faults' = faults + 1)
  PROVE  Shape' /\ Develops
<1>1. TypeOK /\ Batch /\ failing \in BOOLEAN /\ (failing => InTransaction)
  BY TypeParts DEF Shape, Calls
<1>2. Databases' /\ Develops /\ (InTransaction' <=> InTransaction)
  BY <1>1, Still
<1>3. faults' \in 0..MaxFaults
  BY <1>1, Spending
<1>4. Batch' /\ batch' = NoBatch
  BY <1>1 DEF Batch
<1>5. failing' \in BOOLEAN /\ (failing' => InTransaction)
  <2>1. CASE failing' = failing
    BY <1>1, <2>1
  <2>2. CASE failing' = InTransaction
    BY <2>2 DEF InTransaction
  <2>3. QED
    BY <2>1, <2>2
<1>6. Calls'
  BY <1>2, <1>4, <1>5 DEF Calls
<1>7. QED
  BY <1>2, <1>3, <1>4, <1>5, <1>6, Shaped

(* A statement leaves the caller with an answer, and no batch is under way.*)
LEMMA Answered ==
  ASSUME Shape, batch = NoBatch, UNCHANGED batch,
         Databases', Develops, InTransaction' <=> InTransaction,
         failing' \in BOOLEAN, failing' => InTransaction,
         faults' = faults \/ (faults < MaxFaults /\ faults' = faults + 1)
  PROVE  Shape' /\ Develops
<1>1. Batch' /\ faults' \in 0..MaxFaults
  BY TypeParts, Spending DEF Shape, Batch
<1>2. Calls'
  BY DEF Calls
<1>3. QED
  BY <1>1, <1>2, Shaped

(* The data of a batch is taken, or refused.                               *)
LEMMA BatchTaken ==
  ASSUME Shape, NEW rows \in Batches, AddBatch(rows)
  PROVE  Shape' /\ Develops
<1>1. TypeOK /\ batch = NoBatch /\ answer = Silence /\ failing = FALSE /\ faults' = faults
  BY DEF Shape, AddBatch, Idle, TypeOK
<1>2. CASE rows = <<>>
  BY <1>1, <1>2, Aside DEF AddBatch, Raise
<1>3. CASE rows # <<>>
  <2>1. /\ batch' = [rows |-> rows, done |-> <<>>, given |-> rows, lost |-> 0,
                     before |-> View.users]
        /\ UNCHANGED <<dbVars, failing, answer>>
    BY <1>3 DEF AddBatch
  <2>2. Databases' /\ Develops /\ (InTransaction' <=> InTransaction)
    BY <1>1, <2>1, Still
  <2>3. View.users \in Tables /\ rows \in Seq(Rows) /\ <<>> \in Seq(Ids)
    BY <1>1, Blocks, DatabaseParts, RepositoryAssumption
  <2>4. Batch'
    BY <2>1, <2>3 DEF Batch
  <2>5. faults' \in 0..MaxFaults
    BY <1>1 DEF TypeOK
  <2>6. failing' = FALSE /\ Calls'
    BY <1>1, <2>1 DEF Calls
  <2>7. QED
    BY <2>2, <2>4, <2>5, <2>6, Shaped
<1>4. QED
  BY <1>2, <1>3

(* A step of the transaction: the blocks that are left are some there were.*)
LEMMA Around ==
  ASSUME Shape, batch = NoBatch, UNCHANGED batch,
         durable' \in Known, txn' \in Seq(Known), Len(txn') <= 2, gone' \in BOOLEAN,
         failing' \in BOOLEAN, failing' => InTransaction',
         faults' = faults \/ (faults < MaxFaults /\ faults' = faults + 1)
  PROVE  Shape' /\ Develops
<1>1. TypeOK /\ Batch
  BY TypeParts DEF Shape
<1>2. Known \subseteq Database
  BY <1>1, Blocks
<1>3. txn' \in Seq(Database) /\ \A i \in 1..Len(txn') : txn'[i] \in Known
  <2> PICK S : S = Known
    OBVIOUS
  <2>1. txn' \in Seq(S) /\ S \subseteq Database
    BY <1>2
  <2>2. \A i \in 1..Len(txn') : txn'[i] \in S
    BY <2>1, ElementOfSeq
  <2>3. txn' \in Seq(Database)
    BY <2>1
  <2>4. QED
    BY <2>2, <2>3
<1>4. Databases' /\ Develops
  <2>1. Databases'
    BY <1>2, <1>3 DEF Databases
  <2>2. Known' \subseteq Known
    BY <1>3 DEF Known
  <2>3. QED
    BY <2>1, <2>2 DEF Develops
<1>5. faults' \in 0..MaxFaults
  BY <1>1, Spending
<1>6. Batch' /\ Calls'
  BY <1>1 DEF Batch, Calls
<1>7. QED
  BY <1>4, <1>5, <1>6, Shaped

LEMMA TransactionSteps ==
  ASSUME Shape, Begin \/ Commit \/ CommitFails \/ BlockRaises \/ Rollback
  PROVE  Shape' /\ Develops
<1>1. /\ TypeOK /\ batch = NoBatch /\ batch' = batch
  BY DEF Shape, Calls, Begin, Commit, CommitFails, BlockRaises, Rollback, Idle
<1>2. /\ Len(txn) \in Nat /\ Len(txn) <= 2 /\ (InTransaction <=> Len(txn) > 0)
      /\ View \in Known /\ durable \in Known /\ \A i \in 1..Len(txn) : txn[i] \in Known
  BY <1>1, Blocks DEF Known
<1>3. txn \in Seq(Known)
  <2>1. txn = [i \in 1..Len(txn) |-> txn[i]]
    BY <1>1, LenProperties DEF TypeOK
  <2>2. QED
    BY <1>2, <2>1, Sized
<1>4. failing \in BOOLEAN /\ (failing => InTransaction) /\ gone' \in BOOLEAN
  BY <1>1 DEF Shape, Calls, TypeOK, Begin, Commit, CommitFails, BlockRaises, Rollback, dbVars
<1>5. CASE Begin
  <2>1. txn' = Append(txn, View) /\ UNCHANGED <<durable, failing, faults>> /\ Len(txn) < 2
        /\ failing = FALSE
    BY <1>4, <1>5 DEF Begin, Idle
  <2>2. txn' \in Seq(Known) /\ Len(txn') = Len(txn) + 1
    BY <1>2, <1>3, <2>1, AppendProperties
  <2>3. failing' = FALSE /\ Len(txn') <= 2 /\ durable' \in Known
    BY <1>2, <2>1, <2>2
  <2>4. QED
    BY <1>1, <1>4, <2>1, <2>2, <2>3, Around
<1>6. CASE Commit
  <2>1. failing' = FALSE /\ faults' = faults
    BY <1>4, <1>6 DEF Commit, Idle
  <2>2. durable' \in Known /\ txn' \in Seq(Known) /\ Len(txn') <= 2
    <3>1. CASE Len(txn) = 2
      <4>1. txn' = <<txn[2]>> /\ durable' = durable /\ txn[2] \in Known
        BY <1>2, <1>6, <3>1 DEF Commit
      <4>2. QED
        BY <1>2, <4>1
    <3>2. CASE Len(txn) # 2
      <4>1. txn' = <<>> /\ durable' = txn[1] /\ 1 \in 1..Len(txn)
        BY <1>2, <1>6, <3>2 DEF Commit
      <4>2. QED
        BY <1>2, <4>1
    <3>3. QED
      BY <3>1, <3>2
  <2>3. QED
    BY <1>1, <1>4, <2>1, <2>2, Around
<1>7. CASE CommitFails
  <2>1. /\ failing' = FALSE /\ faults < MaxFaults /\ faults' = faults + 1
        /\ txn' = <<>> /\ durable' \in {durable, txn[1]} /\ Len(txn) = 1
    BY <1>4, <1>7 DEF CommitFails, Idle, Fault
  <2>2. durable' \in Known /\ txn' \in Seq(Known) /\ Len(txn') <= 2
    BY <1>2, <2>1
  <2>3. QED
    BY <1>1, <1>4, <2>1, <2>2, Around
<1>8. CASE BlockRaises
  <2>1. /\ failing' = TRUE /\ UNCHANGED <<durable, txn, faults>> /\ InTransaction'
    BY <1>8 DEF BlockRaises, InTransaction, dbVars
  <2>2. QED
    BY <1>1, <1>2, <1>3, <1>4, <2>1, Around
<1>9. CASE Rollback
  <2> PICK n \in Nat : n = Len(txn)
    BY <1>2
  <2>1. /\ txn' = IF gone THEN <<View>> ELSE SubSeq(txn, 1, n - 1)
        /\ UNCHANGED <<durable, faults>>
        /\ failing' \in BOOLEAN /\ (n # 2 => failing' = FALSE) /\ (n = 1 \/ n = 2)
    <3>1. n > 0 /\ n <= 2
      BY <1>2, <1>4, <1>9 DEF Rollback
    <3>2. n = 1 \/ n = 2
      BY <3>1
    <3>3. QED
      BY <1>9, <3>2 DEF Rollback
  <2>2. txn' \in Seq(Known) /\ Len(txn') <= 2 /\ (n = 2 => Len(txn') = 1)
    <3>1. \A i \in 1..n - 1 : txn[i] \in Known
      <4>1. \A i \in 1..n - 1 : i \in 1..n
        OBVIOUS
      <4>2. QED
        BY <1>2, <4>1
    <3>2. 1 \in Int /\ n - 1 \in Int
      OBVIOUS
    <3>3. /\ SubSeq(txn, 1, n - 1) \in Seq(Known)
          /\ Len(SubSeq(txn, 1, n - 1)) = IF 1 <= n - 1 THEN n - 1 - 1 + 1 ELSE 0
      BY <3>1, <3>2, SubSeqProperties
    <3>4. Len(SubSeq(txn, 1, n - 1)) <= 2 /\ (n = 2 => Len(SubSeq(txn, 1, n - 1)) = 1)
      <4>1. n = 1 => Len(SubSeq(txn, 1, n - 1)) = 0
        BY <3>3
      <4>2. n = 2 => Len(SubSeq(txn, 1, n - 1)) = 1
        BY <3>3
      <4>3. n = 1 \/ n = 2
        BY <2>1
      <4>4. CASE n = 1
        BY <4>1, <4>4
      <4>5. CASE n = 2
        BY <4>2, <4>5
      <4>6. QED
        BY <4>3, <4>4, <4>5
    <3>5. <<View>> \in Seq(Known) /\ Len(<<View>>) = 1
      <4>1. PICK v \in Known : v = View
        BY <1>2
      <4>2. <<v>> \in Seq(Known) /\ Len(<<v>>) = 1
        OBVIOUS
      <4>3. QED
        BY <4>1, <4>2
    <3>6. CASE gone
      BY <2>1, <3>5, <3>6
    <3>7. CASE ~gone
      BY <2>1, <3>3, <3>4, <3>7
    <3>8. QED
      BY <3>6, <3>7
  <2>3. ASSUME failing' PROVE InTransaction'
    <3>1. n = 2
      BY <2>1, <2>3
    <3>2. Len(txn') = 1
      BY <2>2, <3>1
    <3>3. txn' # <<>>
      BY <3>2
    <3>4. QED
      BY <3>3 DEF InTransaction
  <2>4. durable' \in Known
    BY <1>2, <2>1
  <2>5. QED
    BY <1>1, <1>4, <2>1, <2>2, <2>3, <2>4, Around
<1>10. QED
  BY <1>5, <1>6, <1>7, <1>8, <1>9

(* A read leaves the databases as they are.                                *)
LEMMA Reading ==
  ASSUME Shape,
         \/ \E call \in Reads : GetByAttributes(call) \/ GetNeedFields(call)
         \/ \E where \in Wheres : GetOne(where) \/ Count(where)
  PROVE  Shape' /\ Develops
<1>1. batch = NoBatch /\ UNCHANGED <<dbVars, batch, faults>>
  BY DEF GetByAttributes, GetNeedFields, GetOne, Count, Idle
<1>2. failing' = failing \/ failing' = InTransaction
  BY DEF GetByAttributes, GetNeedFields, GetOne, Count, Raise, Return
<1>3. QED
  BY <1>1, <1>2, Aside

LEMMA Updated ==
  ASSUME Shape, NEW where \in Wheres, NEW v \in Values \cup {None}, Update(where, v)
  PROVE  Shape' /\ Develops /\ answer'.kind = "write"
<1>1. TypeOK /\ Idle /\ batch = NoBatch /\ UNCHANGED batch
  BY DEF Shape, Update, Idle
<1>2. CASE v = None
  <2>1. Raise(Wrote("error")) /\ UNCHANGED <<dbVars, faults>>
    BY <1>2 DEF Update
  <2>2. QED
    BY <1>1, <2>1, Aside DEF Raise, Wrote
<1>3. CASE v # None
  <2> PICK ids : ids = DOMAIN View.users
    OBVIOUS
  <2> PICK users : users = [id \in ids |->
                              IF id \in Matching(View.users, where) THEN v ELSE View.users[id]]
    OBVIOUS
  <2> PICK action \in Actions : action = "UPDATE"
    BY DEF Actions
  <2>1. Touch(where, action, users)
    BY <1>3 DEF Update
  <2>2. users \in Tables
    <3>1. View.users \in Tables
      BY <1>1, Blocks, DatabaseParts
    <3>2. ids \in SUBSET Ids /\ \A id \in ids : View.users[id] \in Values
      BY <3>1, TableParts
    <3>3. v \in Values
      BY <1>3
    <3>4. users \in [ids -> Values]
      BY <3>2, <3>3
    <3>5. QED
      BY <3>2, <3>4, TableParts
  <2>3. QED
    BY <1>1, <2>1, <2>2, Touched, Answered
<1>4. QED
  BY <1>2, <1>3

LEMMA Removed ==
  ASSUME Shape, NEW where \in Wheres, Remove(where)
  PROVE  Shape' /\ Develops /\ answer'.kind = "write"
<1>1. TypeOK /\ Idle /\ batch = NoBatch /\ UNCHANGED batch
  BY DEF Shape, Remove, Idle
<1> PICK ids : ids = DOMAIN View.users \ Matching(View.users, where)
  OBVIOUS
<1> PICK users : users = [id \in ids |-> View.users[id]]
  OBVIOUS
<1> PICK action \in Actions : action = "DELETE"
  BY DEF Actions
<1>2. Touch(where, action, users)
  BY DEF Remove
<1>3. users \in Tables
  <2>1. View.users \in Tables
    BY <1>1, Blocks, DatabaseParts
  <2>2. ids \in SUBSET Ids /\ \A id \in ids : View.users[id] \in Values
    BY <2>1, TableParts
  <2>3. users \in [ids -> Values]
    BY <2>2
  <2>4. QED
    BY <2>2, <2>3, TableParts
<1>4. QED
  BY <1>1, <1>2, <1>3, Touched, Answered

(* The session is rolled back, and a batch under way goes on.              *)
LEMMA Reconnected ==
  ASSUME Shape, Reconnect
  PROVE  Shape' /\ Develops
<1>1. TypeOK /\ Batch /\ failing' = FALSE /\ answer' = Silence
  BY TypeParts DEF Shape, Reconnect, TypeOK
<1>2. durable \in Database /\ durable.users \in Tables
  BY <1>1, DatabaseParts DEF TypeOK
<1>3. Databases' /\ Develops
  BY <1>1, <1>2, Renewed DEF Reconnect
<1>4. Batch'
  <2>1. CASE batch = NoBatch
    BY <2>1, NoRows DEF Reconnect, Batch
  <2>2. CASE batch # NoBatch
    <3>1. PICK n \in Nat : n = Len(batch.done)
      BY <1>1, LenProperties DEF Batch
    <3>2. batch' = [batch EXCEPT !.lost = n, !.before = durable.users]
      BY <2>2, <3>1 DEF Reconnect
    <3>3. QED
      BY <1>1, <1>2, <3>2 DEF Batch
  <2>3. QED
    BY <2>1, <2>2
<1>5. Calls' /\ faults' \in 0..MaxFaults
  BY <1>1, Spending DEF Calls, Reconnect, Fault
<1>6. QED
  BY <1>1, <1>3, <1>4, <1>5, Shaped

LEMMA StepShape ==
  ASSUME Shape, [Next]_vars
  PROVE  Shape' /\ Develops
<1>1. CASE UNCHANGED vars
  <2>1. Databases' /\ Develops
    BY <1>1, Still DEF vars, Shape
  <2>2. Shape'
    BY <1>1 DEF vars, dbVars, Shape, TypeOK, Calls, InTransaction
  <2>3. QED
    BY <2>1, <2>2
<1>2. CASE Goes
  <2>1. batch = NoBatch /\ UNCHANGED <<dbVars, failing, batch, faults>>
    BY <1>2 DEF Goes, Shape, Calls
  <2>2. QED
    BY <2>1, Aside
<1>3. CASE \/ \E call \in Reads : GetByAttributes(call) \/ GetNeedFields(call)
           \/ \E where \in Wheres : GetOne(where) \/ Count(where)
  BY <1>3, Reading
<1>4. CASE StatementFails
  <2>1. /\ batch = NoBatch /\ UNCHANGED <<dbVars, batch>> /\ failing' = InTransaction
        /\ faults < MaxFaults /\ faults' = faults + 1
    BY <1>4 DEF StatementFails, Idle, Raise, Fault
  <2>2. QED
    BY <2>1, Aside
<1>5. CASE \E id \in Ids, v \in Values : Add(id, v)
  <2>1. PICK id \in Ids, v \in Values : Add(id, v)
    BY <1>5
  <2>2. batch = NoBatch /\ UNCHANGED batch
    BY <2>1 DEF Add, Idle
  <2>3. TypeOK
    BY DEF Shape
  <2>4. QED
    BY <2>1, <2>2, <2>3, Added, Answered
<1>6. CASE \E where \in Wheres, v \in Values \cup {None} : Update(where, v)
  BY <1>6, Updated
<1>7. CASE \E where \in Wheres : Remove(where)
  BY <1>7, Removed
<1>8. CASE \E rows \in Batches : AddBatch(rows)
  BY <1>8, BatchTaken
<1>9. CASE InsertChunk
  BY <1>9, ChunkGoesIn
<1>10. CASE ChunkFails
  BY <1>10, ChunkGoesWrong
<1>11. CASE Begin \/ Commit \/ CommitFails \/ BlockRaises \/ Rollback
  BY <1>11, TransactionSteps
<1>12. CASE Reconnect
  BY <1>12, Reconnected
<1>13. QED
  BY <1>1, <1>2, <1>3, <1>4, <1>5, <1>6, <1>7, <1>8, <1>9, <1>10, <1>11, <1>12 DEF Next

LEMMA InitShape ==
  ASSUME Init
  PROVE  Shape /\ \A x \in Known : Announces(x)
<1>1. /\ durable \in [users : Starts, outbox : {<<>>}, changes : {<<>>}] /\ txn = <<>>
      /\ gone = FALSE /\ failing = FALSE /\ batch = NoBatch /\ answer = Silence /\ faults = 0
  BY DEF Init
<1>2. durable \in Database
  <2>1. <<>> \in Seq(Messages) /\ <<>> \in Seq(Changes)
    OBVIOUS
  <2>2. durable.users \in Tables /\ durable.outbox = <<>> /\ durable.changes = <<>>
    BY <1>1, RepositoryAssumption
  <2>3. durable = [users |-> durable.users, outbox |-> durable.outbox,
                   changes |-> durable.changes]
    BY <1>1
  <2>4. QED
    BY <2>1, <2>2, <2>3 DEF Database
<1>3. TypeOK
  <2>1. txn \in Seq(Database) /\ Len(txn) <= 2 /\ 0 \in 0..MaxFaults
    BY <1>1, RepositoryAssumption
  <2>2. QED
    BY <1>1, <1>2, <2>1, NoRows DEF TypeOK
<1>4. Calls
  BY <1>1 DEF Calls
<1>5. Known = {durable}
  <2>1. 1..Len(txn) = {}
    BY <1>1
  <2>2. QED
    BY <2>1 DEF Known
<1>6. Announces(durable)
  <2>1. durable.outbox = <<>> /\ durable.changes = <<>>
    BY <1>1
  <2>2. DOMAIN durable.outbox = {} /\ DOMAIN durable.changes = {}
    BY <2>1
  <2> PICK at : at = [n \in {} |-> 0]
    OBVIOUS
  <2>3. /\ at \in [DOMAIN durable.outbox -> {i \in DOMAIN durable.changes :
                                               Told(durable.changes[i])}]
    BY <2>2
  <2>4. QED
    BY <2>2, <2>3 DEF Announces
<1>7. QED
  BY <1>3, <1>4, <1>5, <1>6 DEF Shape

(* Every block holds databases, never more than two deep, whatever the     *)
(* statements, failures and commits; and a batch under way has rows, ids   *)
(* and users for its data.                                                 *)
THEOREM TypeCorrect == Spec => []TypeOK
<1>1. Init => Shape
  BY InitShape
<1>2. Shape /\ [Next]_vars => Shape'
  BY StepShape
<1>3. Shape => TypeOK
  BY DEF Shape
<1>4. QED
  BY <1>1, <1>2, <1>3, PTL DEF Spec

(* What is committed is a database some block had, so the announcements    *)
(* must be in order in all of them.                                        *)
AllAnnounce == \A x \in Known : Announces(x)

(* UserRepo announces what it does: with any number of statements,         *)
(* savepoints, rollbacks, failures and lost connections, the durable outbox*)
(* holds one message for each durable change that save_outbox is called    *)
(* for, in the order of the changes, and besides them only messages of     *)
(* changes that a connection took with it when the message was saved.      *)
THEOREM OutboxFollowsChanges == Spec => []AnnouncedInOrder
<1>1. Init => Shape /\ AllAnnounce
  BY InitShape DEF AllAnnounce
<1>2. Shape /\ AllAnnounce /\ [Next]_vars => Shape' /\ AllAnnounce'
  <2> SUFFICES ASSUME Shape, AllAnnounce, [Next]_vars PROVE Shape' /\ AllAnnounce'
    OBVIOUS
  <2>1. Shape' /\ Develops
    BY StepShape
  <2>2. \A x \in Known' : Announces(x)
    BY <2>1 DEF Develops, AllAnnounce
  <2>3. QED
    BY <2>1, <2>2 DEF AllAnnounce
<1>3. AllAnnounce => AnnouncedInOrder
  BY DEF AllAnnounce, Known, AnnouncedInOrder
<1>4. QED
  BY <1>1, <1>2, <1>3, PTL DEF Spec

-----------------------------------------------------------------------------
(* add_batch.                                                              *)

LEMMA FirstRows ==
  ASSUME NEW rows \in Seq(Rows), NEW m \in Nat, NEW n \in Nat, m <= n, n <= Len(rows)
  PROVE  /\ SubSeq(rows, m + 1, n) \in Seq(Rows)
         /\ Len(SubSeq(rows, m + 1, n)) = n - m
         /\ \A i \in 1..n - m : SubSeq(rows, m + 1, n)[i] = rows[m + i]
<1>1. Len(rows) \in Nat
  BY LenProperties
<1>2. \A i \in m + 1..n : rows[i] \in Rows
  <2>1. \A i \in m + 1..n : i \in 1..Len(rows)
    BY <1>1
  <2>2. QED
    BY <2>1, ElementOfSeq
<1>3. m + 1 \in Int /\ n \in Int
  OBVIOUS
<1>4. /\ SubSeq(rows, m + 1, n) \in Seq(Rows)
      /\ Len(SubSeq(rows, m + 1, n)) = IF m + 1 <= n THEN n - (m + 1) + 1 ELSE 0
      /\ \A i \in 1..n - (m + 1) + 1 : SubSeq(rows, m + 1, n)[i] = rows[m + 1 + i - 1]
  BY <1>2, <1>3, SubSeqProperties
<1>5. n - (m + 1) + 1 = n - m /\ \A i \in 1..n - m : m + 1 + i - 1 = m + i
  OBVIOUS
<1>6. Len(SubSeq(rows, m + 1, n)) = n - m
  BY <1>4, <1>5
<1>7. QED
  BY <1>4, <1>5, <1>6

(* Some of the rows, as a table.                                           *)
LEMMA SliceTable ==
  ASSUME NEW rows \in Seq(Rows), NEW m \in Nat, NEW n \in Nat, m <= n, n <= Len(rows),
         Distinct(rows, n)
  PROVE  \E t \in Tables :
           t = AsTable(SubSeq(rows, m + 1, n)) /\ Tabulates(t, rows, m + 1..n)
<1>1. PICK s : s = SubSeq(rows, m + 1, n)
  OBVIOUS
<1>2. PICK k \in Nat : k = n - m
  OBVIOUS
<1>3. s \in Seq(Rows) /\ Len(s) = k /\ \A i \in 1..k : s[i] = rows[m + i]
  BY <1>1, <1>2, FirstRows
<1>4. /\ \A i \in 1..k : m + i \in m + 1..n /\ m + i \in 1..n
      /\ \A i \in m + 1..n : i - m \in 1..k /\ m + (i - m) = i
      /\ \A i, j \in 1..k : i # j => m + i # m + j
  BY <1>2
<1>5. \A i, j \in 1..k : i # j => s[i][1] # s[j][1]
  <2> SUFFICES ASSUME NEW i \in 1..k, NEW j \in 1..k, i # j PROVE s[i][1] # s[j][1]
    OBVIOUS
  <2>1. s[i] = rows[m + i] /\ s[j] = rows[m + j]
    BY <1>3
  <2>2. m + i \in 1..n /\ m + j \in 1..n /\ m + i # m + j
    BY <1>4
  <2>3. rows[m + i][1] # rows[m + j][1]
    BY <2>2, Zenon DEF Distinct
  <2>4. QED
    BY <2>1, <2>3
<1>6. PICK t : t = AsTable(s)
  OBVIOUS
<1>7. /\ t \in Tables /\ \A id : id \in DOMAIN t <=> \E i \in 1..k : s[i][1] = id
      /\ \A i \in 1..k : t[s[i][1]] = s[i][2]
  <2>1. s \in Seq(Rows) /\ Distinct(s, Len(s))
    BY <1>3, <1>5 DEF Distinct
  <2>2. t \in Tables /\ Tabulates(t, s, 1..Len(s))
    BY <1>6, <2>1, TableOf
  <2>3. Tabulates(t, s, 1..k)
    BY <1>3, <2>2
  <2>4. QED
    BY <2>2, <2>3 DEF Tabulates
<1>8. \A id : id \in DOMAIN t <=> \E i \in m + 1..n : rows[i][1] = id
  <2>1. ASSUME NEW j \in 1..k PROVE \E i \in m + 1..n : rows[i][1] = s[j][1]
    <3>1. m + j \in m + 1..n /\ s[j] = rows[m + j]
      BY <1>3, <1>4
    <3>2. QED
      BY <3>1
  <2>2. ASSUME NEW i \in m + 1..n PROVE \E j \in 1..k : s[j][1] = rows[i][1]
    <3>1. i - m \in 1..k /\ s[i - m] = rows[i]
      BY <1>3, <1>4
    <3>2. QED
      BY <3>1
  <2>3. SUFFICES ASSUME NEW id
                 PROVE  (\E i \in 1..k : s[i][1] = id) <=> \E i \in m + 1..n : rows[i][1] = id
    BY <1>7
  <2>4. ASSUME NEW i \in 1..k, s[i][1] = id PROVE \E j \in m + 1..n : rows[j][1] = id
    BY <2>1, <2>4
  <2>5. ASSUME NEW i \in m + 1..n, rows[i][1] = id PROVE \E j \in 1..k : s[j][1] = id
    BY <2>2, <2>5
  <2>6. QED
    BY <2>4, <2>5
<1>9. ASSUME NEW i \in m + 1..n PROVE t[rows[i][1]] = rows[i][2]
  <2>1. PICK j \in 1..k : m + j = i
    BY <1>4
  <2>2. s[j] = rows[i]
    BY <1>3, <2>1
  <2>3. QED
    BY <1>7, <2>1, <2>2
<1>10. t = AsTable(SubSeq(rows, m + 1, n))
  BY <1>1, <1>6
<1>11. Tabulates(t, rows, m + 1..n)
  BY <1>8, <1>9, Zenon DEF Tabulates
<1>12. QED
  BY <1>7, <1>10, <1>11

(* Two chunks put into a table one after the other are one.                *)
LEMMA MergedChunks ==
  ASSUME NEW t \in Tables, NEW rows \in Seq(Rows), NEW m \in Nat, NEW n \in Nat,
         m <= n, n <= Len(rows), Distinct(rows, n)
  PROVE  Merge(Merge(t, AsTable(SubSeq(rows, 1, m))), AsTable(SubSeq(rows, m + 1, n)))
           = Merge(t, AsTable(SubSeq(rows, 1, n)))
<1>1. /\ 0 \in Nat /\ 0 <= m /\ 0 <= n /\ m <= Len(rows) /\ 0 + 1 = 1
      /\ Distinct(rows, m)
  <2>1. \A i \in 1..m : i \in 1..n
    OBVIOUS
  <2>2. Distinct(rows, m)
    BY <2>1, Zenon DEF Distinct
  <2>3. m <= Len(rows)
    BY LenProperties
  <2>4. QED
    BY <2>2, <2>3
<1>2. PICK a \in Tables :
        /\ a = AsTable(SubSeq(rows, 0 + 1, m))
        /\ \A id : id \in DOMAIN a <=> \E i \in 0 + 1..m : rows[i][1] = id
        /\ \A i \in 0 + 1..m : a[rows[i][1]] = rows[i][2]
  <2>1. \E x \in Tables : x = AsTable(SubSeq(rows, 0 + 1, m)) /\ Tabulates(x, rows, 0 + 1..m)
    BY <1>1, SliceTable
  <2>2. QED
    BY <2>1, Zenon DEF Tabulates
<1>3. PICK b \in Tables :
        /\ b = AsTable(SubSeq(rows, m + 1, n))
        /\ \A id : id \in DOMAIN b <=> \E i \in m + 1..n : rows[i][1] = id
        /\ \A i \in m + 1..n : b[rows[i][1]] = rows[i][2]
  <2>1. \E x \in Tables : x = AsTable(SubSeq(rows, m + 1, n)) /\ Tabulates(x, rows, m + 1..n)
    BY SliceTable
  <2>2. QED
    BY <2>1, Zenon DEF Tabulates
<1>4. PICK c \in Tables :
        /\ c = AsTable(SubSeq(rows, 0 + 1, n))
        /\ \A id : id \in DOMAIN c <=> \E i \in 0 + 1..n : rows[i][1] = id
        /\ \A i \in 0 + 1..n : c[rows[i][1]] = rows[i][2]
  <2>1. \E x \in Tables : x = AsTable(SubSeq(rows, 0 + 1, n)) /\ Tabulates(x, rows, 0 + 1..n)
    BY <1>1, SliceTable
  <2>2. QED
    BY <2>1, Zenon DEF Tabulates
<1>5. /\ \A i \in 0 + 1..n : i \in 0 + 1..m \/ i \in m + 1..n
      /\ \A i \in 0 + 1..m : i \in 0 + 1..n
      /\ \A i \in m + 1..n : i \in 0 + 1..n
  OBVIOUS
<1>6. \A id : id \in DOMAIN c <=> id \in DOMAIN a \/ id \in DOMAIN b
  <2>1. \A id \in DOMAIN c : id \in DOMAIN a \/ id \in DOMAIN b
    BY <1>2, <1>3, <1>4, <1>5, Zenon
  <2>2. \A id \in DOMAIN a : id \in DOMAIN c
    BY <1>2, <1>4, <1>5, Zenon
  <2>3. \A id \in DOMAIN b : id \in DOMAIN c
    BY <1>3, <1>4, <1>5, Zenon
  <2>4. QED
    BY <2>1, <2>2, <2>3
<1>7. ASSUME NEW id \in DOMAIN b PROVE c[id] = b[id]
  <2>1. PICK i \in m + 1..n : rows[i][1] = id
    BY <1>3
  <2>2. b[rows[i][1]] = rows[i][2]
    BY <1>3, Zenon
  <2>3. i \in 0 + 1..n
    BY <1>5
  <2>4. c[rows[i][1]] = rows[i][2]
    BY <1>4, <2>3, Zenon
  <2>5. QED
    BY <2>1, <2>2, <2>4
<1>8. ASSUME NEW id \in DOMAIN a PROVE c[id] = a[id]
  <2>1. PICK i \in 0 + 1..m : rows[i][1] = id
    BY <1>2
  <2>2. a[rows[i][1]] = rows[i][2]
    BY <1>2, Zenon
  <2>3. i \in 0 + 1..n
    BY <1>5
  <2>4. c[rows[i][1]] = rows[i][2]
    BY <1>4, <2>3, Zenon
  <2>5. QED
    BY <2>1, <2>2, <2>4
<1>9. Merge(Merge(t, a), b) = Merge(t, c)
  <2>1. PICK ta : ta = Merge(t, a)
    OBVIOUS
  <2>2. DOMAIN ta = DOMAIN t \cup DOMAIN a /\ \A id \in DOMAIN ta :
          ta[id] = IF id \in DOMAIN a THEN a[id] ELSE t[id]
    BY <2>1 DEF Merge
  <2>3. DOMAIN ta \cup DOMAIN b = DOMAIN t \cup DOMAIN c
    BY <1>6, <2>2
  <2>4. \A id \in DOMAIN t \cup DOMAIN c :
          (IF id \in DOMAIN b THEN b[id] ELSE ta[id]) = IF id \in DOMAIN c THEN c[id] ELSE t[id]
    BY <1>6, <1>7, <1>8, <2>2
  <2>5. Merge(ta, b) = Merge(t, c)
    BY <2>3, <2>4 DEF Merge
  <2>6. QED
    BY <2>1, <2>5
<1>10. QED
  BY <1>1, <1>2, <1>3, <1>4, <1>9, Zenon

(* Nothing inserted yet.                                                   *)
LEMMA MergedNone ==
  ASSUME NEW t \in Tables, NEW rows \in Seq(Rows)
  PROVE  Merge(t, AsTable(SubSeq(rows, 1, 0))) = t
<1>1. /\ 0 \in Nat /\ 0 <= 0 /\ 0 <= Len(rows) /\ 0 + 1 = 1
      /\ Distinct(rows, 0)
  BY LenProperties DEF Distinct
<1>2. PICK a \in Tables :
        /\ a = AsTable(SubSeq(rows, 0 + 1, 0))
        /\ \A id : id \in DOMAIN a <=> \E i \in 0 + 1..0 : rows[i][1] = id
  <2>1. \E x \in Tables : x = AsTable(SubSeq(rows, 0 + 1, 0)) /\ Tabulates(x, rows, 0 + 1..0)
    BY <1>1, SliceTable
  <2>2. QED
    BY <2>1, Zenon DEF Tabulates
<1>3. 0 + 1..0 = {}
  OBVIOUS
<1>4. DOMAIN a = {}
  BY <1>2, <1>3
<1>5. t = [id \in DOMAIN t |-> t[id]]
  BY DEF Tables
<1>6. Merge(t, a) = [id \in DOMAIN t |-> t[id]]
  BY <1>4 DEF Merge
<1>7. QED
  BY <1>1, <1>2, <1>5, <1>6

(* What add_batch has inserted when n rows of its data are in.             *)
Inserted(users, before, given, n) ==
  /\ n <= Len(given)
  /\ Distinct(given, n)
  /\ \A i \in 1..n : given[i][1] \notin DOMAIN before
  /\ users = Merge(before, AsTable(SubSeq(given, 1, n)))

(* A number of rows in whole chunks.                                       *)
Whole(n) == \E k \in Nat : n = k * BatchSize

LEMMA WholeChunks ==
  /\ BatchSize \in Nat /\ BatchSize > 0
  /\ Whole(0)
  /\ \A n \in Nat : Whole(n) => Whole(n + BatchSize) /\ n % BatchSize = 0
  /\ \A m, n \in Nat : Whole(m) /\ Whole(n) => Whole(m + n)
<1> PICK b \in Nat : b = BatchSize /\ b > 0
  BY RepositoryAssumption DEF BatchSize, Columns
<1>1. 0 = 0 * b
  OBVIOUS
<1>2. ASSUME NEW k \in Nat
      PROVE  k * b \in Nat /\ k * b + b = (k + 1) * b /\ (k * b) % b = 0
  OBVIOUS
<1>3. Whole(0)
  BY <1>1 DEF Whole
<1>4. ASSUME NEW n \in Nat, Whole(n) PROVE Whole(n + BatchSize) /\ n % BatchSize = 0
  <2>1. PICK k \in Nat : n = k * b
    BY <1>4 DEF Whole
  <2>2. n + b = (k + 1) * b /\ k + 1 \in Nat /\ n % b = 0
    BY <1>2, <2>1
  <2>3. QED
    BY <2>2 DEF Whole
<1>5. ASSUME NEW m \in Nat, NEW n \in Nat, Whole(m), Whole(n) PROVE Whole(m + n)
  <2>1. PICK k \in Nat : m = k * b
    BY <1>5 DEF Whole
  <2>2. PICK l \in Nat : n = l * b
    BY <1>5 DEF Whole
  <2>3. m + n = (k + l) * b /\ k + l \in Nat
    BY <2>1, <2>2
  <2>4. QED
    BY <2>3 DEF Whole
<1>6. QED
  BY <1>3, <1>4, <1>5

(* The ids of a chunk that is not refused are new, and each comes once.    *)
LEMMA ChunkNew ==
  ASSUME TypeOK, ~Refused
  PROVE  /\ Distinct(Chunk, Len(Chunk))
         /\ \A i \in 1..Len(Chunk) : Chunk[i][1] \notin DOMAIN View.users
<1>1. PICK c : c = Chunk
  OBVIOUS
<1>2. PICK m \in Nat : m = Len(c) /\ DOMAIN c = 1..m
  BY <1>1, ChunkTyped, TypeParts
<1>3. PICK ids : ids = ChunkIds
  OBVIOUS
<1>4. PICK f : f = [i \in 1..m |-> c[i][1]]
  OBVIOUS
<1>5. ids = {c[i][1] : i \in 1..m}
  BY <1>1, <1>2, <1>3 DEF ChunkIds
<1>6. f \in [1..m -> ids] /\ \A id \in ids : \E i \in 1..m : f[i] = id
  BY <1>4, <1>5
<1>7. f \in Surjection(1..m, ids)
  BY <1>6 DEF Surjection
<1>8. IsFiniteSet(1..m) /\ Cardinality(1..m) = m
  BY FS_Interval
<1>9. Cardinality(ids) = m
  BY <1>1, <1>2, <1>3 DEF Refused
<1>10. f \in Injection(1..m, ids)
  BY <1>7, <1>8, <1>9, FS_Surjection
<1>11. \A i, j \in 1..m : i # j => f[i] # f[j]
  BY <1>10 DEF Injection, IsInjective
<1>12. \A i, j \in 1..m : i # j => c[i][1] # c[j][1]
  BY <1>4, <1>11
<1>13. Distinct(c, m)
  BY <1>12 DEF Distinct
<1>14. \A i \in 1..m : c[i][1] \notin DOMAIN View.users
  <2>1. ids \cap DOMAIN View.users = {}
    BY <1>3 DEF Refused
  <2>2. \A i \in 1..m : c[i][1] \in ids
    BY <1>5
  <2>3. QED
    BY <2>1, <2>2
<1>15. QED
  BY <1>1, <1>2, <1>13, <1>14

(* A slice of a slice is a slice.                                          *)
LEMMA SliceOfSlice ==
  ASSUME NEW rows \in Seq(Rows), NEW n \in Nat, n <= Len(rows),
         NEW rest, rest = SubSeq(rows, n + 1, Len(rows)),
         NEW a \in Nat, NEW b \in Nat, a <= b, n + b <= Len(rows)
  PROVE  SubSeq(rest, a + 1, b) = SubSeq(rows, (n + a) + 1, n + b)
<1>1. PICK l \in Nat : l = Len(rows)
  BY LenProperties
<1>2. PICK k \in Nat : k = l - n
  <2>1. l - n \in Nat
    BY <1>1
  <2>2. QED
    BY <2>1
<1>3. rest \in Seq(Rows) /\ Len(rest) = k /\ \A i \in 1..k : rest[i] = rows[n + i]
  <2>1. rest = SubSeq(rows, n + 1, l) /\ n <= l /\ l <= Len(rows)
    BY <1>1
  <2>2. /\ SubSeq(rows, n + 1, l) \in Seq(Rows) /\ Len(SubSeq(rows, n + 1, l)) = l - n
        /\ \A i \in 1..l - n : SubSeq(rows, n + 1, l)[i] = rows[n + i]
    BY <2>1, FirstRows
  <2>3. QED
    BY <1>2, <2>1, <2>2
<1>4. PICK s : s = SubSeq(rest, a + 1, b)
  OBVIOUS
<1>5. PICK d \in Nat : d = b - a
  OBVIOUS
<1>6. s \in Seq(Rows) /\ Len(s) = d /\ \A i \in 1..d : s[i] = rest[a + i]
  <2>1. b <= Len(rest)
    BY <1>1, <1>2, <1>3
  <2>2. QED
    BY <1>3, <1>4, <1>5, <2>1, FirstRows
<1>7. PICK t : t = SubSeq(rows, (n + a) + 1, n + b)
  OBVIOUS
<1>8. t \in Seq(Rows) /\ Len(t) = d /\ \A i \in 1..d : t[i] = rows[(n + a) + i]
  <2>1. n + a \in Nat /\ n + b \in Nat /\ n + a <= n + b /\ (n + b) - (n + a) = d
    BY <1>5
  <2>2. QED
    BY <1>7, <2>1, FirstRows
<1>9. ASSUME NEW i \in 1..d PROVE s[i] = t[i]
  <2>1. a + i \in 1..k /\ n + (a + i) = (n + a) + i
    BY <1>1, <1>2, <1>5
  <2>2. s[i] = rest[a + i] /\ rest[a + i] = rows[n + (a + i)] /\ t[i] = rows[(n + a) + i]
    BY <1>3, <1>6, <1>8, <2>1
  <2>3. QED
    BY <2>1, <2>2
<1>10. s = t
  <2>1. Len(s) = Len(t) /\ \A i \in 1..Len(s) : s[i] = t[i]
    BY <1>6, <1>8, <1>9
  <2>2. QED
    BY <1>6, <1>8, <2>1, SeqEqual
<1>11. QED
  BY <1>4, <1>7, <1>10

(* The ids of the first rows.                                              *)
FirstIds(given, n) == [i \in 1..n |-> given[i][1]]

(* m rows of the data, from the one after n.                               *)
Slice(c, given, n, m) == DOMAIN c = 1..m /\ \A i \in 1..m : c[i] = given[n + i]

LEMMA MoreIds ==
  ASSUME NEW given \in Seq(Rows), NEW n \in Nat, NEW m \in Nat, n + m <= Len(given),
         NEW c, Slice(c, given, n, m)
  PROVE  FirstIds(given, n) \o Returned(c) = FirstIds(given, n + m)
<1>1. \A i \in 1..n + m : i \in 1..Len(given) /\ given[i] \in Rows
  <2>1. Len(given) \in Nat
    BY LenProperties
  <2>2. \A i \in 1..n + m : i \in 1..Len(given)
    BY <2>1
  <2>3. QED
    BY <2>2, ElementOfSeq
<1>2. PICK f : f = FirstIds(given, n)
  OBVIOUS
<1>3. PICK r : r = Returned(c)
  OBVIOUS
<1>4. PICK g : g = FirstIds(given, n + m)
  OBVIOUS
<1>5. f \in Seq(Ids) /\ Len(f) = n /\ \A i \in 1..n : f[i] = given[i][1]
  <2>1. \A i \in 1..n : i \in 1..n + m
    OBVIOUS
  <2>2. f \in [1..n -> Ids] /\ \A i \in 1..n : f[i] = given[i][1]
    BY <1>1, <1>2, <2>1 DEF FirstIds, Rows
  <2>3. QED
    BY <2>2, Sized
<1>6. r \in Seq(Ids) /\ Len(r) = m /\ \A i \in 1..m : r[i] = given[n + i][1]
  <2>1. \A i \in 1..m : n + i \in 1..n + m
    OBVIOUS
  <2>2. r = [i \in 1..m |-> c[i][1]]
    BY <1>3 DEF Returned, Slice
  <2>3. r \in [1..m -> Ids] /\ \A i \in 1..m : r[i] = given[n + i][1]
    BY <1>1, <2>1, <2>2 DEF Rows, Slice
  <2>4. QED
    BY <2>3, Sized
<1>7. g \in Seq(Ids) /\ Len(g) = n + m /\ \A i \in 1..n + m : g[i] = given[i][1]
  <2>1. g \in [1..n + m -> Ids] /\ \A i \in 1..n + m : g[i] = given[i][1]
    BY <1>1, <1>4 DEF FirstIds, Rows
  <2>2. n + m \in Nat
    OBVIOUS
  <2>3. QED
    BY <2>1, <2>2, Sized
<1>8. PICK h : h = f \o r
  OBVIOUS
<1>9. /\ h \in Seq(Ids) /\ Len(h) = n + m
      /\ \A i \in 1..n + m : h[i] = IF i <= n THEN f[i] ELSE r[i - n]
  <2>1. /\ f \o r \in Seq(Ids) /\ Len(f \o r) = Len(f) + Len(r)
        /\ \A i \in 1..Len(f) + Len(r) :
             (f \o r)[i] = IF i <= Len(f) THEN f[i] ELSE r[i - Len(f)]
    BY <1>5, <1>6, ConcatProperties
  <2>2. QED
    BY <1>5, <1>6, <1>8, <2>1
<1>10. ASSUME NEW i \in 1..n + m PROVE h[i] = g[i]
  <2>1. CASE i <= n
    <3>1. i \in 1..n
      BY <2>1
    <3>2. QED
      BY <1>5, <1>7, <1>9, <2>1, <3>1
  <2>2. CASE ~(i <= n)
    <3>1. i - n \in 1..m /\ n + (i - n) = i
      BY <2>2
    <3>2. h[i] = r[i - n] /\ r[i - n] = given[n + (i - n)][1]
      BY <1>6, <1>9, <2>2, <3>1
    <3>3. QED
      BY <1>7, <3>1, <3>2
  <2>3. QED
    BY <2>1, <2>2
<1>11. h = g
  BY <1>7, <1>9, <1>10, SeqEqual
<1>12. QED
  BY <1>2, <1>3, <1>4, <1>8, <1>11

(* The rows of a batch that did not go with a lost connection.             *)
Keeps(b) == SubSeq(b.given, b.lost + 1, Len(b.given))

LEMMA KeptRows ==
  ASSUME NEW given \in Seq(Rows), NEW lost \in Nat, lost <= Len(given)
  PROVE  \E kept \in Seq(Rows) :
           /\ kept = SubSeq(given, lost + 1, Len(given))
           /\ Len(kept) \in Nat /\ lost + Len(kept) = Len(given)
           /\ \A i \in 1..Len(kept) : kept[i] = given[lost + i]
<1>1. PICK l \in Nat : l = Len(given)
  BY LenProperties
<1>2. PICK k \in Nat : k = l - lost /\ lost + k = l
  <2>1. l - lost \in Nat /\ lost + (l - lost) = l
    BY <1>1
  <2>2. QED
    BY <2>1
<1>3. lost <= l /\ l <= Len(given)
  BY <1>1
<1>4. PICK kept : kept = SubSeq(given, lost + 1, l)
  OBVIOUS
<1>5. kept \in Seq(Rows) /\ Len(kept) = k /\ \A i \in 1..k : kept[i] = given[lost + i]
  BY <1>2, <1>3, <1>4, FirstRows
<1>6. QED
  BY <1>1, <1>2, <1>4, <1>5

(* A batch under way: its first rows, in whole chunks, are inserted, and   *)
(* those that are lost were whole chunks too.                              *)
InsertedSoFar(n) ==
  /\ n < Len(Keeps(batch)) /\ Whole(n)
  /\ batch.rows = SubSeq(Keeps(batch), n + 1, Len(Keeps(batch)))
  /\ batch.done = FirstIds(batch.given, batch.lost + n)
  /\ Inserted(View.users, batch.before, Keeps(batch), n)

Losses ==
  /\ batch.lost <= Len(batch.given) /\ Whole(batch.lost)
  /\ batch.lost > 0 => InTransaction /\ faults > 0

Progress ==
  batch # NoBatch => batch.before \in Tables /\ Losses /\ \E n \in Nat : InsertedSoFar(n)

(* The next chunk of it.                                                   *)
ChunkAt(n, m) ==
  /\ m > 0 /\ m <= BatchSize /\ n + m <= Len(Keeps(batch))
  /\ Whole(n + m) \/ n + m = Len(Keeps(batch))
  /\ Chunk = SubSeq(Keeps(batch), n + 1, n + m) /\ Len(Chunk) = m /\ DOMAIN Chunk = 1..m
  /\ \A i \in 1..m : Chunk[i] = Keeps(batch)[n + i]
  /\ Rest(batch.rows, m) = SubSeq(Keeps(batch), (n + m) + 1, Len(Keeps(batch)))
  /\ Rest(batch.rows, m) = <<>> <=> n + m = Len(Keeps(batch))
  /\ batch.done \o Returned(Chunk) = FirstIds(batch.given, batch.lost + (n + m))

LEMMA KeptTyped ==
  ASSUME Batch, batch.lost <= Len(batch.given)
  PROVE  /\ batch.given \in Seq(Rows) /\ batch.lost \in Nat
         /\ Keeps(batch) \in Seq(Rows) /\ Len(Keeps(batch)) \in Nat
         /\ batch.lost + Len(Keeps(batch)) = Len(batch.given)
         /\ \A i \in 1..Len(Keeps(batch)) : Keeps(batch)[i] = batch.given[batch.lost + i]
<1>1. PICK given \in Seq(Rows) : given = batch.given
  BY DEF Batch
<1>2. PICK lost \in Nat : lost = batch.lost
  BY DEF Batch
<1>3. PICK kept \in Seq(Rows) :
        /\ kept = SubSeq(given, lost + 1, Len(given))
        /\ Len(kept) \in Nat /\ lost + Len(kept) = Len(given)
        /\ \A i \in 1..Len(kept) : kept[i] = given[lost + i]
  BY <1>1, <1>2, KeptRows
<1>4. kept = Keeps(batch)
  BY <1>1, <1>2, <1>3 DEF Keeps
<1>5. QED
  BY <1>1, <1>2, <1>3, <1>4

LEMMA NextChunk ==
  ASSUME Batch, batch.lost <= Len(batch.given), NEW n \in Nat, InsertedSoFar(n)
  PROVE  \E m \in Nat : ChunkAt(n, m)
<1>1. PICK given \in Seq(Rows) : given = Keeps(batch)
  BY KeptTyped
<1>2. PICK l \in Nat : l = Len(given)
  BY LenProperties
<1>3. PICK k \in Nat : k = l - n /\ k > 0
  <2>1. l - n \in Nat /\ l - n > 0
    BY <1>1, <1>2 DEF InsertedSoFar
  <2>2. QED
    BY <2>1
<1>4. PICK rest : rest = batch.rows
  OBVIOUS
<1>5. rest = SubSeq(given, n + 1, Len(given)) /\ rest \in Seq(Rows) /\ Len(rest) = k
  <2>1. rest = SubSeq(given, n + 1, Len(given))
    BY <1>1, <1>4 DEF InsertedSoFar
  <2>2. n <= l /\ l <= Len(given)
    BY <1>2, <1>3
  <2>3. /\ SubSeq(given, n + 1, l) \in Seq(Rows) /\ Len(SubSeq(given, n + 1, l)) = l - n
    BY <2>2, FirstRows
  <2>4. QED
    BY <1>2, <1>3, <2>1, <2>3
<1>6. PICK b \in Nat : b = BatchSize /\ b > 0
  BY WholeChunks
<1>7. PICK m \in Nat : /\ m = Min(b, k) /\ m > 0 /\ m <= b /\ m <= k
                       /\ m = b \/ m = k
  <2>1. Min(b, k) \in Nat /\ Min(b, k) > 0 /\ Min(b, k) <= b /\ Min(b, k) <= k
        /\ (Min(b, k) = b \/ Min(b, k) = k)
    BY <1>3, <1>6 DEF Min
  <2>2. QED
    BY <2>1
<1>8. n + m <= l /\ (m = b \/ n + m = l) /\ n + k = l
  BY <1>3, <1>7
<1>9. Chunk = SubSeq(given, n + 1, n + m)
  <2>1. Chunk = SubSeq(rest, 0 + 1, m)
    <3>1. Chunk = SubSeq(batch.rows, 1, Min(BatchSize, Len(batch.rows))) /\ 0 + 1 = 1
      BY DEF Chunk
    <3>2. Min(BatchSize, Len(batch.rows)) = m
      BY <1>4, <1>5, <1>6, <1>7
    <3>3. QED
      BY <1>4, <3>1, <3>2
  <2>2. 0 \in Nat /\ 0 <= m /\ n <= Len(given) /\ n + m <= Len(given) /\ n + 0 = n
    BY <1>2, <1>8
  <2>3. SubSeq(rest, 0 + 1, m) = SubSeq(given, (n + 0) + 1, n + m)
    BY <1>5, <2>2, SliceOfSlice
  <2>4. QED
    BY <2>1, <2>2, <2>3
<1>10. Len(Chunk) = m /\ DOMAIN Chunk = 1..m /\ \A i \in 1..m : Chunk[i] = given[n + i]
  <2>1. n + m \in Nat /\ n <= n + m /\ n + m <= Len(given) /\ (n + m) - n = m
    BY <1>2, <1>8
  <2>2. /\ SubSeq(given, n + 1, n + m) \in Seq(Rows)
        /\ Len(SubSeq(given, n + 1, n + m)) = (n + m) - n
        /\ \A i \in 1..(n + m) - n : SubSeq(given, n + 1, n + m)[i] = given[n + i]
    BY <2>1, FirstRows
  <2>3. Chunk \in Seq(Rows) /\ Len(Chunk) = m /\ \A i \in 1..m : Chunk[i] = given[n + i]
    BY <1>9, <2>1, <2>2
  <2>4. QED
    BY <2>3, LenProperties
<1>11. Rest(rest, m) = SubSeq(given, (n + m) + 1, Len(given))
  <2>1. n <= Len(given) /\ m <= k /\ n + k = Len(given)
    BY <1>2, <1>7, <1>8
  <2>2. SubSeq(rest, m + 1, k) = SubSeq(given, (n + m) + 1, n + k)
    BY <1>5, <2>1, SliceOfSlice
  <2>3. Rest(rest, m) = SubSeq(rest, m + 1, k)
    BY <1>5 DEF Rest
  <2>4. QED
    BY <2>1, <2>2, <2>3
<1>12. Rest(rest, m) = <<>> <=> n + m = l
  <2>1. PICK s : s = SubSeq(given, (n + m) + 1, l)
    OBVIOUS
  <2>2. n + m \in Nat /\ n + m <= l /\ l <= Len(given)
    BY <1>2, <1>8
  <2>3. s \in Seq(Rows) /\ Len(s) = l - (n + m)
    BY <2>1, <2>2, FirstRows
  <2>4. s = <<>> <=> Len(s) = 0
    BY <2>3, EmptySeq
  <2>5. QED
    BY <1>2, <1>11, <2>1, <2>2, <2>3, <2>4
<1>13. batch.done \o Returned(Chunk) = FirstIds(batch.given, batch.lost + (n + m))
  <2>1. PICK data \in Seq(Rows) : data = batch.given
    BY DEF Batch
  <2>2. PICK lost \in Nat : lost = batch.lost
    BY DEF Batch
  <2>3. lost + l = Len(data) /\ \A i \in 1..l : given[i] = data[lost + i]
    BY <1>1, <1>2, <2>1, <2>2, KeptTyped
  <2>4. PICK at \in Nat : at = lost + n
    OBVIOUS
  <2>5. batch.done = FirstIds(data, at)
    BY <2>1, <2>2, <2>4 DEF InsertedSoFar
  <2>6. at + m <= Len(data) /\ at + m = lost + (n + m)
    BY <1>2, <1>8, <2>3, <2>4
  <2>7. PICK c : c = Chunk
    OBVIOUS
  <2>8. \A i \in 1..m : c[i] = data[at + i]
    <3> SUFFICES ASSUME NEW i \in 1..m PROVE c[i] = data[at + i]
      OBVIOUS
    <3>1. n + i \in 1..l /\ lost + (n + i) = at + i
      BY <1>8, <2>4
    <3>2. c[i] = given[n + i] /\ given[n + i] = data[lost + (n + i)]
      BY <1>10, <2>3, <2>7, <3>1
    <3>3. QED
      BY <3>1, <3>2
  <2>9. Slice(c, data, at, m)
    BY <1>10, <2>7, <2>8, Zenon DEF Slice
  <2>10. FirstIds(data, at) \o Returned(c) = FirstIds(data, at + m)
    BY <2>6, <2>9, MoreIds
  <2>11. QED
    BY <2>1, <2>2, <2>5, <2>6, <2>7, <2>10
<1>14. Whole(n + m) \/ n + m = l
  <2>1. Whole(n)
    BY DEF InsertedSoFar
  <2>2. QED
    BY <1>6, <1>8, <2>1, WholeChunks
<1>15. ChunkAt(n, m)
  BY <1>1, <1>2, <1>4, <1>6, <1>7, <1>8, <1>9, <1>10, <1>11, <1>12, <1>13, <1>14, Zenon DEF ChunkAt
<1>16. QED
  BY <1>15

(* With it, if it is not refused, more rows are inserted.                  *)
LEMMA MoreInserted ==
  ASSUME TypeOK, batch.before \in Tables, batch.lost <= Len(batch.given),
         NEW n \in Nat, NEW m \in Nat, InsertedSoFar(n), ChunkAt(n, m), ~Refused
  PROVE  Inserted(WithChunk.users, batch.before, Keeps(batch), n + m)
<1>1. PICK given \in Seq(Rows) : given = Keeps(batch)
  BY KeptTyped, TypeParts
<1>2. PICK before \in Tables : before = batch.before
  OBVIOUS
<1>3. PICK users : users = View.users
  OBVIOUS
<1>4. PICK k \in Nat : k = n + m
  OBVIOUS
<1>5. k <= Len(given) /\ n <= k
  BY <1>1, <1>4 DEF ChunkAt
<1>6. /\ Distinct(given, n) /\ \A i \in 1..n : given[i][1] \notin DOMAIN before
      /\ users = Merge(before, AsTable(SubSeq(given, 1, n)))
  BY <1>1, <1>2, <1>3 DEF InsertedSoFar, Inserted
<1>7. \A i \in 1..m : Chunk[i] = given[n + i]
  BY <1>1 DEF ChunkAt
<1>8. /\ \A i, j \in 1..m : i # j => Chunk[i][1] # Chunk[j][1]
      /\ \A i \in 1..m : Chunk[i][1] \notin DOMAIN users
  <2>1. Len(Chunk) = m
    BY DEF ChunkAt
  <2>2. /\ Distinct(Chunk, Len(Chunk))
        /\ \A i \in 1..Len(Chunk) : Chunk[i][1] \notin DOMAIN View.users
    BY ChunkNew
  <2>3. Distinct(Chunk, m) /\ \A i \in 1..m : Chunk[i][1] \notin DOMAIN View.users
    BY <2>1, <2>2
  <2>4. QED
    BY <1>3, <2>3 DEF Distinct
<1>9. /\ \A i \in 1..n : given[i][1] \in DOMAIN users
      /\ \A id \in DOMAIN before : id \in DOMAIN users
  <2>1. /\ 0 \in Nat /\ 0 <= n /\ n <= Len(given) /\ 0 + 1 = 1 /\ Distinct(given, n)
    BY <1>5, <1>6, LenProperties
  <2>2. PICK a \in Tables :
          /\ a = AsTable(SubSeq(given, 0 + 1, n))
          /\ \A id : id \in DOMAIN a <=> \E i \in 0 + 1..n : given[i][1] = id
          /\ \A i \in 0 + 1..n : a[given[i][1]] = given[i][2]
    <3>1. \E x \in Tables : x = AsTable(SubSeq(given, 0 + 1, n)) /\ Tabulates(x, given, 0 + 1..n)
      BY <2>1, SliceTable
    <3>2. QED
      BY <3>1, Zenon DEF Tabulates
  <2>3. DOMAIN users = DOMAIN before \cup DOMAIN a
    <3>1. users = Merge(before, a)
      BY <1>6, <2>1, <2>2
    <3>2. QED
      BY <3>1 DEF Merge
  <2>4. \A i \in 1..n : given[i][1] \in DOMAIN a
    BY <2>1, <2>2
  <2>5. QED
    BY <2>3, <2>4
<1>10. \A i \in 1..k : i \in 1..n \/ (i - n \in 1..m /\ n + (i - n) = i)
  BY <1>4
<1>11. ASSUME NEW i \in 1..k, i \notin 1..n
       PROVE  /\ given[i][1] \notin DOMAIN users
              /\ \A j \in 1..k : j # i => given[j][1] # given[i][1]
  <2>1. i - n \in 1..m /\ Chunk[i - n] = given[i]
    BY <1>7, <1>10, <1>11
  <2>2. given[i][1] \notin DOMAIN users
    BY <1>8, <2>1
  <2>3. ASSUME NEW j \in 1..k, j # i PROVE given[j][1] # given[i][1]
    <3>1. CASE j \in 1..n
      BY <1>9, <2>2, <3>1
    <3>2. CASE j \notin 1..n
      <4>1. j - n \in 1..m /\ Chunk[j - n] = given[j]
        BY <1>7, <1>10, <3>2
      <4>2. j - n # i - n
        BY <2>3
      <4>3. QED
        BY <1>8, <2>1, <4>1, <4>2
    <3>3. QED
      BY <3>1, <3>2
  <2>4. QED
    BY <2>2, <2>3
<1>12. Distinct(given, k)
  <2> SUFFICES ASSUME NEW i \in 1..k, NEW j \in 1..k, i # j PROVE given[i][1] # given[j][1]
    BY DEF Distinct
  <2>1. CASE i \in 1..n /\ j \in 1..n
    BY <1>6, <2>1 DEF Distinct
  <2>2. CASE i \notin 1..n
    BY <1>11, <2>2
  <2>3. CASE j \notin 1..n
    BY <1>11, <2>3
  <2>4. QED
    BY <2>1, <2>2, <2>3
<1>13. \A i \in 1..k : given[i][1] \notin DOMAIN before
  BY <1>6, <1>9, <1>11
<1>14. WithChunk.users = Merge(before, AsTable(SubSeq(given, 1, k)))
  <2>1. WithChunk.users = Merge(users, AsTable(Chunk))
    BY <1>3, ChunkInserted
  <2>2. Chunk = SubSeq(given, n + 1, k)
    BY <1>1, <1>4 DEF ChunkAt
  <2>3. Merge(Merge(before, AsTable(SubSeq(given, 1, n))), AsTable(SubSeq(given, n + 1, k)))
          = Merge(before, AsTable(SubSeq(given, 1, k)))
    BY <1>5, <1>12, MergedChunks
  <2>4. QED
    BY <1>6, <2>1, <2>2, <2>3
<1>15. Inserted(WithChunk.users, before, given, k)
  BY <1>5, <1>12, <1>13, <1>14, Zenon DEF Inserted
<1>16. QED
  BY <1>1, <1>2, <1>4, <1>15

(* What add_batch says of a number of rows, when it is done, and of those  *)
(* that are lost.                                                          *)
Outcome(a, users) ==
  \E n \in 0..Len(Keeps(a)) :
    /\ Inserted(users, a.before, Keeps(a), n)
    /\ IF a.got = "rows"
         THEN n = Len(Keeps(a)) /\ a.rows = FirstIds(a.given, Len(a.given))
         ELSE /\ n % BatchSize = 0 \/ n = Len(Keeps(a))
              /\ a.lost + n - Len(a.rows) \in 0..BatchSize

LosesWhole(a) == a.lost % BatchSize = 0 /\ (a.lost > 0 => InTransaction /\ faults > 0)

LEMMA SaysSo ==
  BatchOutcome <=> (answer.kind = "batch" => LosesWhole(answer) /\ Outcome(answer, View.users))
<1> DEFINE kept == SubSeq(answer.given, answer.lost + 1, Len(answer.given))
           ids == [i \in 1..Len(answer.given) |-> answer.given[i][1]]
<1>1. kept = Keeps(answer) /\ ids = FirstIds(answer.given, Len(answer.given))
  BY DEF Keeps, FirstIds
<1>2. BatchOutcome <=>
        (answer.kind = "batch" =>
           /\ LosesWhole(answer)
           /\ \E n \in 0..Len(kept) :
                /\ \A i, j \in 1..n : i # j => kept[i][1] # kept[j][1]
                /\ \A i \in 1..n : kept[i][1] \notin DOMAIN answer.before
                /\ View.users = Merge(answer.before, AsTable(SubSeq(kept, 1, n)))
                /\ IF answer.got = "rows"
                     THEN n = Len(kept) /\ answer.rows = ids
                     ELSE /\ n % BatchSize = 0 \/ n = Len(kept)
                          /\ answer.lost + n - Len(answer.rows) \in 0..BatchSize)
  BY Zenon DEF BatchOutcome, LosesWhole
<1> HIDE DEF kept, ids
<1>3. ASSUME NEW n \in 0..Len(kept)
      PROVE  Inserted(View.users, answer.before, kept, n) <=>
               /\ \A i, j \in 1..n : i # j => kept[i][1] # kept[j][1]
               /\ \A i \in 1..n : kept[i][1] \notin DOMAIN answer.before
               /\ View.users = Merge(answer.before, AsTable(SubSeq(kept, 1, n)))
  <2>1. n <= Len(kept)
    OBVIOUS
  <2>2. QED
    BY <2>1, Zenon DEF Inserted, Distinct
<1>4. QED
  BY <1>1, <1>2, <1>3, Zenon DEF Outcome

LEMMA IdsListed ==
  ASSUME NEW given \in Seq(Rows), NEW n \in Nat, n <= Len(given)
  PROVE  Len(FirstIds(given, n)) = n
<1>1. \A i \in 1..n : i \in 1..Len(given) /\ given[i] \in Rows
  <2>1. \A i \in 1..n : i \in 1..Len(given)
    BY LenProperties
  <2>2. QED
    BY <2>1, ElementOfSeq
<1>2. FirstIds(given, n) \in [1..n -> Ids]
  BY <1>1 DEF FirstIds, Rows
<1>3. QED
  BY <1>2, Sized

LEMMA BatchStarts ==
  ASSUME Shape, NEW rows \in Batches, AddBatch(rows)
  PROVE  Progress' /\ (answer' = answer \/ answer'.kind = "write")
<1>1. TypeOK /\ batch = NoBatch
  BY DEF Shape, AddBatch, Idle
<1>2. CASE rows = <<>>
  BY <1>1, <1>2 DEF AddBatch, Progress, Raise, Wrote
<1>3. CASE rows # <<>>
  <2>1. /\ batch' = [rows |-> rows, done |-> <<>>, given |-> rows, lost |-> 0,
                     before |-> View.users]
        /\ UNCHANGED <<dbVars, answer>>
    BY <1>3 DEF AddBatch
  <2>2. View' = View
    BY <1>1, <2>1, Still
  <2>3. PICK before \in Tables : before = View.users
    BY <1>1, Blocks, DatabaseParts
  <2>4. rows \in Seq(Rows) /\ Len(rows) \in Nat /\ 0 < Len(rows)
    <3>1. rows \in Seq(Rows)
      BY RepositoryAssumption
    <3>2. QED
      BY <1>3, <3>1, EmptySeq
  <2>5. rows = SubSeq(rows, 0 + 1, Len(rows))
    BY <2>4, SubSeqFull
  <2>6. FirstIds(rows, 0) = <<>>
    BY DEF FirstIds
  <2>7. Inserted(before, before, rows, 0)
    <3>1. 1..0 = {} /\ 0 <= Len(rows)
      BY <2>4
    <3>2. before = Merge(before, AsTable(SubSeq(rows, 1, 0)))
      BY <2>4, MergedNone
    <3>3. QED
      BY <3>1, <3>2 DEF Inserted, Distinct
  <2>8. /\ batch'.rows = rows /\ batch'.given = rows /\ batch'.done = <<>>
        /\ batch'.before = before /\ batch'.lost = 0
    BY <2>1, <2>3
  <2>9. Keeps(batch)' = rows /\ 0 + 0 = 0
    BY <2>5, <2>8 DEF Keeps
  <2>10. InsertedSoFar(0)'
    BY <2>2, <2>3, <2>4, <2>5, <2>6, <2>7, <2>8, <2>9, WholeChunks
       DEF InsertedSoFar, Whole, BatchSize
  <2>11. Losses'
    BY <2>4, <2>8, WholeChunks DEF Losses, Whole, BatchSize
  <2>12. QED
    BY <2>1, <2>3, <2>8, <2>10, <2>11 DEF Progress
<1>4. QED
  BY <1>2, <1>3

LEMMA BatchContinues ==
  ASSUME Shape, Progress, InsertChunk
  PROVE  Progress' /\ BatchOutcome'
<1>1. TypeOK /\ Batch /\ batch # NoBatch /\ answer = Silence
  BY TypeParts DEF Shape, InsertChunk, Calls
<1>2. batch.before \in Tables /\ Losses /\ \E n \in Nat : InsertedSoFar(n)
  BY <1>1 DEF Progress
<1>3. PICK n \in Nat : InsertedSoFar(n)
  BY <1>2
<1>4. PICK m \in Nat : ChunkAt(n, m)
  BY <1>1, <1>2, <1>3, NextChunk DEF Losses
<1>5. PICK k \in Nat : k = n + m
  OBVIOUS
<1>6. PICK given \in Seq(Rows) : given = Keeps(batch)
  BY <1>1, <1>2, KeptTyped DEF Losses
<1>7. PICK before \in Tables : before = batch.before
  BY <1>2
<1>8. View' = WithChunk /\ (InTransaction' <=> InTransaction) /\ faults' = faults
  <2>1. Becomes(WithChunk)
    BY DEF InsertChunk
  <2>2. WithChunk \in Database /\ (Announces(View) => Announces(WithChunk))
    BY <1>1, ChunkInserted
  <2>3. PICK d \in Database : d = WithChunk
    BY <2>2
  <2>4. Becomes(d) /\ (Announces(View) => Announces(d))
    BY <2>1, <2>2, <2>3
  <2>5. View' = d /\ (InTransaction' <=> InTransaction)
    BY <1>1, <2>4, Statement
  <2>6. QED
    BY <2>3, <2>5 DEF InsertChunk
<1>9. Inserted(View'.users, before, given, k)
  <2>1. Inserted(WithChunk.users, batch.before, Keeps(batch), n + m)
    BY <1>1, <1>2, <1>3, <1>4, MoreInserted DEF InsertChunk, Losses
  <2>2. QED
    BY <1>5, <1>6, <1>7, <1>8, <2>1
<1>10. PICK rest : rest = Rest(batch.rows, Len(Chunk))
  OBVIOUS
<1>11. PICK done : done = batch.done \o Returned(Chunk)
  OBVIOUS
<1>12. /\ rest = SubSeq(given, k + 1, Len(given)) /\ (rest = <<>> <=> k = Len(given))
       /\ k <= Len(given) /\ (Whole(k) \/ k = Len(given))
  BY <1>4, <1>5, <1>6, <1>10 DEF ChunkAt
<1> PICK data \in Seq(Rows) : data = batch.given
  BY <1>1 DEF Batch
<1> PICK lost \in Nat : lost = batch.lost
  BY <1>1 DEF Batch
<1>13. /\ lost + Len(given) = Len(data) /\ lost <= Len(data) /\ Whole(lost)
       /\ lost > 0 => InTransaction /\ faults > 0
       /\ done = FirstIds(data, lost + k) /\ given = SubSeq(data, lost + 1, Len(data))
  <2>1. lost + Len(given) = Len(data)
    BY <1>1, <1>2, <1>6, KeptTyped DEF Losses
  <2>2. done = FirstIds(data, lost + k)
    BY <1>4, <1>5, <1>11 DEF ChunkAt
  <2>3. given = SubSeq(data, lost + 1, Len(data))
    BY <1>6 DEF Keeps
  <2>4. QED
    BY <1>2, <2>1, <2>2, <2>3 DEF Losses
<1>14. CASE rest = <<>>
  <2>1. batch' = NoBatch /\ answer' = BatchAnswer("rows", done)
    BY <1>10, <1>11, <1>14 DEF InsertChunk, Return
  <2>2. PICK a : a = [kind |-> "batch", got |-> "rows", rows |-> done, given |-> data,
                      lost |-> lost, before |-> before]
    OBVIOUS
  <2>3. answer' = a
    BY <1>7, <2>1, <2>2 DEF BatchAnswer
  <2>4. /\ a.kind = "batch" /\ a.got = "rows" /\ a.rows = done /\ a.given = data
        /\ a.lost = lost /\ a.before = before /\ Keeps(a) = given
    BY <1>13, <2>2 DEF Keeps
  <2>5. Outcome(a, View'.users)
    <3>1. k \in 0..Len(given)
      BY <1>6, <1>12, LenProperties
    <3>2. k = Len(given) /\ lost + k = Len(data)
      BY <1>12, <1>14, <1>13
    <3>3. a.rows = FirstIds(a.given, Len(a.given))
      BY <1>13, <2>4, <3>2
    <3>4. QED
      BY <1>9, <2>4, <3>1, <3>2, <3>3, Zenon DEF Outcome
  <2>6. LosesWhole(a)'
    <3>1. lost % BatchSize = 0 /\ (lost > 0 => InTransaction' /\ faults' > 0)
      BY <1>8, <1>13, WholeChunks
    <3>2. QED
      BY <2>4, <3>1 DEF LosesWhole, BatchSize
  <2>7. (answer.kind = "batch" => LosesWhole(answer) /\ Outcome(answer, View.users))'
    <3>1. Outcome(answer, View.users)'
      BY <2>3, <2>5 DEF Outcome, Inserted, Distinct, FirstIds, BatchSize, Keeps
    <3>2. LosesWhole(answer)'
      BY <2>3, <2>6 DEF LosesWhole
    <3>3. QED
      BY <3>1, <3>2
  <2>8. BatchOutcome'
    BY <2>7, SaysSo, PTL
  <2>9. Progress'
    BY <2>1 DEF Progress
  <2>10. QED
    BY <2>8, <2>9
<1>15. CASE rest # <<>>
  <2>1. batch' = [batch EXCEPT !.rows = rest, !.done = done] /\ answer' = answer
    BY <1>10, <1>11, <1>15 DEF InsertChunk
  <2>2. /\ batch'.rows = rest /\ batch'.done = done /\ batch'.given = data
        /\ batch'.lost = lost /\ batch'.before = before /\ Keeps(batch)' = given
    BY <1>1, <1>7, <1>13, <2>1 DEF Batch, Keeps
  <2>3. k < Len(given) /\ Whole(k)
    <3>1. k # Len(given) /\ Len(given) \in Nat
      BY <1>6, <1>12, <1>15, LenProperties
    <3>2. QED
      BY <1>12, <3>1
  <2>4. InsertedSoFar(k)'
    BY <1>9, <1>12, <1>13, <2>2, <2>3 DEF InsertedSoFar, Whole, BatchSize
  <2>5. Progress'
    <3>1. Losses'
      BY <1>8, <1>13, <2>2 DEF Losses, Whole, BatchSize
    <3>2. QED
      BY <2>2, <2>4, <3>1 DEF Progress
  <2>6. BatchOutcome'
    BY <1>1, <2>1 DEF BatchOutcome, Silence
  <2>7. QED
    BY <2>5, <2>6
<1>16. QED
  BY <1>14, <1>15

LEMMA BatchBreaks ==
  ASSUME Shape, Progress, ChunkFails
  PROVE  Progress' /\ BatchOutcome'
<1>1. TypeOK /\ Batch /\ batch # NoBatch
  BY TypeParts DEF Shape, ChunkFails
<1>2. batch.before \in Tables /\ Losses /\ \E n \in Nat : InsertedSoFar(n)
  BY <1>1 DEF Progress
<1>3. PICK n \in Nat : InsertedSoFar(n)
  BY <1>2
<1>4. PICK m \in Nat : ChunkAt(n, m)
  BY <1>1, <1>2, <1>3, NextChunk DEF Losses
<1>5. PICK k \in Nat : k = n + m
  OBVIOUS
<1>6. PICK given \in Seq(Rows) : given = Keeps(batch)
  BY <1>1, <1>2, KeptTyped DEF Losses
<1>7. PICK before \in Tables : before = batch.before
  BY <1>2
<1>8. PICK done : done = batch.done
  OBVIOUS
<1>9. /\ n < Len(given) /\ n + m <= Len(given) /\ m <= BatchSize
      /\ Whole(n) /\ (Whole(k) \/ k = Len(given))
      /\ Inserted(View.users, before, given, n)
  <2>1. n < Len(given) /\ Whole(n) /\ Inserted(View.users, before, given, n)
    BY <1>3, <1>6, <1>7 DEF InsertedSoFar
  <2>2. n + m <= Len(given) /\ m <= BatchSize /\ (Whole(k) \/ k = Len(given))
    BY <1>4, <1>5, <1>6 DEF ChunkAt
  <2>3. QED
    BY <2>1, <2>2
<1>10. /\ batch' = NoBatch /\ txn' = txn /\ gone' = gone /\ answer' = BatchAnswer("error", done)
       /\ durable' = durable \/ (~InTransaction /\ ~Refused /\ durable' = WithChunk)
       /\ faults' = faults \/ faults' = faults + 1
  BY <1>8 DEF ChunkFails, Raise, Fault
<1> PICK data \in Seq(Rows) : data = batch.given
  BY <1>1 DEF Batch
<1> PICK lost \in Nat : lost = batch.lost
  BY <1>1 DEF Batch
<1>11. /\ lost + Len(given) = Len(data) /\ Whole(lost)
       /\ lost > 0 => InTransaction /\ faults > 0
       /\ done = FirstIds(data, lost + n) /\ given = SubSeq(data, lost + 1, Len(data))
  <2>1. lost + Len(given) = Len(data)
    BY <1>1, <1>2, <1>6, KeptTyped DEF Losses
  <2>2. done = FirstIds(data, lost + n)
    BY <1>3, <1>8 DEF InsertedSoFar
  <2>3. given = SubSeq(data, lost + 1, Len(data))
    BY <1>6 DEF Keeps
  <2>4. QED
    BY <1>2, <2>1, <2>2, <2>3 DEF Losses
<1>12. PICK a : a = [kind |-> "batch", got |-> "error", rows |-> done, given |-> data,
                     lost |-> lost, before |-> before]
  OBVIOUS
<1>13. /\ a.kind = "batch" /\ a.got # "rows" /\ a.rows = done /\ a.given = data
       /\ a.lost = lost /\ a.before = before /\ Keeps(a) = given
  BY <1>12, <1>11 DEF Keeps
<1>14. answer' = a
  BY <1>7, <1>10, <1>12 DEF BatchAnswer
<1>15. Len(given) \in Nat /\ Len(done) = lost + n /\ n < Len(given)
  <2>1. PICK l \in Nat : l = Len(given)
    BY LenProperties
  <2>2. lost + l = Len(data) /\ n < l
    BY <1>9, <1>11, <2>1
  <2>3. PICK p \in Nat : p = lost + n
    OBVIOUS
  <2>4. p <= Len(data)
    BY <2>2, <2>3
  <2>5. Len(FirstIds(data, p)) = p
    BY <2>4, IdsListed
  <2>6. done = FirstIds(data, p)
    BY <1>11, <2>3
  <2>7. QED
    BY <2>1, <2>2, <2>3, <2>5, <2>6
<1>16. BatchSize \in Nat
  BY WholeChunks
<1>17. Outcome(a, View'.users)
  <2>1. CASE durable' = durable
    <3>1. View' = View
      BY <1>1, <1>10, <2>1, Still DEF dbVars
    <3>2. n \in 0..Len(given) /\ n % BatchSize = 0 /\ lost + n - Len(done) \in 0..BatchSize
      <4>1. Whole(n)
        BY <1>9
      <4>2. n % BatchSize = 0
        BY <4>1, WholeChunks
      <4>3. n \in 0..Len(given) /\ lost + n - Len(done) = 0
        BY <1>15
      <4>4. QED
        BY <1>16, <4>2, <4>3
    <3>3. /\ a.lost + n - Len(a.rows) \in 0..BatchSize
          /\ Inserted(View'.users, a.before, Keeps(a), n)
      BY <1>9, <1>13, <3>1, <3>2
    <3>4. QED
      BY <1>13, <3>2, <3>3, Zenon DEF Outcome
  <2>2. CASE ~InTransaction /\ ~Refused /\ durable' = WithChunk
    <3>1. View' = WithChunk
      BY <1>10, <2>2 DEF View, InTransaction
    <3>2. Inserted(WithChunk.users, batch.before, Keeps(batch), n + m)
      BY <1>1, <1>2, <1>3, <1>4, <2>2, MoreInserted DEF Losses
    <3>3. Inserted(View'.users, a.before, Keeps(a), k)
      BY <1>5, <1>6, <1>7, <1>13, <3>1, <3>2
    <3>4. k \in 0..Len(Keeps(a)) /\ a.lost + k - Len(a.rows) \in 0..BatchSize
      <4>1. k \in 0..Len(given) /\ lost + k - Len(done) = m /\ m \in 0..BatchSize
        BY <1>5, <1>9, <1>15, <1>16
      <4>2. QED
        BY <1>13, <4>1
    <3>5. k % BatchSize = 0 \/ k = Len(Keeps(a))
      BY <1>9, <1>13, WholeChunks
    <3>6. QED
      BY <1>13, <3>3, <3>4, <3>5, Zenon DEF Outcome
  <2>3. QED
    BY <1>10, <2>1, <2>2
<1>18. LosesWhole(a)'
  <2>1. faults > 0 => faults' > 0
    BY <1>1, <1>10 DEF TypeOK
  <2>2. lost % BatchSize = 0 /\ (lost > 0 => InTransaction' /\ faults' > 0)
    BY <1>10, <1>11, <2>1, WholeChunks DEF InTransaction
  <2>3. QED
    BY <1>13, <2>2 DEF LosesWhole, BatchSize
<1>19. (answer.kind = "batch" => LosesWhole(answer) /\ Outcome(answer, View.users))'
  <2>1. Outcome(answer, View.users)'
    BY <1>14, <1>17 DEF Outcome, Inserted, Distinct, FirstIds, BatchSize, Keeps
  <2>2. LosesWhole(answer)'
    BY <1>14, <1>18 DEF LosesWhole
  <2>3. QED
    BY <2>1, <2>2
<1>20. BatchOutcome'
  BY <1>19, SaysSo, PTL
<1>21. Progress'
  BY <1>10 DEF Progress
<1>22. QED
  BY <1>20, <1>21

(* The connection is lost: the batch goes on with the rows it has left,    *)
(* over the users of a new transaction.                                    *)
LEMMA BatchResumes ==
  ASSUME Shape, Progress, Reconnect
  PROVE  Progress' /\ BatchOutcome'
<1>1. TypeOK /\ Batch /\ answer' = Silence /\ faults < MaxFaults /\ faults' = faults + 1
  BY TypeParts DEF Shape, Reconnect, Fault
<1>2. BatchOutcome'
  BY <1>1 DEF BatchOutcome, Silence
<1>3. CASE batch = NoBatch
  BY <1>2, <1>3 DEF Reconnect, Progress
<1>4. CASE batch # NoBatch
  <2>1. batch.before \in Tables /\ Losses /\ \E n \in Nat : InsertedSoFar(n)
    BY <1>4 DEF Progress
  <2>2. PICK n \in Nat : InsertedSoFar(n)
    BY <2>1
  <2>3. PICK data \in Seq(Rows) : data = batch.given
    BY <1>1 DEF Batch
  <2>4. PICK lost \in Nat : lost = batch.lost
    BY <1>1 DEF Batch
  <2>5. lost <= Len(data) /\ Whole(lost) /\ Whole(n)
    BY <2>1, <2>2, <2>3, <2>4 DEF Losses, InsertedSoFar
  <2>6. PICK kept \in Seq(Rows) :
          /\ kept = SubSeq(data, lost + 1, Len(data))
          /\ Len(kept) \in Nat /\ lost + Len(kept) = Len(data)
    BY <2>5, KeptRows
  <2>7. kept = Keeps(batch) /\ n < Len(kept)
    BY <2>2, <2>3, <2>4, <2>6 DEF Keeps, InsertedSoFar
  <2>8. PICK l \in Nat : l = lost + n /\ l <= Len(data)
    BY <2>6, <2>7
  <2>9. PICK rest : rest = batch.rows
    OBVIOUS
  <2>10. /\ rest = SubSeq(kept, n + 1, Len(kept)) /\ batch.done = FirstIds(data, l)
         /\ Len(batch.done) = l
    <3>1. rest = SubSeq(kept, n + 1, Len(kept)) /\ batch.done = FirstIds(data, l)
      BY <2>2, <2>3, <2>4, <2>7, <2>8, <2>9 DEF InsertedSoFar
    <3>2. QED
      BY <2>8, <3>1, IdsListed
  <2>11. rest = SubSeq(data, l + 1, Len(data))
    <3>1. n <= Len(kept) /\ lost + Len(kept) <= Len(data)
      BY <2>6, <2>7
    <3>2. SubSeq(kept, n + 1, Len(kept)) = SubSeq(data, (lost + n) + 1, lost + Len(kept))
      BY <2>5, <2>6, <3>1, SliceOfSlice
    <3>3. QED
      BY <2>6, <2>8, <2>10, <3>2
  <2>12. rest \in Seq(Rows) /\ Len(rest) \in Nat /\ 0 < Len(rest)
    <3>1. n <= Len(kept)
      BY <2>6, <2>7
    <3>2. /\ SubSeq(kept, n + 1, Len(kept)) \in Seq(Rows)
          /\ Len(SubSeq(kept, n + 1, Len(kept))) = Len(kept) - n
      BY <2>6, <3>1, FirstRows
    <3>3. Len(kept) - n \in Nat /\ Len(kept) - n > 0
      BY <2>6, <2>7
    <3>4. QED
      BY <2>10, <3>2, <3>3
  <2>13. PICK before \in Tables : before = durable.users
    <3>1. durable \in Database
      BY <1>1 DEF TypeOK
    <3>2. QED
      BY <3>1, DatabaseParts
  <2>14. batch' = [batch EXCEPT !.lost = l, !.before = before]
    BY <1>4, <2>10, <2>13 DEF Reconnect
  <2>15. /\ batch'.rows = rest /\ batch'.done = FirstIds(data, l) /\ batch'.given = data
         /\ batch'.lost = l /\ batch'.before = before
    BY <1>1, <2>3, <2>9, <2>10, <2>14 DEF Batch
  <2>16. Keeps(batch)' = rest
    BY <2>11, <2>15 DEF Keeps
  <2>17. View' = durable /\ InTransaction'
    <3>1. durable \in Database
      BY <1>1 DEF TypeOK
    <3>2. QED
      BY <1>1, <3>1, Renewed DEF Reconnect
  <2>18. Inserted(before, before, rest, 0)
    <3>1. 1..0 = {} /\ 0 <= Len(rest)
      BY <2>12
    <3>2. before = Merge(before, AsTable(SubSeq(rest, 1, 0)))
      BY <2>12, MergedNone
    <3>3. QED
      BY <3>1, <3>2 DEF Inserted, Distinct
  <2>19. rest = SubSeq(rest, 0 + 1, Len(rest)) /\ l + 0 = l
    BY <2>12, SubSeqFull
  <2>20. InsertedSoFar(0)'
    BY <2>12, <2>13, <2>15, <2>16, <2>17, <2>18, <2>19, WholeChunks
       DEF InsertedSoFar, Whole, BatchSize
  <2>21. Losses'
    <3>1. Whole(l)
      BY <2>5, <2>8, WholeChunks
    <3>2. faults' > 0
      BY <1>1 DEF TypeOK
    <3>3. QED
      BY <2>8, <2>15, <2>17, <3>1, <3>2 DEF Losses, Whole, BatchSize
  <2>22. Progress'
    BY <2>13, <2>15, <2>20, <2>21 DEF Progress
  <2>23. QED
    BY <1>2, <2>22
<1>5. QED
  BY <1>3, <1>4

(* The other steps: no batch is under way, and what they answer is not     *)
(* that of one.                                                            *)
LEMMA NoBatchStep ==
  ASSUME Shape, Progress, BatchOutcome, [Next]_vars,
         ~InsertChunk, ~ChunkFails, ~Reconnect
  PROVE  Progress' /\ BatchOutcome'
<1>1. TypeOK
  BY DEF Shape
<1>2. CASE UNCHANGED vars
  <2>1. View' = View /\ (InTransaction' <=> InTransaction)
    BY <1>1, <1>2, Still DEF vars
  <2>2. batch' = batch /\ answer' = answer /\ faults' = faults
    BY <1>2 DEF vars
  <2>3. Progress'
    BY <2>1, <2>2 DEF Progress, Losses, InsertedSoFar, Whole, BatchSize, Keeps
  <2>4. (answer.kind = "batch" => LosesWhole(answer) /\ Outcome(answer, View.users))'
    BY <2>1, <2>2, SaysSo
       DEF LosesWhole, Outcome, Inserted, Distinct, FirstIds, BatchSize, Keeps
  <2>5. BatchOutcome'
    BY <2>4, SaysSo, PTL
  <2>6. QED
    BY <2>3, <2>5
<1>3. CASE batch' = NoBatch /\ answer'.kind # "batch"
  BY <1>3 DEF Progress, BatchOutcome
<1>4. CASE batch' = NoBatch /\ answer' = answer /\ answer = Silence
  <2>1. answer'.kind # "batch"
    BY <1>4 DEF Silence
  <2>2. QED
    BY <1>4, <2>1 DEF Progress, BatchOutcome
<1>5. CASE Goes
  <2>1. batch' = NoBatch /\ answer'.kind # "batch"
    BY <1>5 DEF Goes, Shape, Calls, Silence
  <2>2. QED
    BY <1>3, <2>1
<1>6. CASE \/ \E call \in Reads : GetByAttributes(call) \/ GetNeedFields(call)
           \/ \E where \in Wheres : GetOne(where) \/ Count(where)
  <2>1. batch' = NoBatch /\ answer'.kind # "batch"
    BY <1>6 DEF GetByAttributes, GetNeedFields, GetOne, Count, Idle, Raise, Return
  <2>2. QED
    BY <1>3, <2>1
<1>7. CASE StatementFails
  <2>1. batch' = NoBatch /\ answer'.kind # "batch"
    BY <1>7 DEF StatementFails, Idle, Raise, Wrote
  <2>2. QED
    BY <1>3, <2>1
<1>8. CASE \E id \in Ids, v \in Values : Add(id, v)
  <2>1. PICK id \in Ids, v \in Values : Add(id, v)
    BY <1>8
  <2>2. batch' = NoBatch
    BY <2>1 DEF Add, Idle
  <2>3. answer'.kind = "write"
    BY <1>1, <2>1, Added
  <2>4. QED
    BY <1>3, <2>2, <2>3
<1>9. CASE \E where \in Wheres, v \in Values \cup {None} : Update(where, v)
  <2>1. PICK where \in Wheres, v \in Values \cup {None} : Update(where, v)
    BY <1>9
  <2>2. batch' = NoBatch
    BY <2>1 DEF Update, Idle
  <2>3. answer'.kind = "write"
    BY <2>1, Updated
  <2>4. QED
    BY <1>3, <2>2, <2>3
<1>10. CASE \E where \in Wheres : Remove(where)
  <2>1. PICK where \in Wheres : Remove(where)
    BY <1>10
  <2>2. batch' = NoBatch
    BY <2>1 DEF Remove, Idle
  <2>3. answer'.kind = "write"
    BY <2>1, Removed
  <2>4. QED
    BY <1>3, <2>2, <2>3
<1>11. CASE \E rows \in Batches : AddBatch(rows)
  <2>1. PICK rows \in Batches : AddBatch(rows)
    BY <1>11
  <2>2. Progress' /\ (answer' = answer \/ answer'.kind = "write")
    BY <2>1, BatchStarts
  <2>3. answer = Silence
    BY <2>1 DEF AddBatch, Idle
  <2>4. answer'.kind # "batch"
    BY <2>2, <2>3 DEF Silence
  <2>5. QED
    BY <2>2, <2>4 DEF BatchOutcome
<1>12. CASE Begin \/ Commit \/ CommitFails \/ BlockRaises \/ Rollback
  <2>1. batch' = NoBatch /\ answer' = answer /\ answer = Silence
    BY <1>12 DEF Begin, Commit, CommitFails, BlockRaises, Rollback, Idle, Shape, Calls
  <2>2. QED
    BY <1>4, <2>1
<1>13. QED
  BY <1>2, <1>5, <1>6, <1>7, <1>8, <1>9, <1>10, <1>11, <1>12 DEF Next

(* add_batch inserts its data whole, or stops after whole chunks, but for  *)
(* the whole chunks that a lost connection takes with it and that are      *)
(* reported nevertheless: for any data, sizes of the statement, failures   *)
(* and lost connections between and inside of the chunks, in a transaction *)
(* and without.                                                            *)
THEOREM BatchesInChunks == Spec => []BatchOutcome
<1>1. Init => Shape /\ Progress /\ BatchOutcome
  <2>1. ASSUME Init PROVE Progress /\ BatchOutcome
    <3>1. batch = NoBatch /\ answer.kind # "batch"
      BY <2>1 DEF Init, Silence
    <3>2. QED
      BY <3>1 DEF Progress, BatchOutcome
  <2>2. QED
    BY <2>1, InitShape
<1>2. Shape /\ Progress /\ BatchOutcome /\ [Next]_vars => Shape' /\ Progress' /\ BatchOutcome'
  <2> SUFFICES ASSUME Shape, Progress, BatchOutcome, [Next]_vars
               PROVE  Shape' /\ Progress' /\ BatchOutcome'
    OBVIOUS
  <2>1. Shape'
    BY StepShape
  <2>2. CASE InsertChunk
    BY <2>1, <2>2, BatchContinues
  <2>3. CASE ChunkFails
    BY <2>1, <2>3, BatchBreaks
  <2>4. CASE Reconnect
    BY <2>1, <2>4, BatchResumes
  <2>5. CASE ~InsertChunk /\ ~ChunkFails /\ ~Reconnect
    BY <2>1, <2>5, NoBatchStep
  <2>6. QED
    BY <2>2, <2>3, <2>4, <2>5
<1>3. QED
  BY <1>1, <1>2, PTL DEF Spec

-----------------------------------------------------------------------------
(* Reads.                                                                  *)

(* A lookup of one of the joins has a last one, and unless two of them     *)
(* clash the value of any.                                                 *)
LEMMA JoinValues ==
  ASSUME NEW joins, Len(joins) \in Nat, ~Clash(joins), NEW i \in 1..Len(joins),
         NEW k \in DOMAIN joins[i]
  PROVE  k \in DOMAIN JoinParameters(joins) /\ JoinParameters(joins)[k] = joins[i][k]
<1>1. PICK n \in Nat : n = Len(joins)
  OBVIOUS
<1> DEFINE last(x, j) == x \in DOMAIN joins[j] /\ \A m \in j + 1..n : x \notin DOMAIN joins[m]
<1>2. \E j \in 1..n : last(k, j)
  <2>1. PICK D : D = {d \in Nat : d <= n /\ \E j \in 1..n : j = n - d /\ k \in DOMAIN joins[j]}
    OBVIOUS
  <2>2. n - i \in D
    <3>1. n - i \in Nat /\ n - i <= n /\ i = n - (n - i) /\ i \in 1..n
      BY <1>1
    <3>2. QED
      BY <2>1, <3>1
  <2>3. PICK d \in D : \A e \in D : d <= e
    <3>1. D \subseteq Nat /\ D # {}
      BY <2>1, <2>2
    <3>2. QED
      BY <3>1, Least
  <2>4. PICK j \in 1..n : j = n - d /\ k \in DOMAIN joins[j]
    BY <2>1
  <2>5. ASSUME NEW m \in j + 1..n, k \in DOMAIN joins[m] PROVE FALSE
    <3>1. n - m \in Nat /\ n - m <= n /\ m = n - (n - m) /\ m \in 1..n
      BY <2>4
    <3>2. n - m \in D
      BY <2>1, <2>5, <3>1
    <3>3. d \in Nat /\ d <= n - m
      BY <2>1, <2>3, <3>2
    <3>4. QED
      BY <2>4, <3>1, <3>3
  <2>6. QED
    BY <2>4, <2>5
<1>3. PICK j : j = CHOOSE x \in 1..n : last(k, x)
  OBVIOUS
<1>4. j \in 1..n /\ last(k, j)
  BY <1>2, <1>3
<1>5. PICK all : all = UNION {DOMAIN joins[x] : x \in 1..n}
  OBVIOUS
<1>6. k \in all
  BY <1>1, <1>5
<1> DEFINE of(x) == CHOOSE y \in 1..n : last(x, y)
<1>7. JoinParameters(joins) = [x \in all |-> joins[of(x)][x]]
  BY <1>1, <1>5 DEF JoinParameters
<1>8. of(k) = j
  BY <1>3
<1> HIDE DEF of
<1>9. JoinParameters(joins)[k] = joins[j][k] /\ DOMAIN JoinParameters(joins) = all
  BY <1>6, <1>7, <1>8
<1>10. joins[i][k] = joins[j][k]
  BY <1>1, <1>4 DEF Clash
<1>11. QED
  BY <1>6, <1>9, <1>10

(* The server selects what the caller asked for.                           *)
Wanted(table, c, where, joins) ==
  /\ \A k \in DOMAIN where :
       Operator(k.suffix, IF k.attr = "id" THEN c.id ELSE table[c.id], where[k])
  /\ \A i \in 1..Len(joins) : \A k \in DOMAIN joins[i] :
       Operator(k.suffix, IF k.attr = "id" THEN c.id ELSE c.links[i].a, joins[i][k])

LEMMA OfTheTable ==
  ASSUME NEW table, NEW c, NEW where, NEW params, \A k \in DOMAIN where : params[k] = where[k]
  PROVE  Satisfies(table, c, Conditions(0, where), params) <=>
           \A k \in DOMAIN where :
             Operator(k.suffix, IF k.attr = "id" THEN c.id ELSE table[c.id], where[k])
<1>1. ASSUME NEW k \in DOMAIN where, NEW cond, cond = [table |-> 0, key |-> k]
      PROVE  Operator(cond.key.suffix, Column(table, c, cond), params[cond.key]) <=>
             Operator(k.suffix, IF k.attr = "id" THEN c.id ELSE table[c.id], where[k])
  <2>1. cond.table = 0 /\ cond.key = k
    BY <1>1
  <2>2. Column(table, c, cond) = IF k.attr = "id" THEN c.id ELSE table[c.id]
    BY <2>1 DEF Column
  <2>3. QED
    BY <2>1, <2>2
<1>2. QED
  BY <1>1 DEF Satisfies, Conditions

LEMMA OfAJoin ==
  ASSUME NEW table, NEW c, NEW where, NEW params, NEW i \in Nat, i # 0,
         \A k \in DOMAIN where : params[k] = where[k]
  PROVE  Satisfies(table, c, Conditions(i, where), params) <=>
           \A k \in DOMAIN where :
             Operator(k.suffix, IF k.attr = "id" THEN c.id ELSE c.links[i].a, where[k])
<1>1. ASSUME NEW k \in DOMAIN where, NEW cond, cond = [table |-> i, key |-> k]
      PROVE  Operator(cond.key.suffix, Column(table, c, cond), params[cond.key]) <=>
             Operator(k.suffix, IF k.attr = "id" THEN c.id ELSE c.links[i].a, where[k])
  <2>1. cond.table = i /\ cond.key = k
    BY <1>1
  <2>2. Column(table, c, cond) = IF k.attr = "id" THEN c.id ELSE c.links[i].a
    BY <2>1 DEF Column
  <2>3. QED
    BY <2>1, <2>2
<1>2. QED
  BY <1>1 DEF Satisfies, Conditions

LEMMA Selects ==
  ASSUME NEW table, NEW c, NEW where, NEW joins, Len(joins) \in Nat, ~Clash(joins),
         ~Malformed(where, joins)
  PROVE  Satisfies(table, c, Conditions(0, where) \cup JoinConditions(joins),
                   Merge(where, JoinParameters(joins)))
           <=> Wanted(table, c, where, joins)
<1>1. PICK params : params = Merge(where, JoinParameters(joins))
  OBVIOUS
<1>2. ASSUME NEW i \in 1..Len(joins), NEW k \in DOMAIN joins[i]
      PROVE  params[k] = joins[i][k]
  <2>1. k \in DOMAIN JoinParameters(joins) /\ JoinParameters(joins)[k] = joins[i][k]
    BY JoinValues
  <2>2. QED
    BY <1>1, <2>1 DEF Merge
<1>3. ASSUME NEW k \in DOMAIN where PROVE params[k] = where[k]
  <2>1. Conditions(0, where) # {}
    BY DEF Conditions
  <2>2. JoinConditions(joins) = {}
    BY <2>1 DEF Malformed
  <2>3. ASSUME NEW i \in 1..Len(joins) PROVE DOMAIN joins[i] = {}
    <3>1. Conditions(i, joins[i]) = {}
      BY <2>2 DEF JoinConditions
    <3>2. ASSUME NEW x \in DOMAIN joins[i] PROVE FALSE
      <4>1. [table |-> i, key |-> x] \in Conditions(i, joins[i])
        BY DEF Conditions
      <4>2. QED
        BY <3>1, <4>1
    <3>3. QED
      BY <3>2
  <2>4. DOMAIN JoinParameters(joins) = {}
    <3>1. UNION {DOMAIN joins[i] : i \in 1..Len(joins)} = {}
      BY <2>3
    <3>2. DOMAIN JoinParameters(joins) = UNION {DOMAIN joins[i] : i \in 1..Len(joins)}
      BY DEF JoinParameters
    <3>3. QED
      BY <3>1, <3>2
  <2>5. QED
    BY <1>1, <2>4 DEF Merge
<1>4. Satisfies(table, c, Conditions(0, where), params) <=>
        \A k \in DOMAIN where :
          Operator(k.suffix, IF k.attr = "id" THEN c.id ELSE table[c.id], where[k])
  BY <1>3, OfTheTable
<1>5. ASSUME NEW i \in 1..Len(joins)
      PROVE  Satisfies(table, c, Conditions(i, joins[i]), params) <=>
        \A k \in DOMAIN joins[i] :
          Operator(k.suffix, IF k.attr = "id" THEN c.id ELSE c.links[i].a, joins[i][k])
  <2>1. i \in Nat /\ i # 0 /\ \A k \in DOMAIN joins[i] : params[k] = joins[i][k]
    BY <1>2
  <2>2. QED
    BY <2>1, OfAJoin
<1>6. Satisfies(table, c, Conditions(0, where) \cup JoinConditions(joins), params) <=>
        /\ Satisfies(table, c, Conditions(0, where), params)
        /\ \A i \in 1..Len(joins) : Satisfies(table, c, Conditions(i, joins[i]), params)
  BY Zenon DEF Satisfies, JoinConditions
<1>7. QED
  BY <1>1, <1>4, <1>5, <1>6 DEF Wanted

LEMMA ReadsWanted ==
  ASSUME NEW table, NEW call, Len(call.joins) \in Nat, ~Clash(call.joins), call.limit # 0,
         ~Malformed(call.where, call.joins)
  PROVE  Execute(table, Select(call)) = Asked(table, call)
<1>1. PICK stmt : stmt = Select(call)
  OBVIOUS
<1>2. /\ stmt.conditions = Conditions(0, call.where) \cup JoinConditions(call.joins)
      /\ stmt.params = Merge(call.where, JoinParameters(call.joins))
      /\ stmt.joins = Len(call.joins) /\ stmt.order = call.order /\ stmt.limit = call.limit
      /\ stmt.offset = call.offset
  BY <1>1 DEF Select
<1>3. {c \in Combinations(table, stmt.joins) :
         Satisfies(table, c, stmt.conditions, stmt.params)} =
      {c \in Combinations(table, Len(call.joins)) :
         Wanted(table, c, call.where, call.joins)}
  BY <1>2, Selects
<1>4. Asked(table, call) =
        Answers(table, {c \in Combinations(table, Len(call.joins)) :
                          Wanted(table, c, call.where, call.joins)},
                call.order, call.offset, call.limit)
  BY DEF Asked, Wanted
<1>5. QED
  BY <1>1, <1>2, <1>3, <1>4 DEF Execute

(* How many rows an answer has.                                            *)
LEMMA AnswerSize ==
  ASSUME NEW table, NEW selected, NEW n \in Nat, n = Cardinality(selected),
         NEW order, NEW limit \in Nat \cup {None}, NEW l \in Nat,
         l = IF limit = None \/ 0 + limit > n THEN n ELSE limit,
         NEW rows \in Answers(table, selected, order, 0, limit)
  PROVE  Len(rows) = l /\ (rows = <<>> <=> l = 0)
<1>1. PICK s \in [1..n -> selected] :
        rows = [i \in 1..Len(Cut(s, 0, limit)) |-> Cut(s, 0, limit)[i].id]
  BY DEF Answers
<1>2. s \in Seq(selected) /\ Len(s) = n
  BY Sized
<1>3. PICK cut : cut = Cut(s, 0, limit)
  OBVIOUS
<1>4. cut = SubSeq(s, 1, l)
  <2>1. 0 + 1 = 1 /\ (limit \in Nat => 0 + limit = limit)
    OBVIOUS
  <2>2. (IF limit = None \/ 0 + limit > Len(s) THEN Len(s) ELSE 0 + limit) = l
    BY <1>2, <2>1
  <2>3. QED
    BY <1>3, <2>1, <2>2 DEF Cut
<1>5. Len(cut) = l
  <2>1. l <= n
    OBVIOUS
  <2>2. \A i \in 1..l : s[i] \in selected
    BY <2>1
  <2>3. 1 \in Int /\ l \in Int
    OBVIOUS
  <2>4. Len(SubSeq(s, 1, l)) = IF 1 <= l THEN l - 1 + 1 ELSE 0
    BY <2>2, <2>3, SubSeqProperties
  <2>5. (IF 1 <= l THEN l - 1 + 1 ELSE 0) = l
    OBVIOUS
  <2>6. QED
    BY <1>4, <2>4, <2>5
<1>6. PICK S : S = {cut[i].id : i \in 1..l}
  OBVIOUS
<1>7. rows \in [1..l -> S]
  BY <1>1, <1>3, <1>5, <1>6
<1>8. rows \in Seq(S) /\ Len(rows) = l
  BY <1>7, Sized
<1>9. rows = <<>> <=> l = 0
  BY <1>8, EmptySeq
<1>10. QED
  BY <1>8, <1>9

(* Without joins the rows are those of the users.                          *)
LEMMA OnePerUser ==
  ASSUME NEW table, NEW where, IsFiniteSet(DOMAIN table)
  PROVE  LET selected == {c \in Combinations(table, 0) : Wanted(table, c, where, <<>>)}
         IN  /\ Cardinality(selected) = Cardinality(Matching(table, where))
             /\ Cardinality(selected) \in Nat
<1>1. PICK ids : ids = Matching(table, where)
  OBVIOUS
<1>2. PICK selected : selected = {c \in Combinations(table, 0) : Wanted(table, c, where, <<>>)}
  OBVIOUS
<1> DEFINE row(id) == [id |-> id, links |-> <<>>]
<1>3. IsFiniteSet(ids)
  <2>1. ids \subseteq DOMAIN table
    BY <1>1 DEF Matching
  <2>2. QED
    BY <2>1, FS_Subset
<1>4. \A c : c \in Combinations(table, 0) <=> \E id \in DOMAIN table : c = row(id)
  <2>1. \A f \in [1..0 -> Links] : f = <<>>
    <3>1. \A f \in [1..0 -> Links] : f \in Seq(Links) /\ Len(f) = 0
      BY Sized
    <3>2. QED
      BY <3>1, EmptySeq
  <2>2. <<>> \in [1..0 -> Links] /\ 1..0 = {}
    BY EmptySeq, LenProperties
  <2>3. PICK L : L = [1..0 -> Links] /\ L = {<<>>}
    BY <2>1, <2>2
  <2>4. Combinations(table, 0) = [id : DOMAIN table, links : L]
    <3>1. Combinations(table, 0) = {c \in [id : DOMAIN table, links : [1..0 -> Links]] :
                                     \A i \in 1..0 : c.links[i].of = c.id}
      BY DEF Combinations
    <3>2. QED
      BY <2>2, <2>3, <3>1
  <2>5. ASSUME NEW c \in Combinations(table, 0)
        PROVE  \E id \in DOMAIN table : c = row(id)
    <3> HIDE DEF row
    <3>1. c \in [id : DOMAIN table, links : L]
      BY <2>4, <2>5
    <3>2. c.id \in DOMAIN table /\ c.links \in L /\ c = [id |-> c.id, links |-> c.links]
      BY <3>1
    <3>3. c.links = <<>>
      BY <2>3, <3>2
    <3>4. c = row(c.id)
      BY <3>2, <3>3 DEF row
    <3>5. QED
      BY <3>2, <3>4
  <2>6. ASSUME NEW id \in DOMAIN table PROVE row(id) \in Combinations(table, 0)
    BY <2>3, <2>4
  <2>7. QED
    BY <2>5, <2>6
<1>5. ASSUME NEW id
      PROVE  Wanted(table, row(id), where, <<>>) <=>
             Satisfies(table, row(id), Conditions(0, where), where)
  <2>1. PICK c : c = row(id)
    OBVIOUS
  <2>2. Satisfies(table, c, Conditions(0, where), where) <=>
          \A k \in DOMAIN where :
            Operator(k.suffix, IF k.attr = "id" THEN c.id ELSE table[c.id], where[k])
    BY OfTheTable
  <2>3. 1..Len(<<>>) = {}
    OBVIOUS
  <2>4. Wanted(table, c, where, <<>>) <=>
          \A k \in DOMAIN where :
            Operator(k.suffix, IF k.attr = "id" THEN c.id ELSE table[c.id], where[k])
    BY <2>3 DEF Wanted
  <2>5. QED
    BY <2>1, <2>2, <2>4
<1>6. \A id : id \in ids <=> id \in DOMAIN table /\ row(id) \in selected
  <2>1. ASSUME NEW id
        PROVE  row(id) \in selected <=>
                 /\ \E x \in DOMAIN table : row(id) = row(x)
                 /\ Satisfies(table, row(id), Conditions(0, where), where)
    BY <1>2, <1>4, <1>5
  <2>2. \A id, x : row(id) = row(x) => id = x
    OBVIOUS
  <2>3. \A id : id \in ids <=>
          id \in DOMAIN table /\ Satisfies(table, row(id), Conditions(0, where), where)
    BY <1>1 DEF Matching
  <2> HIDE DEF row
  <2>4. QED
    BY <2>1, <2>2, <2>3
<1>7. \A c \in selected : \E id \in ids : c = row(id)
  BY <1>2, <1>4, <1>6
<1>8. PICK f : f = [id \in ids |-> row(id)]
  OBVIOUS
<1>9. f \in Bijection(ids, selected)
  <2>1. f \in [ids -> selected]
    BY <1>6, <1>8
  <2>2. \A x, y \in ids : f[x] = f[y] => x = y
    BY <1>8
  <2>3. \A c \in selected : \E id \in ids : f[id] = c
    BY <1>7, <1>8
  <2>4. QED
    BY <2>1, <2>2, <2>3 DEF Bijection, Injection, Surjection, IsInjective
<1>10. Cardinality(selected) = Cardinality(ids)
  BY <1>3, <1>9, FS_Bijection DEF ExistsBijection
<1>11. QED
  BY <1>1, <1>2, <1>3, <1>10, FS_CardinalityType

LEMMA NoJoins ==
  /\ Len(<<>>) = 0 /\ Len(<<>>) \in Nat /\ ~Clash(<<>>)
<1>1. Len(<<>>) = 0
  OBVIOUS
<1>2. 1..Len(<<>>) = {}
  BY <1>1
<1>3. QED
  BY <1>1, <1>2 DEF Clash

(* The rows with a key, when limit of them are asked for.                  *)
LEMMA KeyRows ==
  ASSUME NEW table, NEW where, IsFiniteSet(DOMAIN table), NEW limit \in Nat \cup {None},
         NEW n, n = Cardinality(Matching(table, where)),
         NEW rows \in Asked(table, ByKey(where, limit))
  PROVE  /\ n \in Nat
         /\ Len(rows) = IF limit = None \/ 0 + limit > n THEN n ELSE limit
         /\ rows = <<>> <=> Len(rows) = 0
<1>1. PICK selected : selected = {c \in Combinations(table, 0) : Wanted(table, c, where, <<>>)}
  OBVIOUS
<1>2. n \in Nat /\ n = Cardinality(selected)
  BY <1>1, OnePerUser
<1>3. rows \in Answers(table, selected, <<>>, 0, limit)
  <2>1. PICK call : call = ByKey(where, limit)
    OBVIOUS
  <2>2. /\ call.where = where /\ call.joins = <<>> /\ call.order = <<>> /\ call.offset = 0
        /\ call.limit = limit
    BY <2>1 DEF ByKey
  <2>3. Asked(table, call) =
          Answers(table, {c \in Combinations(table, Len(call.joins)) :
                            Wanted(table, c, call.where, call.joins)},
                  call.order, call.offset, call.limit)
    BY DEF Asked, Wanted
  <2>4. QED
    BY <1>1, <2>1, <2>2, <2>3, NoJoins
<1>4. PICK l : l = IF limit = None \/ 0 + limit > n THEN n ELSE limit
  OBVIOUS
<1>5. l \in Nat
  BY <1>2, <1>4
<1>6. Len(rows) = l /\ (rows = <<>> <=> l = 0)
  BY <1>2, <1>3, <1>4, <1>5, AnswerSize
<1>7. QED
  BY <1>2, <1>4, <1>6

(* AnswerIsAsked, of an answer and the users it is given for.              *)
Right(table, a) ==
  /\ a.kind = "read" /\ a.got = "rows" =>
       \/ a.rows \in Asked(table, a.call)
       \/ Clash(a.call.joins)
       \/ a.call.limit = 0
  /\ a.kind = "get" /\ a.got # "error" =>
       a.got = CASE Cardinality(Matching(table, a.where)) = 0 -> "none"
                 [] Cardinality(Matching(table, a.where)) = 1 -> "one"
                 [] OTHER -> "several"
  /\ a.kind = "count" /\ a.got = "total" =>
       \A rows \in Asked(table, ByKey(a.where, None)) :
         a.total = Len(rows) /\ a.exists = (rows # <<>>)

LEMMA RightAnswer == AnswerIsAsked <=> Right(View.users, answer)
  BY DEF AnswerIsAsked, Right

(* An answer that is neither.                                              *)
LEMMA OtherAnswer ==
  ASSUME NEW table, NEW a, a.kind \notin {"read", "get", "count"}
  PROVE  Right(table, a)
  BY DEF Right

LEMMA ReadRight ==
  ASSUME NEW table, NEW call \in Reads, NEW a,
         ~Malformed(call.where, call.joins), NEW rows \in Execute(table, Select(call)),
         a = [kind |-> "read", call |-> call, got |-> "rows", rows |-> rows]
  PROVE  Right(table, a)
<1>1. a.kind = "read" /\ a.call = call /\ a.rows = rows
  OBVIOUS
<1>2. Len(call.joins) \in Nat
  BY RepositoryAssumption
<1>3. ~Clash(call.joins) /\ call.limit # 0 => rows \in Asked(table, call)
  BY <1>2, ReadsWanted
<1>4. QED
  BY <1>1, <1>3 DEF Right

LEMMA GetRight ==
  ASSUME NEW table, IsFiniteSet(DOMAIN table), NEW where, NEW a, ~Malformed(where, <<>>),
         NEW rows \in Execute(table, Select(ByKey(where, 2))), a.kind = "get", a.where = where,
         a.got = IF Len(rows) > 1 THEN "several" ELSE IF rows = <<>> THEN "none" ELSE "one"
  PROVE  Right(table, a)
<1>1. PICK n : n = Cardinality(Matching(table, where))
  OBVIOUS
<1>2. rows \in Asked(table, ByKey(where, 2))
  <2>1. PICK call : call = ByKey(where, 2)
    OBVIOUS
  <2>2. call.where = where /\ call.joins = <<>> /\ call.limit = 2
    BY <2>1 DEF ByKey
  <2>3. Len(call.joins) \in Nat /\ ~Clash(call.joins) /\ call.limit # 0
        /\ ~Malformed(call.where, call.joins)
    BY <2>2, NoJoins
  <2>4. Execute(table, Select(call)) = Asked(table, call)
    BY <2>3, ReadsWanted
  <2>5. QED
    BY <2>1, <2>4
<1>3. /\ n \in Nat
      /\ Len(rows) = IF 2 = None \/ 0 + 2 > n THEN n ELSE 2
      /\ rows = <<>> <=> Len(rows) = 0
  <2>1. PICK limit \in Nat \cup {None} : limit = 2
    OBVIOUS
  <2>2. rows \in Asked(table, ByKey(where, limit))
    BY <1>2, <2>1
  <2>3. /\ n \in Nat
        /\ Len(rows) = IF limit = None \/ 0 + limit > n THEN n ELSE limit
        /\ rows = <<>> <=> Len(rows) = 0
    BY <1>1, <2>2, KeyRows
  <2>4. QED
    BY <2>1, <2>3
<1>4. PICK l : l = Len(rows)
  OBVIOUS
<1>5. l = IF 2 > n THEN n ELSE 2
  <2>1. 2 # None /\ 0 + 2 = 2
    BY StatementsAssumption
  <2>2. QED
    BY <1>3, <1>4, <2>1
<1>6. a.got = CASE n = 0 -> "none" [] n = 1 -> "one" [] OTHER -> "several"
  <2>1. a.got = IF l > 1 THEN "several" ELSE IF l = 0 THEN "none" ELSE "one"
    BY <1>3, <1>4
  <2>2. QED
    BY <1>3, <1>5, <2>1
<1>7. QED
  BY <1>1, <1>6 DEF Right

LEMMA CountRight ==
  ASSUME NEW table, IsFiniteSet(DOMAIN table), NEW where, NEW n,
         n = Cardinality(Matching(table, where)), NEW a,
         a = [kind |-> "count", where |-> where, got |-> "total", total |-> n, exists |-> n > 0]
  PROVE  Right(table, a)
<1>1. a.kind = "count" /\ a.where = where /\ a.total = n /\ a.exists = (n > 0)
  OBVIOUS
<1>2. ASSUME NEW rows \in Asked(table, ByKey(where, None))
      PROVE  n = Len(rows) /\ ((n > 0) = (rows # <<>>))
  <2>1. /\ n \in Nat
        /\ Len(rows) = IF None = None \/ 0 + None > n THEN n ELSE None
        /\ rows = <<>> <=> Len(rows) = 0
    <3>1. PICK limit \in Nat \cup {None} : limit = None
      OBVIOUS
    <3>2. rows \in Asked(table, ByKey(where, limit))
      BY <1>2, <3>1
    <3>3. /\ n \in Nat
          /\ Len(rows) = IF limit = None \/ 0 + limit > n THEN n ELSE limit
          /\ rows = <<>> <=> Len(rows) = 0
      BY <3>2, KeyRows
    <3>4. QED
      BY <3>1, <3>3
  <2>2. Len(rows) = n
    BY <2>1
  <2>3. n > 0 <=> rows # <<>>
    BY <2>1, <2>2
  <2>4. QED
    BY <2>2, <2>3
<1>3. QED
  BY <1>1, <1>2 DEF Right

LEMMA ReadAnswers ==
  ASSUME Shape,
         \/ \E call \in Reads : GetByAttributes(call) \/ GetNeedFields(call)
         \/ \E where \in Wheres : GetOne(where) \/ Count(where)
  PROVE  AnswerIsAsked'
<1>1. TypeOK /\ UNCHANGED dbVars
  BY DEF Shape, GetByAttributes, GetNeedFields, GetOne, Count
<1>2. PICK table : table = View.users
  OBVIOUS
<1>3. View'.users = table
  BY <1>1, <1>2, Still
<1>4. IsFiniteSet(DOMAIN table)
  <2>1. table \in Tables
    BY <1>1, <1>2, Blocks, DatabaseParts
  <2>2. DOMAIN table \in SUBSET Ids
    BY <2>1, TableParts
  <2>3. QED
    BY <2>2, RepositoryAssumption, FS_Subset
<1>5. PICK a : a = answer'
  OBVIOUS
<1>6. Right(table, a)
  <2>1. ASSUME NEW call \in Reads, GetByAttributes(call) PROVE Right(table, a)
    <3>1. CASE RefusesRead(call) \/ Malformed(call.where, call.joins)
      <4>1. a = [kind |-> "read", call |-> call, got |-> "error"]
        BY <1>5, <2>1, <3>1 DEF GetByAttributes, Raise
      <4>2. QED
        BY <4>1 DEF Right
    <3>2. CASE ~(RefusesRead(call) \/ Malformed(call.where, call.joins))
      <4>1. PICK rows \in Execute(table, Select(call)) :
              a = [kind |-> "read", call |-> call, got |-> "rows", rows |-> rows]
        BY <1>2, <1>5, <2>1, <3>2 DEF GetByAttributes, Return
      <4>2. QED
        BY <3>2, <4>1, ReadRight
    <3>3. QED
      BY <3>1, <3>2
  <2>2. ASSUME NEW where \in Wheres, GetOne(where) PROVE Right(table, a)
    <3>1. CASE Refuses(where) \/ Malformed(where, <<>>)
      <4>1. a = [kind |-> "get", where |-> where, got |-> "error"]
        BY <1>5, <2>2, <3>1 DEF GetOne, Raise
      <4>2. QED
        BY <4>1 DEF Right
    <3>2. CASE ~(Refuses(where) \/ Malformed(where, <<>>))
      <4>1. PICK rows \in Execute(table, Select(ByKey(where, 2))) :
              IF Len(rows) > 1
                THEN a = [kind |-> "get", where |-> where, got |-> "several"]
                ELSE a = [kind |-> "get", where |-> where,
                          got |-> IF rows = <<>> THEN "none" ELSE "one"]
        BY <1>2, <1>5, <2>2, <3>2 DEF GetOne, Raise, Return
      <4>2. /\ a.kind = "get" /\ a.where = where
            /\ a.got = IF Len(rows) > 1 THEN "several"
                       ELSE IF rows = <<>> THEN "none" ELSE "one"
        BY <4>1
      <4>3. QED
        BY <1>4, <3>2, <4>2, GetRight
    <3>3. QED
      BY <3>1, <3>2
  <2>3. ASSUME NEW where \in Wheres, Count(where) PROVE Right(table, a)
    <3>1. CASE Refuses(where) \/ Malformed(where, <<>>)
      <4>1. a = [kind |-> "count", where |-> where, got |-> "error"]
        BY <1>5, <2>3, <3>1 DEF Count, Raise
      <4>2. QED
        BY <4>1 DEF Right
    <3>2. CASE ~(Refuses(where) \/ Malformed(where, <<>>))
      <4>1. PICK n : n = Cardinality(Matching(table, where))
        OBVIOUS
      <4>2. a = [kind |-> "count", where |-> where, got |-> "total", total |-> n,
                 exists |-> n > 0]
        BY <1>2, <1>5, <2>3, <3>2, <4>1 DEF Count, Return
      <4>3. QED
        BY <1>4, <4>1, <4>2, CountRight
    <3>3. QED
      BY <3>1, <3>2
  <2>4. QED
    BY <2>1, <2>2, <2>3 DEF GetNeedFields
<1>7. Right(View.users, answer)'
  BY <1>3, <1>5, <1>6
<1>8. QED
  BY <1>7, RightAnswer, PTL

LEMMA OtherAnswers ==
  ASSUME Shape, AnswerIsAsked, [Next]_vars,
         \A call \in Reads : ~GetByAttributes(call) /\ ~GetNeedFields(call),
         \A where \in Wheres : ~GetOne(where) /\ ~Count(where)
  PROVE  AnswerIsAsked'
<1>1. TypeOK
  BY DEF Shape
<1>2. CASE UNCHANGED vars
  <2>1. View' = View /\ answer' = answer
    BY <1>1, <1>2, Still DEF vars
  <2>2. Right(View.users, answer)
    BY RightAnswer
  <2>3. Right(View.users, answer)'
    BY <2>1, <2>2
  <2>4. QED
    BY <2>3, RightAnswer, PTL
<1>3. CASE answer'.kind \in {"none", "write", "batch"}
  <2>1. Right(View.users, answer)'
    <3>1. PICK a : a = answer'
      OBVIOUS
    <3>2. PICK table : table = View'.users
      OBVIOUS
    <3>3. Right(table, a)
      BY <1>3, <3>1, OtherAnswer
    <3>4. QED
      BY <3>1, <3>2, <3>3
  <2>2. QED
    BY <2>1, RightAnswer, PTL
<1>4. CASE Goes \/ StatementFails \/ InsertChunk \/ ChunkFails
  <2>1. answer = Silence \/ Goes
    BY <1>4 DEF StatementFails, InsertChunk, ChunkFails, Idle, Shape, Calls
  <2>2. answer'.kind \in {"none", "write", "batch"}
    BY <1>4, <2>1 DEF Goes, StatementFails, InsertChunk, ChunkFails, Raise, Return, Wrote,
                      BatchAnswer, Silence
  <2>3. QED
    BY <1>3, <2>2
<1>5. CASE \E id \in Ids, v \in Values : Add(id, v)
  BY <1>1, <1>3, <1>5, Added
<1>6. CASE \E where \in Wheres, v \in Values \cup {None} : Update(where, v)
  BY <1>3, <1>6, Updated
<1>7. CASE \E where \in Wheres : Remove(where)
  BY <1>3, <1>7, Removed
<1>8. CASE \E rows \in Batches : AddBatch(rows)
  <2>1. answer = Silence /\ (answer' = answer \/ answer'.kind = "write")
    BY <1>8, BatchStarts DEF AddBatch, Idle
  <2>2. QED
    BY <1>3, <2>1 DEF Silence
<1>9. CASE Reconnect \/ Begin \/ Commit \/ CommitFails \/ BlockRaises \/ Rollback
  <2>1. answer' = answer /\ answer = Silence
    BY <1>9 DEF Reconnect, Begin, Commit, CommitFails, BlockRaises, Rollback, Idle
  <2>2. QED
    BY <1>3, <2>1 DEF Silence
<1>10. QED
  BY <1>2, <1>4, <1>5, <1>6, <1>7, <1>8, <1>9 DEF Next

(* A read answers what its arguments ask for, for any users, and any       *)
(* conditions, joins, orders, limits and offsets put together, unless two  *)
(* joins share a lookup or the limit is 0; get() tells none, one and more  *)
(* than one row apart, and count() and exists() agree with the rows.       *)
THEOREM ReadsAreAnswered == Spec => []AnswerIsAsked
<1>1. Init => Shape /\ AnswerIsAsked
  <2>1. ASSUME Init PROVE AnswerIsAsked
    <3>1. answer.kind = "none"
      BY <2>1 DEF Init, Silence
    <3>2. QED
      BY <3>1 DEF AnswerIsAsked
  <2>2. QED
    BY <2>1, InitShape
<1>2. Shape /\ AnswerIsAsked /\ [Next]_vars => Shape' /\ AnswerIsAsked'
  <2> SUFFICES ASSUME Shape, AnswerIsAsked, [Next]_vars PROVE Shape' /\ AnswerIsAsked'
    OBVIOUS
  <2>1. Shape'
    BY StepShape
  <2>2. CASE \/ \E call \in Reads : GetByAttributes(call) \/ GetNeedFields(call)
             \/ \E where \in Wheres : GetOne(where) \/ Count(where)
    BY <2>1, <2>2, ReadAnswers
  <2>3. CASE /\ \A call \in Reads : ~GetByAttributes(call) /\ ~GetNeedFields(call)
             /\ \A where \in Wheres : ~GetOne(where) /\ ~Count(where)
    BY <2>1, <2>3, OtherAnswers
  <2>4. QED
    BY <2>2, <2>3
<1>3. QED
  BY <1>1, <1>2, PTL DEF Spec
=============================================================================
