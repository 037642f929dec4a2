------------------------------ MODULE Repository ------------------------------
(***************************************************************************)
(* UserRepo, the repository with an outbox, inside and outside the         *)
(* transactions of a UnitOfWork.  A statement with a session is part of    *)
(* its transaction; without one execute_stmt opens a session for it and    *)
(* commits it alone.  An error leaves the innermost `async with`, as it    *)
(* does for every caller in the application.  A connection may be lost     *)
(* inside a transaction: the session is rolled back, the statement alone   *)
(* is repeated in a new transaction, and the block goes on in that one.    *)
(***************************************************************************)
EXTENDS Statements

CONSTANTS
  Ids,          \* primary keys
  Values,       \* values of the column a
  Starts,       \* the users there may be at first
  Reads,        \* the arguments of get_by_attributes
  Wheres,       \* the where arguments of the other operations
  Batches,      \* the data of add_batch
  MaxArgs,      \* MAX_ARGS, 30000 in the code
  MaxChanges,   \* bound: changes of rows
  MaxFaults     \* bound: failures of the server

(* The users there can be, as a function from their ids.                   *)
Tables == UNION {[ids -> Values] : ids \in SUBSET Ids}

(* A row of the data of add_batch.                                         *)
Rows == Ids \X Values

(* Keys and numbers of rows are finite; joins are a list.                  *)
ASSUME RepositoryAssumption ==
  /\ Ids \subseteq Nat /\ IsFiniteSet(Ids) /\ Values \subseteq Nat
  /\ Starts \subseteq Tables /\ Batches \subseteq Seq(Rows)
  /\ \A call \in Reads : Len(call.joins) \in Nat
  /\ MaxArgs \in Nat /\ MaxArgs >= 2
  /\ MaxChanges \in Nat /\ MaxFaults \in Nat

Columns == 2
BatchSize == MaxArgs \div Columns

VARIABLES
  durable,  \* what is committed
  txn,      \* the transaction and its savepoint, outermost first
  gone,     \* the savepoint was rolled back with a lost connection
  failing,  \* an error is on its way out of the innermost block
  batch,    \* the rows add_batch has yet to insert, the ids it has inserted and, as
            \* a history, its data, how many of its rows went with a lost connection
            \* and the users before the others
  answer,   \* the call that has just returned, with what it returned
  faults    \* history: failures so far

dbVars == <<durable, txn, gone>>
vars == <<dbVars, failing, batch, answer, faults>>

(* A state of the database: the users, the outbox, and a history of the    *)
(* changes of rows with the reason why one is not announced, if any; one   *)
(* that is undone was announced after it was rolled back.                  *)
Actions == {"CREATE", "UPDATE", "DELETE"}
Messages == Actions \X Ids
Changes == [what : Messages, silent : {"no", "undone", "batch", "several", "outside"}]
Database == [users : Tables, outbox : Seq(Messages), changes : Seq(Changes)]

NoBatch == [rows |-> <<>>, done |-> <<>>, given |-> <<>>, lost |-> 0, before |-> <<>>]
Silence == [kind |-> "none"]

TypeOK ==
  /\ durable \in Database
  /\ txn \in Seq(Database) /\ Len(txn) <= 2
  /\ gone \in BOOLEAN /\ failing \in BOOLEAN
  /\ batch \in [rows : Seq(Rows), done : Seq(Ids),
                given : Seq(Rows), lost : Nat, before : Tables \cup {<<>>}]
  /\ faults \in 0..MaxFaults

Init ==
  /\ durable \in [users : Starts, outbox : {<<>>}, changes : {<<>>}]
  /\ txn = <<>>
  /\ gone = FALSE /\ failing = FALSE
  /\ batch = NoBatch
  /\ answer = Silence
  /\ faults = 0

InTransaction == txn # <<>>

(* What the next statement sees, and what it leaves behind: in the         *)
(* transaction, or for good.                                               *)
View == IF InTransaction THEN txn[Len(txn)] ELSE durable

Becomes(db) ==
  /\ IF InTransaction
       THEN txn' = [txn EXCEPT ![Len(txn)] = db] /\ UNCHANGED durable
       ELSE durable' = db /\ UNCHANGED txn
  /\ UNCHANGED gone

Fault == faults < MaxFaults /\ faults' = faults + 1

(* The connection of the transaction is lost in a statement: rollback, of  *)
(* the whole session, and the statement is repeated in a new transaction,  *)
(* without the savepoint there may have been.                              *)
InNewTransaction(db) ==
  /\ InTransaction
  /\ txn' = [i \in DOMAIN txn |-> db]
  /\ gone' = (Len(txn) = 2)
  /\ UNCHANGED durable

(* The caller is free to make a call.                                      *)
Idle == ~failing /\ batch = NoBatch /\ answer = Silence

(* A call returns, or raises: an error inside a transaction leaves it.     *)
Return(a) == answer' = a /\ UNCHANGED failing
Raise(a) == answer' = a /\ failing' = InTransaction

(* The caller has looked at what was returned.                             *)
Goes ==
  /\ answer # Silence
  /\ answer' = Silence
  /\ UNCHANGED <<dbVars, failing, batch, faults>>

-----------------------------------------------------------------------------
(* Reading.  Bound: reads are made of the users there are at first.        *)

Unchanged == View.changes = <<>> /\ ~InTransaction

GetByAttributes(call) ==
  /\ Idle /\ Unchanged
  /\ IF RefusesRead(call) \/ Malformed(call.where, call.joins)
       THEN Raise([kind |-> "read", call |-> call, got |-> "error"])
       ELSE \E rows \in Execute(View.users, Select(call)) :
              Return([kind |-> "read", call |-> call, got |-> "rows", rows |-> rows])
  /\ UNCHANGED <<dbVars, batch, faults>>

(* The same question, for some columns and without locks.                  *)
GetNeedFields(call) == ~call.lock /\ ~call.skip_locked /\ GetByAttributes(call)

(* count, and exists, whose answer is whether there are any.               *)
Count(where) ==
  /\ Idle /\ Unchanged
  /\ IF Refuses(where) \/ Malformed(where, <<>>)
       THEN Raise([kind |-> "count", where |-> where, got |-> "error"])
       ELSE LET n == Cardinality(Matching(View.users, where)) IN
            Return([kind |-> "count", where |-> where, got |-> "total",
                    total |-> n, exists |-> n > 0])
  /\ UNCHANGED <<dbVars, batch, faults>>

ByKey(where, limit) ==
  [where |-> where, joins |-> <<>>, order |-> <<>>, limit |-> limit, offset |-> 0,
   lock |-> FALSE, skip_locked |-> FALSE]

(* Broken variant of GetOne: one row is asked for.                         *)
GetOneOfMany(where) ==
  /\ Idle /\ Unchanged
  /\ IF Refuses(where) \/ Malformed(where, <<>>)
       THEN Raise([kind |-> "get", where |-> where, got |-> "error"])
       ELSE \E rows \in Execute(View.users, Select(ByKey(where, 1))) :
              Return([kind |-> "get", where |-> where,
                      got |-> IF rows = <<>> THEN "none" ELSE "one"])
  /\ UNCHANGED <<dbVars, batch, faults>>

(* get() asks for two rows, to see whether there is more than one.         *)
GetOne(where) ==
  /\ Idle /\ Unchanged
  /\ IF Refuses(where) \/ Malformed(where, <<>>)
       THEN Raise([kind |-> "get", where |-> where, got |-> "error"])
       ELSE \E rows \in Execute(View.users, Select(ByKey(where, 2))) :
              IF Len(rows) > 1
                THEN Raise([kind |-> "get", where |-> where, got |-> "several"])
                ELSE Return([kind |-> "get", where |-> where,
                             got |-> IF rows = <<>> THEN "none" ELSE "one"])
  /\ UNCHANGED <<dbVars, batch, faults>>

-----------------------------------------------------------------------------
(* Writing.                                                                *)

(* A set of ids in some order.                                             *)
Listed(ids) ==
  CHOOSE s \in [1..Cardinality(ids) -> ids] : \A i, j \in DOMAIN s : i # j => s[i] # s[j]

(* The changes a statement makes: save_outbox announces the one of the row *)
(* that was returned.                                                      *)
Made(action, ids, returned) ==
  LET why(id) == IF ~InTransaction THEN "outside" ELSE IF id = returned THEN "no" ELSE "several"
  IN  [i \in 1..Cardinality(ids) |->
         [what |-> <<action, Listed(ids)[i]>>, silent |-> why(Listed(ids)[i])]]

(* What a statement of the users leaves of the database.                   *)
Change(db, users, action, ids, returned) ==
  [users |-> users, changes |-> db.changes \o Made(action, ids, returned), outbox |-> db.outbox]

Wrote(got) == [kind |-> "write", got |-> got]

(* Broken variant of SaveOutbox: the session is not asked for.             *)
SaveOutboxNever(db, action, id) ==
  /\ Becomes(db)
  /\ Return(Wrote("row"))
  /\ UNCHANGED faults

(* The message of a change that is in the database.                        *)
Announced(db, action, id) ==
  [users |-> db.users, changes |-> db.changes, outbox |-> Append(db.outbox, <<action, id>>)]

(* The message of one that was rolled back before it.                      *)
AnnouncedUndone(db, action, id) ==
  Announced([db EXCEPT !.changes = Append(@, [what |-> <<action, id>>, silent |-> "undone"])],
            action, id)

(* save_outbox: without a session, RuntimeError, with the users changed.   *)
(* The INSERT is repeated, when the connection is lost in it, without the  *)
(* change it announces.                                                    *)
SaveOutbox(db, action, id) ==
  \/ /\ InTransaction
     /\ Becomes(Announced(db, action, id))
     /\ Return(Wrote("row"))
     /\ UNCHANGED faults
  \/ /\ Fault
     /\ InNewTransaction(AnnouncedUndone(durable, action, id))
     /\ Return(Wrote("row"))
  \/ /\ ~InTransaction
     /\ Becomes(db)
     /\ Raise(Wrote("error"))
     /\ UNCHANGED faults

Room(n) == Len(View.changes) + n <= MaxChanges

(* The statement fails for good; a COMMIT of its own is taken with it.     *)
StatementFails ==
  /\ Idle
  /\ Fault
  /\ Raise(Wrote("error"))
  /\ UNCHANGED <<dbVars, batch>>

(* A try of a statement fails that will be repeated, be it a read, the     *)
(* first statement of a call or the next INSERT of add_batch: everything   *)
(* the transaction has done so far is rolled back, and nobody is told.     *)
Reconnect ==
  /\ ~failing /\ answer = Silence
  /\ Fault
  /\ InNewTransaction(durable)
  /\ batch' = IF batch = NoBatch THEN NoBatch
              ELSE [batch EXCEPT !.lost = Len(batch.done), !.before = durable.users]
  /\ UNCHANGED <<failing, answer>>

Add(id, v) ==
  /\ Idle /\ Room(1)
  /\ IF id \in DOMAIN View.users
       THEN Raise(Wrote("error")) /\ UNCHANGED <<dbVars, faults>>
       ELSE SaveOutbox(Change(View, Merge(View.users, [i \in {id} |-> v]), "CREATE", {id}, id),
                       "CREATE", id)
  /\ UNCHANGED batch

(* update and remove: a WHERE without conditions is no statement; every    *)
(* row it selects is changed, one of them is returned and announced.       *)
Touch(where, action, users) ==
  LET ids == Matching(View.users, where) IN
  IF Refuses(where) \/ Malformed(where, <<>>) \/ where = <<>>
    THEN Raise(Wrote("error")) /\ UNCHANGED <<dbVars, faults>>
    ELSE IF ids = {}
      THEN Raise(Wrote("none")) /\ UNCHANGED <<dbVars, faults>>
      ELSE /\ Room(Cardinality(ids))
           /\ \E id \in ids : SaveOutbox(Change(View, users, action, ids, id), action, id)

(* Data with nothing set is a ValueError.                                  *)
Update(where, v) ==
  /\ Idle
  /\ IF v = None
       THEN Raise(Wrote("error")) /\ UNCHANGED <<dbVars, faults>>
       ELSE Touch(where, "UPDATE",
                  [id \in DOMAIN View.users |->
                     IF id \in Matching(View.users, where) THEN v ELSE View.users[id]])
  /\ UNCHANGED batch

Remove(where) ==
  /\ Idle
  /\ Touch(where, "DELETE",
           [id \in DOMAIN View.users \ Matching(View.users, where) |-> View.users[id]])
  /\ UNCHANGED batch

-----------------------------------------------------------------------------
(* add_batch.                                                              *)

(* No data is a ValueError.                                                *)
AddBatch(rows) ==
  /\ Idle
  /\ IF rows = <<>>
       THEN Raise(Wrote("error")) /\ UNCHANGED batch
       ELSE /\ Room(0)
            /\ batch' = [rows |-> rows, done |-> <<>>, given |-> rows, lost |-> 0,
                         before |-> View.users]
            /\ UNCHANGED <<failing, answer>>
  /\ UNCHANGED <<dbVars, faults>>

BatchAnswer(got, done) ==
  [kind |-> "batch", got |-> got, rows |-> done, given |-> batch.given, lost |-> batch.lost,
   before |-> batch.before]

Min(m, n) == IF m < n THEN m ELSE n

(* The next INSERT: as many rows as MAX_ARGS allows.                       *)
Chunk == SubSeq(batch.rows, 1, Min(BatchSize, Len(batch.rows)))
ChunkIds == {Chunk[i][1] : i \in DOMAIN Chunk}

(* Broken variant of Returned: the INSERT has no RETURNING.                *)
ReturnedNothing(rows) == [i \in DOMAIN rows |-> None]

(* RETURNING *, as ids.                                                    *)
Returned(rows) == [i \in DOMAIN rows |-> rows[i][1]]

(* Broken variant of Rest: the range starts one row too late.              *)
RestSkips(rows, n) == SubSeq(rows, n + 2, Len(rows))

Rest(rows, n) == SubSeq(rows, n + 1, Len(rows))

(* A primary key twice in the chunk, or of a row that is there.            *)
Refused == Cardinality(ChunkIds) # Len(Chunk) \/ ChunkIds \cap DOMAIN View.users # {}

(* Rows as users.                                                          *)
AsTable(rows) ==
  [id \in {rows[i][1] : i \in DOMAIN rows} |->
     (CHOOSE r \in {rows[i] : i \in DOMAIN rows} : r[1] = id)[2]]

WithChunk ==
  [users |-> Merge(View.users, AsTable(Chunk)),
   changes |-> View.changes \o [i \in 1..Len(Chunk) |->
                 [what |-> <<"CREATE", Chunk[i][1]>>, silent |-> "batch"]],
   outbox |-> View.outbox]

(* Without a session the INSERT is committed before the next.              *)
InsertChunk ==
  LET rest == Rest(batch.rows, Len(Chunk))
      done == batch.done \o Returned(Chunk)
  IN
  /\ batch # NoBatch
  /\ ~Refused
  /\ Becomes(WithChunk)
  /\ IF rest = <<>>
       THEN batch' = NoBatch /\ Return(BatchAnswer("rows", done))
       ELSE batch' = [batch EXCEPT !.rows = rest, !.done = done] /\ UNCHANGED <<failing, answer>>
  /\ UNCHANGED faults

(* A row that exists, or the server for good (in a transaction, often with *)
(* tries before that, which are Reconnect): nothing of this INSERT, unless *)
(* it is the answer to its COMMIT that is lost.                            *)
ChunkFails ==
  /\ batch # NoBatch
  /\ \/ Refused /\ UNCHANGED <<durable, faults>>
     \/ /\ ~Refused
        /\ Fault
        /\ durable' \in {durable} \cup IF InTransaction THEN {} ELSE {WithChunk}
  /\ batch' = NoBatch
  /\ Raise(BatchAnswer("error", batch.done))
  /\ UNCHANGED <<txn, gone>>

-----------------------------------------------------------------------------
(* UnitOfWork.transaction.                                                 *)

(* With a session at hand it is a savepoint.                               *)
Begin ==
  /\ Idle
  /\ Len(txn) < 2
  /\ txn' = Append(txn, View)
  /\ UNCHANGED <<durable, gone, failing, batch, answer, faults>>

Commit ==
  /\ Idle
  /\ InTransaction /\ ~gone
  /\ IF Len(txn) = 2
       THEN txn' = <<txn[2]>> /\ UNCHANGED durable
       ELSE txn' = <<>> /\ durable' = txn[1]
  /\ UNCHANGED <<gone, failing, batch, answer, faults>>

(* The connection breaks in COMMIT: done or not, the caller has an error.  *)
CommitFails ==
  /\ Idle
  /\ Len(txn) = 1
  /\ Fault
  /\ txn' = <<>>
  /\ durable' \in {durable, txn[1]}
  /\ UNCHANGED <<gone, failing, batch, answer>>

(* The block raises by itself, or commits a savepoint that is gone.        *)
BlockRaises ==
  /\ Idle
  /\ InTransaction
  /\ failing' = TRUE
  /\ UNCHANGED <<dbVars, batch, answer, faults>>

(* rollback of the innermost block, of nothing when its savepoint is gone; *)
(* the error goes on, or the block around it has caught it.                *)
Rollback ==
  /\ failing /\ answer = Silence
  /\ txn' = IF gone THEN <<View>> ELSE SubSeq(txn, 1, Len(txn) - 1)
  /\ gone' = FALSE
  /\ failing' \in IF Len(txn) = 2 THEN BOOLEAN ELSE {FALSE}
  /\ UNCHANGED <<durable, batch, answer, faults>>

-----------------------------------------------------------------------------
Next ==
  \/ Goes
  \/ \E call \in Reads : GetByAttributes(call) \/ GetNeedFields(call)
  \/ \E where \in Wheres : GetOne(where) \/ Count(where)
  \/ StatementFails \/ Reconnect
  \/ \E id \in Ids, v \in Values : Add(id, v)
  \/ \E where \in Wheres, v \in Values \cup {None} : Update(where, v)
  \/ \E where \in Wheres : Remove(where)
  \/ \E rows \in Batches : AddBatch(rows)
  \/ InsertChunk \/ ChunkFails
  \/ Begin \/ Commit \/ CommitFails \/ BlockRaises \/ Rollback

Spec == Init /\ [][Next]_vars

-----------------------------------------------------------------------------
(* Properties.                                                             *)

(* A read that is answered is answered with the rows its arguments ask     *)
(* for, whichever conditions, joins, orders and limits are put together,   *)
(* unless two joins share a lookup (one value is lost) or the limit is 0   *)
(* (all rows); get() returns a row when exactly one has the key.           *)
AnswerIsAsked ==
  /\ answer.kind = "read" /\ answer.got = "rows" =>
       \/ answer.rows \in Asked(View.users, answer.call)
       \/ Clash(answer.call.joins)
       \/ answer.call.limit = 0
  /\ answer.kind = "get" /\ answer.got # "error" =>
       answer.got = CASE Cardinality(Matching(View.users, answer.where)) = 0 -> "none"
                      [] Cardinality(Matching(View.users, answer.where)) = 1 -> "one"
                      [] OTHER -> "several"
  /\ answer.kind = "count" /\ answer.got = "total" =>
       \A rows \in Asked(View.users, ByKey(answer.where, None)) :
         answer.total = Len(rows) /\ answer.exists = (rows # <<>>)

(* The outbox of a database holds its announced changes, in their order.   *)
Told(change) == change.silent \in {"no", "undone"}

Announces(db) ==
  LET announced == {i \in DOMAIN db.changes : Told(db.changes[i])} IN
  \E at \in [DOMAIN db.outbox -> announced] :
    /\ \A i \in announced : \E n \in DOMAIN db.outbox : at[n] = i
    /\ \A m, n \in DOMAIN db.outbox : m < n => at[m] < at[n]
    /\ \A n \in DOMAIN db.outbox : db.outbox[n] = db.changes[at[n]].what

(* UserRepo announces what it does: through savepoints, rollbacks, lost    *)
(* commits and connections and failing statements, the outbox holds the    *)
(* durable changes in the order they were made.  Silent are only rows of   *)
(* add_batch, changes without a transaction, and all but one of the rows   *)
(* of one statement; and what is announced without being there is only a   *)
(* change that was rolled back by the repeated INSERT of its own message.  *)
AnnouncedInOrder == Announces(durable)

(* add_batch inserts its data in order and in whole chunks, and returns    *)
(* the ids of all of it, or else fails: outside a transaction a number of  *)
(* chunks stays, those before the one that failed or, if the answer to a   *)
(* COMMIT was lost, that one too.  Of what it returns, nothing is missing  *)
(* but, in a transaction whose connection was lost, all the chunks before  *)
(* the one that was repeated: it reports these rows though they are gone.  *)
BatchOutcome ==
  answer.kind = "batch" =>
    LET kept == SubSeq(answer.given, answer.lost + 1, Len(answer.given)) IN
    /\ answer.lost % BatchSize = 0
    /\ answer.lost > 0 => InTransaction /\ faults > 0
    /\ \E n \in 0..Len(kept) :
         /\ \A i, j \in 1..n : i # j => kept[i][1] # kept[j][1]
         /\ \A i \in 1..n : kept[i][1] \notin DOMAIN answer.before
         /\ View.users = Merge(answer.before, AsTable(SubSeq(kept, 1, n)))
         /\ IF answer.got = "rows"
              THEN /\ n = Len(kept)
                   /\ answer.rows = [i \in 1..Len(answer.given) |-> answer.given[i][1]]
              ELSE /\ n % BatchSize = 0 \/ n = Len(kept)
                   /\ answer.lost + n - Len(answer.rows) \in 0..BatchSize
=============================================================================
