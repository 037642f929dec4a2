------------------------------- MODULE DialogApi -------------------------------
(***************************************************************************)
(* The dialog endpoints: login, authentication by token, the checks before *)
(* a message is sent, and the call of the chat service, whose answer is    *)
(* the answer of the request.  Requests run concurrently on one event      *)
(* loop; a step runs from one suspension to the next.  The chat service,   *)
(* which follows the users by the outbox and keeps the messages, is        *)
(* external.                                                               *)
(***************************************************************************)
EXTENDS Naturals, FiniteSets

CONSTANTS
  Users,
  Requests,   \* requests to /dialog; a generated id is named by its request
  GivenIds,   \* X-Request-Id values clients may send
  Inputs,     \* the requests clients may make
  None

Scopes == {"access", "refresh"}
Tokens == [sub : Users, scope : Scopes]

(* A request: its operation, the user in its path, its Authorization (None *)
(* stands for no header, another scheme or a token that does not decode)   *)
(* and its X-Request-Id.                                                   *)
ASSUME DialogAssumption ==
  /\ None \notin Users \cup Requests \cup GivenIds \cup Tokens \cup Inputs
  /\ Inputs \subseteq [op : {"send", "list"}, to : Users, token : Tokens \cup {None},
                        given : GivenIds \cup {None}]

(* A body of an error says what is wrong (a text detail, a message in a    *)
(* detail, or a message), says it with an empty text detail, or does not.  *)
Bodies == {"telling", "empty", "other"}
Refusals == {400, 401, 404}   \* 400 stands for the other 4xx, too
Failures == {500, 503}        \* for the 5xx
Ids == Requests \cup GivenIds
Unexpected == [status |-> 500, id |-> None, message |-> None]
Answers == {Unexpected}
           \cup [status : {200}, id : Ids, message : {None}]
           \cup [status : Refusals \cup Failures \cup {502}, id : Ids,
                 message : {"own", "remote", "reason", None}]
Replies == [status : {200} \cup Refusals \cup Failures, body : Bodies]
Calls == [req : Requests, nth : 1..2, id : Ids \cup {None}]

VARIABLES
  users,      \* the users table
  tokens,     \* the tokens issued
  expired,    \* of these, those whose time is over
  pc,         \* control state of a request
  input,
  ctx,        \* request_id_ctx, in the context of a request
  reply,      \* the HTTP response a request waits for, once it has arrived
  answer,
  calls,      \* history: the calls of the chat service
  wire,       \* external: those that may still reach it
  chatUsers,  \* external: the users it knows
  stored      \* external: the calls whose message it has stored

vars == <<users, tokens, expired, pc, input, ctx, reply, answer, calls, wire, chatUsers, stored>>

TypeOK ==
  /\ users \subseteq Users
  /\ tokens \subseteq Tokens /\ expired \subseteq tokens
  /\ pc \in [Requests -> {"idle", "auth", "sender", "receiver", "call", "waiting", "answered"}]
  /\ input \in [Requests -> Inputs \cup {None}]
  /\ ctx \in [Requests -> Ids \cup {None}]
  /\ reply \in [Requests -> Replies \cup {None}]
  /\ answer \in [Requests -> Answers \cup {None}]
  /\ calls \subseteq Calls /\ wire \subseteq calls /\ stored \subseteq calls
  /\ chatUsers \subseteq users

Init ==
  /\ users = {} /\ tokens = {} /\ expired = {} /\ chatUsers = {}
  /\ pc = [r \in Requests |-> "idle"]
  /\ input = [r \in Requests |-> None]
  /\ ctx = [r \in Requests |-> None]
  /\ reply = [r \in Requests |-> None]
  /\ answer = [r \in Requests |-> None]
  /\ calls = {} /\ wire = {} /\ stored = {}

accounts == <<users, tokens, expired, chatUsers>>
chat == <<calls, wire, stored>>

-----------------------------------------------------------------------------
(* Users and tokens.                                                       *)

Register(u) ==
  /\ u \notin users
  /\ users' = users \cup {u}
  /\ UNCHANGED <<tokens, expired, chatUsers, pc, input, ctx, reply, answer, chat>>

(* login_user, with the right password, once the replica it reads has the  *)
(* user: a token for each scope, the second made of the data of the first. *)
(* Bound: once for each user.                                              *)
Login(u) ==
  /\ u \in users
  /\ \A t \in tokens : t.sub # u
  /\ tokens' = tokens \cup [sub : {u}, scope : Scopes]
  /\ UNCHANGED <<users, expired, chatUsers, pc, input, ctx, reply, answer, chat>>

(* A token runs out.  Nothing here depends on a refresh token's time.      *)
Expires(t) ==
  /\ t \in tokens \ expired
  /\ t.scope = "access"
  /\ expired' = expired \cup {t}
  /\ UNCHANGED <<users, tokens, chatUsers, pc, input, ctx, reply, answer, chat>>

-----------------------------------------------------------------------------
(* A request.                                                              *)

OwnId(r) == IF input[r].given = None THEN r ELSE input[r].given

(* Broken variant of ErrorSaid: what is not None is passed on.             *)
ErrorSaidAsIs(message) == message

(* set_unsuccessful: an empty message is none.                             *)
ErrorSaid(message) == IF message = "" THEN None ELSE message

(* The end of RequestIdMiddleware: the context variable is reset.          *)
Finish(r, a) ==
  /\ pc' = [pc EXCEPT ![r] = "answered"]
  /\ answer' = [answer EXCEPT ![r] = a]
  /\ ctx' = [ctx EXCEPT ![r] = None]

(* A response of the endpoint, an HTTPException included, carries the id.  *)
Answer(r, status, message) ==
  Finish(r, [status |-> status, id |-> OwnId(r), message |-> message])

(* An exception no one expects passes the middleware by: it becomes the    *)
(* answer 500 further out, without id or message.                          *)
Raise(r) == Finish(r, Unexpected)

Goto(r, label) ==
  /\ pc' = [pc EXCEPT ![r] = label]
  /\ UNCHANGED <<answer, ctx>>

(* Broken variant of SetId: the id is kept in a module variable.           *)
SetIdForAll(r, id) == ctx' = [q \in Requests |-> id]

(* request_id_ctx.set, in the context of the request only.                 *)
SetId(r, id) == ctx' = [ctx EXCEPT ![r] = id]

(* A request comes in, and RequestIdMiddleware gives it an id.             *)
Arrive(r) ==
  /\ pc[r] = "idle"
  /\ \E i \in Inputs :
       /\ i.token = None \/ i.token \in tokens
       /\ input' = [input EXCEPT ![r] = i]
       /\ SetId(r, IF i.given = None THEN r ELSE i.given)
  /\ pc' = [pc EXCEPT ![r] = "auth"]
  /\ UNCHANGED <<accounts, reply, answer, chat>>

(* get_token_for_headers, get_user_data_from_jwt: a header of the right    *)
(* scheme with a token that decodes and is not expired.                    *)
Decodes(t) == t # None /\ t \notin expired

(* Broken variant of Accepts: any valid token will do.                     *)
AcceptsAnyScope(t) == Decodes(t)

(* get_user_auth_token_data_from_headers, with scope_check "access".       *)
Accepts(t) == Decodes(t) /\ t.scope = "access"

(* The dependency get_user_data_access, then check_message_data.           *)
Authenticate(r) ==
  /\ pc[r] = "auth"
  /\ IF ~Accepts(input[r].token) THEN Answer(r, 401, "own")
     ELSE IF input[r].op = "list" THEN Goto(r, "call")
     ELSE IF input[r].token.sub = input[r].to THEN Answer(r, 400, "own")
     ELSE Goto(r, "sender")
  /\ UNCHANGED <<accounts, input, reply, chat>>

(* get_user_by_id of the sender and of the receiver, two statements.       *)
CheckUser(r, at, u, next) ==
  /\ pc[r] = at
  /\ \/ u \in users /\ Goto(r, next)
     \/ u \notin users /\ Answer(r, 404, "own")
     \/ Raise(r)   \* the database fails
  /\ UNCHANGED <<accounts, input, reply, chat>>

CheckSender(r) == pc[r] = "sender" /\ CheckUser(r, "sender", input[r].token.sub, "receiver")
CheckReceiver(r) == pc[r] = "receiver" /\ CheckUser(r, "receiver", input[r].to, "call")

(* send_message and get_dialog of the client: X-Request-Id is that of the  *)
(* context, Authorization that of the request.                             *)
NewCall(r) ==
  LET c == [req |-> r, nth |-> Cardinality({d \in calls : d.req = r}) + 1, id |-> ctx[r]]
  IN  calls' = calls \cup {c} /\ wire' = wire \cup {c}

CallChat(r) ==
  /\ pc[r] = "call"
  /\ NewCall(r)
  /\ Goto(r, "waiting")
  /\ UNCHANGED <<accounts, input, reply, stored>>

(* _extract_error_payload: what the body says, an empty text detail as it  *)
(* is, or else the reason phrase.                                          *)
ErrorMessage(body) == CASE body = "telling" -> "remote"
                        [] body = "empty" -> ""
                        [] body = "other" -> "reason"

(* _apply_success_http_response and _dialog_proxy_response: the status of  *)
(* the chat service, any status, is the status of the answer.              *)
Replied(r) ==
  /\ pc[r] = "waiting"
  /\ reply[r] # None
  /\ Answer(r, reply[r].status,
            IF reply[r].status = 200 THEN None ELSE ErrorSaid(ErrorMessage(reply[r].body)))
  /\ reply' = [reply EXCEPT ![r] = None]
  /\ UNCHANGED <<accounts, input, chat>>

(* Broken variant of NoReply: the call is repeated once.                   *)
NoReplyRetry(r) ==
  /\ pc[r] = "waiting"
  /\ IF Cardinality({c \in calls : c.req = r}) < 2
       THEN NewCall(r) /\ UNCHANGED <<pc, answer, ctx>>
       ELSE Answer(r, 502, "own") /\ UNCHANGED <<calls, wire>>
  /\ UNCHANGED <<accounts, input, reply, stored>>

(* Broken variant of NoReply: a connection that stands is waited on.       *)
NoReplyWaits(r) ==
  /\ pc[r] = "waiting"
  /\ \E c \in wire : c.req = r
  /\ Answer(r, 502, "own")
  /\ UNCHANGED <<accounts, input, reply, chat>>

(* httpx.RequestError: no connection, or no response in time; the text of  *)
(* a timeout is empty.  The call is not repeated, and may still be on its  *)
(* way.                                                                    *)
NoReply(r) ==
  /\ pc[r] = "waiting"
  /\ reply[r] = None
  /\ \E text \in {"own", ""} : Answer(r, 502, ErrorSaid(text))
  /\ UNCHANGED <<accounts, input, reply, chat>>

-----------------------------------------------------------------------------
(* The chat service (external).                                            *)

ChatLearns(u) ==
  /\ u \in users \ chatUsers
  /\ chatUsers' = chatUsers \cup {u}
  /\ UNCHANGED <<users, tokens, expired, pc, input, ctx, reply, answer, chat>>

(* It checks the token and the users it knows, stores a message, and       *)
(* answers.  It may refuse anything, and then has stored nothing; when it  *)
(* fails it may have stored the message; its answer may be lost.           *)
ChatHandles(c) ==
  LET i == input[c.req]
      valid == i.token \notin expired
      stores == valid /\ i.op = "send" /\ {i.to, i.token.sub} \subseteq chatUsers
  IN
  /\ c \in wire
  /\ wire' = wire \ {c}
  /\ \E a \in Replies :
       /\ a.status = 200 => valid /\ (i.op = "send" => stores)
       /\ \/ pc[c.req] = "waiting" /\ reply' = [reply EXCEPT ![c.req] = a]
          \/ UNCHANGED reply
       /\ \/ stores /\ a.status \notin Refusals /\ stored' = stored \cup {c}
          \/ ~(i.op = "send" /\ a.status = 200) /\ UNCHANGED stored
  /\ UNCHANGED <<accounts, pc, input, ctx, answer, calls>>

CallLost(c) ==
  /\ c \in wire
  /\ wire' = wire \ {c}
  /\ UNCHANGED <<accounts, pc, input, ctx, reply, answer, calls, stored>>

-----------------------------------------------------------------------------
Serve(r) ==
  Authenticate(r) \/ CheckSender(r) \/ CheckReceiver(r) \/ CallChat(r) \/ Replied(r) \/ NoReply(r)

Next ==
  \/ \E u \in Users : Register(u) \/ Login(u) \/ ChatLearns(u)
  \/ \E t \in Tokens : Expires(t)
  \/ \E r \in Requests : Arrive(r) \/ Serve(r)
  \/ \E c \in wire : ChatHandles(c) \/ CallLost(c)

Spec == Init /\ [][Next]_vars

(* The event loop resumes a request that can go on; the client gives up a  *)
(* call after CHAT_SERVICE_TIMEOUT.  httpx counts that time for every      *)
(* read: a chat service whose response never ceases to trickle in is not   *)
(* given up, and is left out here.                                         *)
FairSpec == Spec /\ \A r \in Requests : WF_vars(Serve(r))

-----------------------------------------------------------------------------
(* Properties.                                                             *)

(* What the client is told is what happened: with 200 its message is       *)
(* stored, after a refusal (4xx), of this service or of the chat service,  *)
(* it is not and never will be; only a 5xx leaves it open.  However a      *)
(* timeout and a late answer meet, no message is stored twice.  (The chat  *)
(* service is taken to refuse only what it has not stored.)                *)
StoredAsAnswered ==
  \A r \in Requests :
    LET copies == {c \in stored : c.req = r} IN
    /\ Cardinality(copies) <= 1
    /\ answer[r] # None /\ answer[r].status = 200 /\ input[r].op = "send" => copies # {}
    /\ answer[r] # None /\ answer[r].status \in Refusals => copies = {}

(* "X-Request-Id is passed on to the chat service" (docs/REVIEW.md, 3): of *)
(* concurrent requests, each has its own id on its call and on its answer, *)
(* a 500 of the chat service included; there is none on the answer when    *)
(* the database fails, and no call has been made then.                     *)
OwnRequestId ==
  /\ \A c \in calls : c.id = OwnId(c.req)
  /\ \A r \in Requests : answer[r] # None =>
       answer[r].id = OwnId(r) \/ (answer[r] = Unexpected /\ \A c \in calls : c.req # r)

(* The chat service does not look at scopes, at self, or at the users of   *)
(* this service: still, what it stores was sent by the owner of an access  *)
(* token to another user who is registered here.                           *)
StoredIsAllowed ==
  \A c \in stored :
    LET i == input[c.req] IN
    i.token.scope = "access" /\ i.token.sub # i.to /\ {i.token.sub, i.to} \subseteq users

(* Every request is answered, whatever becomes of its call.                *)
EveryoneAnswered == \A r \in Requests : pc[r] # "idle" ~> pc[r] = "answered"
=============================================================================
