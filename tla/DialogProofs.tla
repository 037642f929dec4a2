----------------------------- MODULE DialogProofs -----------------------------
(***************************************************************************)
(* What a request to the dialog endpoints does at the chat service, and    *)
(* what its client is told, for any number of users, requests and ids.     *)
(***************************************************************************)
EXTENDS DialogApi, FiniteSetTheorems, TLAPS

(* What has been checked of a request that is to be passed on.             *)
Allowed(r) ==
  /\ input[r].token \in Tokens /\ input[r].token.scope = "access"
  /\ input[r].op = "send" => input[r].token.sub # input[r].to

Known(r) == input[r].op = "send" => {input[r].token.sub, input[r].to} \subseteq users

Checked ==
  \A r \in Requests :
    /\ pc[r] # "idle" => input[r] \in Inputs
    /\ pc[r] \notin {"idle", "answered"} => ctx[r] = OwnId(r)
    /\ pc[r] \in {"sender", "receiver", "call"} => Allowed(r)
    /\ pc[r] \in {"sender", "receiver"} => input[r].op = "send"
    /\ pc[r] = "receiver" => input[r].token.sub \in users
    /\ pc[r] = "call" => Known(r)

(* One call of a request that has come so far.                             *)
Called ==
  /\ \A c \in calls : /\ pc[c.req] \in {"waiting", "answered"}
                      /\ c.id = OwnId(c.req)
                      /\ Allowed(c.req) /\ Known(c.req)
  /\ \A c, d \in calls : c.req = d.req => c = d
  /\ \A c \in stored : input[c.req].op = "send"
  /\ wire \cap stored = {}

Kept(r) == \E c \in stored : c.req = r
Never(r) == \A c \in stored \cup wire : c.req # r

(* What a response and an answer say of the message.                       *)
Told ==
  \A r \in Requests :
    /\ reply[r] # None =>
         /\ pc[r] = "waiting" /\ \A c \in wire : c.req # r
         /\ reply[r].status = 200 /\ input[r].op = "send" => Kept(r)
         /\ reply[r].status \in Refusals => Never(r)
    /\ answer[r] # None =>
         /\ pc[r] = "answered"
         /\ \/ answer[r].id = OwnId(r)
            \/ answer[r] = Unexpected /\ \A c \in calls : c.req # r
         /\ answer[r].status = 200 /\ input[r].op = "send" => Kept(r)
         /\ answer[r].status \in Refusals => Never(r)

IInv == TypeOK /\ Checked /\ Called /\ Told

-----------------------------------------------------------------------------
LEMMA InitIInv == Init => IInv
<1> SUFFICES ASSUME Init PROVE IInv
  OBVIOUS
<1> USE DialogAssumption DEF Init
<1>1. TypeOK
  BY DEF TypeOK
<1>2. Checked /\ Called /\ Told
  BY DEF Checked, Called, Told
<1>3. QED
  BY <1>1, <1>2 DEF IInv

(* An answer is of its type, and so is that to an unexpected error.        *)
LEMMA AnswerTypes ==
  ASSUME TypeOK, NEW q \in Requests, input[q] \in Inputs, NEW status, NEW message,
         Answer(q, status, message),
         \/ status = 200 /\ message = None
         \/ /\ status \in Refusals \cup Failures \cup {502}
            /\ message \in {"own", "remote", "reason", None}
  PROVE  /\ pc' \in [Requests -> {"idle", "auth", "sender", "receiver", "call", "waiting",
                                 "answered"}]
         /\ ctx' \in [Requests -> Ids \cup {None}]
         /\ answer' \in [Requests -> Answers \cup {None}]
<1>1. OwnId(q) \in Ids
  BY DialogAssumption DEF OwnId, Ids
<1> DEFINE a == [status |-> status, id |-> OwnId(q), message |-> message]
<1>2. a \in Answers
  BY <1>1 DEF Answers
<1>3. answer' = [answer EXCEPT ![q] = a]
  BY DEF Answer, Finish
<1>4. answer' \in [Requests -> Answers \cup {None}]
  BY <1>2, <1>3 DEF TypeOK
<1>5. QED
  BY <1>4 DEF Answer, Finish, TypeOK

LEMMA RaiseTypes ==
  ASSUME TypeOK, NEW q \in Requests, Raise(q)
  PROVE  /\ pc' \in [Requests -> {"idle", "auth", "sender", "receiver", "call", "waiting",
                                 "answered"}]
         /\ ctx' \in [Requests -> Ids \cup {None}]
         /\ answer' \in [Requests -> Answers \cup {None}]
<1>1. Unexpected \in Answers
  BY DEF Answers
<1>2. QED
  BY <1>1 DEF Raise, Finish, TypeOK

(* A request without a call leaves the calls as they are.                  *)
LEMMA CallsStay ==
  ASSUME TypeOK, Called, NEW q \in Requests, pc[q] \notin {"waiting", "answered"},
         NEW label, pc' = [pc EXCEPT ![q] = label], UNCHANGED <<accounts, input, chat>>
  PROVE  Called'
<1>1. \A c \in calls : c.req \in Requests /\ c.req # q
  BY DEF TypeOK, Calls, Called
<1>2. \A c \in calls : pc'[c.req] = pc[c.req]
  BY <1>1 DEF TypeOK
<1>3. QED
  BY <1>2 DEF Called, Allowed, Known, OwnId, accounts, chat

(* What the chat service answers, and what it keeps.                       *)
LEMMA Handled ==
  ASSUME TypeOK, NEW e \in wire, ChatHandles(e)
  PROVE  /\ e.req \in Requests
         /\ wire' = wire \ {e} /\ UNCHANGED <<accounts, pc, input, ctx, answer, calls>>
         /\ stored' = stored \/ (stored' = stored \cup {e} /\ input[e.req].op = "send")
         /\ \/ reply' = reply
            \/ \E a \in Replies :
                 /\ pc[e.req] = "waiting" /\ reply' = [reply EXCEPT ![e.req] = a]
                 /\ a.status = 200 /\ input[e.req].op = "send" => e \in stored'
                 /\ a.status \in Refusals => stored' = stored
<1>1. e.req \in Requests
  BY DEF TypeOK, Calls
<1> DEFINE i == input[e.req]
<1> DEFINE stores == /\ i.token \notin expired /\ i.op = "send"
                     /\ {i.to, i.token.sub} \subseteq chatUsers
<1>2. PICK a \in Replies :
        /\ \/ pc[e.req] = "waiting" /\ reply' = [reply EXCEPT ![e.req] = a]
           \/ UNCHANGED reply
        /\ \/ stores /\ a.status \notin Refusals /\ stored' = stored \cup {e}
           \/ ~(i.op = "send" /\ a.status = 200) /\ UNCHANGED stored
  BY DEF ChatHandles
<1>3. wire' = wire \ {e} /\ UNCHANGED <<accounts, pc, input, ctx, answer, calls>>
  BY DEF ChatHandles
<1>4. stored' = stored \/ (stored' = stored \cup {e} /\ i.op = "send")
  BY <1>2
<1>5. a.status = 200 /\ i.op = "send" => e \in stored'
  BY <1>2
<1>6. QED
  BY <1>1, <1>2, <1>3, <1>4, <1>5

(* Type correctness of one step.                                           *)
LEMMA StepTypeOK == TypeOK /\ Checked /\ Called /\ Told /\ [Next]_vars => TypeOK'
<1> SUFFICES ASSUME TypeOK, Checked, Called, Told, [Next]_vars PROVE TypeOK'
  OBVIOUS
<1> USE DialogAssumption DEF TypeOK, Goto, accounts, chat
<1>1. ASSUME NEW u \in Users, Register(u) PROVE TypeOK'
  BY <1>1 DEF Register
<1>2. ASSUME NEW u \in Users, Login(u) PROVE TypeOK'
  <2>1. [sub : {u}, scope : Scopes] \subseteq Tokens
    BY DEF Tokens
  <2>2. QED
    BY <1>2, <2>1 DEF Login
<1>3. ASSUME NEW u \in Users, ChatLearns(u) PROVE TypeOK'
  BY <1>3 DEF ChatLearns
<1>4. ASSUME NEW t \in Tokens, Expires(t) PROVE TypeOK'
  BY <1>4 DEF Expires
<1>5. ASSUME NEW q \in Requests, Arrive(q) PROVE TypeOK'
  <2>1. PICK i \in Inputs : /\ input' = [input EXCEPT ![q] = i]
                           /\ ctx' = [ctx EXCEPT ![q] = IF i.given = None THEN q ELSE i.given]
    BY <1>5 DEF Arrive, SetId
  <2>2. (IF i.given = None THEN q ELSE i.given) \in Ids
    BY DEF Ids
  <2>3. input' \in [Requests -> Inputs \cup {None}] /\ ctx' \in [Requests -> Ids \cup {None}]
    BY <2>1, <2>2
  <2>4. QED
    BY <1>5, <2>3 DEF Arrive
<1>6. ASSUME NEW q \in Requests, Authenticate(q) PROVE TypeOK'
  <2>1. input[q] \in Inputs
    BY <1>6 DEF Authenticate, Checked
  <2>2. \/ Answer(q, 401, "own") \/ Answer(q, 400, "own")
        \/ Goto(q, "call") \/ Goto(q, "sender")
    BY <1>6 DEF Authenticate
  <2>3. /\ pc' \in [Requests -> {"idle", "auth", "sender", "receiver", "call", "waiting", "answered"}]
        /\ ctx' \in [Requests -> Ids \cup {None}]
        /\ answer' \in [Requests -> Answers \cup {None}]
    <3>1. CASE Answer(q, 401, "own") \/ Answer(q, 400, "own")
      BY <2>1, <3>1, AnswerTypes DEF Refusals
    <3>2. CASE Goto(q, "call") \/ Goto(q, "sender")
      BY <3>2
    <3>3. QED
      BY <2>2, <3>1, <3>2
  <2>4. QED
    BY <1>6, <2>3 DEF Authenticate
<1>7. ASSUME NEW q \in Requests, CheckSender(q) PROVE TypeOK'
  <2>1. input[q] \in Inputs
    BY <1>7 DEF CheckSender, Checked
  <2>2. Answer(q, 404, "own") \/ Raise(q) \/ Goto(q, "receiver")
    BY <1>7 DEF CheckSender, CheckUser
  <2>3. /\ pc' \in [Requests -> {"idle", "auth", "sender", "receiver", "call", "waiting", "answered"}]
        /\ ctx' \in [Requests -> Ids \cup {None}]
        /\ answer' \in [Requests -> Answers \cup {None}]
    <3>1. CASE Answer(q, 404, "own") \/ Raise(q)
      BY <2>1, <3>1, AnswerTypes, RaiseTypes DEF Refusals
    <3>2. CASE Goto(q, "receiver")
      BY <3>2
    <3>3. QED
      BY <2>2, <3>1, <3>2
  <2>4. QED
    BY <1>7, <2>3 DEF CheckSender, CheckUser
<1>8. ASSUME NEW q \in Requests, CheckReceiver(q) PROVE TypeOK'
  <2>1. input[q] \in Inputs
    BY <1>8 DEF CheckReceiver, Checked
  <2>2. Answer(q, 404, "own") \/ Raise(q) \/ Goto(q, "call")
    BY <1>8 DEF CheckReceiver, CheckUser
  <2>3. /\ pc' \in [Requests -> {"idle", "auth", "sender", "receiver", "call", "waiting", "answered"}]
        /\ ctx' \in [Requests -> Ids \cup {None}]
        /\ answer' \in [Requests -> Answers \cup {None}]
    <3>1. CASE Answer(q, 404, "own") \/ Raise(q)
      BY <2>1, <3>1, AnswerTypes, RaiseTypes DEF Refusals
    <3>2. CASE Goto(q, "call")
      BY <3>2
    <3>3. QED
      BY <2>2, <3>1, <3>2
  <2>4. QED
    BY <1>8, <2>3 DEF CheckReceiver, CheckUser
<1>9. ASSUME NEW q \in Requests, CallChat(q) PROVE TypeOK'
  <2>1. {d \in calls : d.req = q} = {}
    BY <1>9 DEF CallChat, Called
  <2>2. PICK c : /\ c = [req |-> q, nth |-> Cardinality({d \in calls : d.req = q}) + 1, id |-> ctx[q]]
                 /\ calls' = calls \cup {c} /\ wire' = wire \cup {c}
    BY <1>9 DEF CallChat, NewCall
  <2>3. c = [req |-> q, nth |-> 1, id |-> ctx[q]]
    BY <2>1, <2>2, FS_EmptySet
  <2>4. c \in Calls
    BY <2>3 DEF Calls
  <2>5. QED
    BY <1>9, <2>2, <2>4 DEF CallChat
<1>10. ASSUME NEW q \in Requests, Replied(q) PROVE TypeOK'
  <2>1. input[q] \in Inputs
    BY <1>10 DEF Replied, Checked
  <2>2. reply[q] \in Replies
    BY <1>10 DEF Replied
  <2>3. PICK status, message : /\ Answer(q, status, message)
                              /\ status = reply[q].status
                              /\ message = IF status = 200 THEN None
                                           ELSE ErrorSaid(ErrorMessage(reply[q].body))
    BY <1>10 DEF Replied
  <2>4. /\ status \in {200} \cup Refusals \cup Failures
        /\ status = 200 => message = None
        /\ message \in {"remote", "reason", None}
    BY <2>2, <2>3 DEF Replies, Bodies, ErrorMessage, ErrorSaid
  <2>5. /\ pc' \in [Requests -> {"idle", "auth", "sender", "receiver", "call", "waiting", "answered"}]
        /\ ctx' \in [Requests -> Ids \cup {None}]
        /\ answer' \in [Requests -> Answers \cup {None}]
    BY <2>1, <2>3, <2>4, AnswerTypes
  <2>6. reply' = [reply EXCEPT ![q] = None] /\ UNCHANGED <<accounts, input, chat>>
    BY <1>10 DEF Replied
  <2>7. QED
    BY <2>5, <2>6
<1>11. ASSUME NEW q \in Requests, NoReply(q) PROVE TypeOK'
  <2>1. input[q] \in Inputs
    BY <1>11 DEF NoReply, Checked
  <2>2. PICK message \in {"own", None} : Answer(q, 502, message)
    <3>1. \A text \in {"own", ""} : ErrorSaid(text) \in {"own", None}
      BY DEF ErrorSaid
    <3>2. QED
      BY <1>11, <3>1 DEF NoReply
  <2>3. /\ 502 \in Refusals \cup Failures \cup {502}
        /\ message \in {"own", "remote", "reason", None}
    OBVIOUS
  <2>4. /\ pc' \in [Requests -> {"idle", "auth", "sender", "receiver", "call", "waiting", "answered"}]
        /\ ctx' \in [Requests -> Ids \cup {None}]
        /\ answer' \in [Requests -> Answers \cup {None}]
    BY <2>1, <2>2, <2>3, AnswerTypes
  <2>5. UNCHANGED <<accounts, input, reply, chat>>
    BY <1>11 DEF NoReply
  <2>6. QED
    BY <2>4, <2>5
<1>12. ASSUME NEW e \in wire, ChatHandles(e) PROVE TypeOK'
  <2>1. reply' \in [Requests -> Replies \cup {None}]
    BY <1>12, Handled
  <2>2. wire' = wire \ {e} /\ stored' \in {stored, stored \cup {e}}
    BY <1>12, Handled
  <2>3. UNCHANGED <<accounts, pc, input, ctx, answer, calls>>
    BY <1>12, Handled
  <2>4. QED
    BY <2>1, <2>2, <2>3
<1>13. ASSUME NEW e \in wire, CallLost(e) PROVE TypeOK'
  BY <1>13 DEF CallLost
<1>14. CASE UNCHANGED vars
  BY <1>14 DEF vars, accounts, chat
<1>15. QED
  BY <1>1, <1>2, <1>3, <1>4, <1>5, <1>6, <1>7, <1>8, <1>9, <1>10, <1>11, <1>12, <1>13, <1>14 DEF Next, Serve

LEMMA StepChecked == TypeOK /\ Checked /\ [Next]_vars => Checked'
<1> SUFFICES ASSUME TypeOK, Checked, [Next]_vars PROVE Checked'
  OBVIOUS
<1> USE DialogAssumption DEF TypeOK, Checked, Allowed, Known, OwnId, Goto, accounts, chat
<1>1. ASSUME NEW u \in Users, Register(u) PROVE Checked'
  BY <1>1 DEF Register
<1>2. ASSUME NEW u \in Users, Login(u) PROVE Checked'
  BY <1>2 DEF Login
<1>3. ASSUME NEW u \in Users, ChatLearns(u) PROVE Checked'
  BY <1>3 DEF ChatLearns
<1>4. ASSUME NEW t \in Tokens, Expires(t) PROVE Checked'
  BY <1>4 DEF Expires
<1>5. ASSUME NEW q \in Requests, Arrive(q) PROVE Checked'
  BY <1>5 DEF Arrive, SetId
<1>6. ASSUME NEW q \in Requests, Authenticate(q) PROVE Checked'
  BY <1>6 DEF Authenticate, Answer, Finish, Accepts, Decodes
<1>7. ASSUME NEW q \in Requests, CheckSender(q) PROVE Checked'
  BY <1>7 DEF CheckSender, CheckUser, Answer, Raise, Finish
<1>8. ASSUME NEW q \in Requests, CheckReceiver(q) PROVE Checked'
  BY <1>8 DEF CheckReceiver, CheckUser, Answer, Raise, Finish
<1>9. ASSUME NEW q \in Requests, CallChat(q) PROVE Checked'
  BY <1>9 DEF CallChat, NewCall
<1>10. ASSUME NEW q \in Requests, Replied(q) PROVE Checked'
  BY <1>10 DEF Replied, Answer, Finish
<1>11. ASSUME NEW q \in Requests, NoReply(q) PROVE Checked'
  <2>1. PICK message : Answer(q, 502, message)
    BY <1>11 DEF NoReply
  <2>2. pc[q] = "waiting" /\ UNCHANGED <<accounts, input, reply, chat>>
    BY <1>11 DEF NoReply
  <2>3. QED
    BY <2>1, <2>2 DEF Answer, Finish
<1>12. ASSUME NEW e \in wire, ChatHandles(e) PROVE Checked'
  BY <1>12 DEF ChatHandles
<1>13. ASSUME NEW e \in wire, CallLost(e) PROVE Checked'
  BY <1>13 DEF CallLost
<1>14. CASE UNCHANGED vars
  BY <1>14 DEF vars, accounts, chat
<1>15. QED
  BY <1>1, <1>2, <1>3, <1>4, <1>5, <1>6, <1>7, <1>8, <1>9, <1>10, <1>11, <1>12, <1>13, <1>14 DEF Next, Serve

LEMMA StepCalled == TypeOK /\ Checked /\ Called /\ [Next]_vars => Called'
<1> SUFFICES ASSUME TypeOK, Checked, Called, [Next]_vars PROVE Called'
  OBVIOUS
<1> USE DialogAssumption DEF TypeOK, Checked, Called, Allowed, Known, OwnId, Goto, accounts, chat
<1>1. ASSUME NEW u \in Users, Register(u) PROVE Called'
  BY <1>1 DEF Register
<1>2. ASSUME NEW u \in Users, Login(u) PROVE Called'
  BY <1>2 DEF Login
<1>3. ASSUME NEW u \in Users, ChatLearns(u) PROVE Called'
  BY <1>3 DEF ChatLearns
<1>4. ASSUME NEW t \in Tokens, Expires(t) PROVE Called'
  BY <1>4 DEF Expires
<1>5. ASSUME NEW q \in Requests, Arrive(q) PROVE Called'
  BY <1>5 DEF Arrive, SetId
<1>6. ASSUME NEW q \in Requests, Authenticate(q) PROVE Called'
  <2>1. PICK label : pc' = [pc EXCEPT ![q] = label]
    BY <1>6 DEF Authenticate, Answer, Finish
  <2>2. pc[q] \notin {"waiting", "answered"} /\ UNCHANGED <<accounts, input, chat>>
    BY <1>6 DEF Authenticate
  <2>3. QED
    BY <2>1, <2>2, CallsStay
<1>7. ASSUME NEW q \in Requests, CheckSender(q) PROVE Called'
  <2>1. PICK label : pc' = [pc EXCEPT ![q] = label]
    BY <1>7 DEF CheckSender, CheckUser, Answer, Raise, Finish
  <2>2. pc[q] \notin {"waiting", "answered"} /\ UNCHANGED <<accounts, input, chat>>
    BY <1>7 DEF CheckSender, CheckUser
  <2>3. QED
    BY <2>1, <2>2, CallsStay
<1>8. ASSUME NEW q \in Requests, CheckReceiver(q) PROVE Called'
  <2>1. PICK label : pc' = [pc EXCEPT ![q] = label]
    BY <1>8 DEF CheckReceiver, CheckUser, Answer, Raise, Finish
  <2>2. pc[q] \notin {"waiting", "answered"} /\ UNCHANGED <<accounts, input, chat>>
    BY <1>8 DEF CheckReceiver, CheckUser
  <2>3. QED
    BY <2>1, <2>2, CallsStay
<1>9. ASSUME NEW q \in Requests, CallChat(q) PROVE Called'
  BY <1>9 DEF CallChat, NewCall
<1>10. ASSUME NEW q \in Requests, Replied(q) PROVE Called'
  BY <1>10 DEF Replied, Answer, Finish
<1>11. ASSUME NEW q \in Requests, NoReply(q) PROVE Called'
  <2>1. PICK message : Answer(q, 502, message)
    BY <1>11 DEF NoReply
  <2>2. pc[q] = "waiting" /\ UNCHANGED <<accounts, input, reply, chat>>
    BY <1>11 DEF NoReply
  <2>3. QED
    BY <2>1, <2>2 DEF Answer, Finish
<1>12. ASSUME NEW e \in wire, ChatHandles(e) PROVE Called'
  BY <1>12 DEF ChatHandles
<1>13. ASSUME NEW e \in wire, CallLost(e) PROVE Called'
  BY <1>13 DEF CallLost
<1>14. CASE UNCHANGED vars
  BY <1>14 DEF vars, accounts, chat
<1>15. QED
  BY <1>1, <1>2, <1>3, <1>4, <1>5, <1>6, <1>7, <1>8, <1>9, <1>10, <1>11, <1>12, <1>13, <1>14 DEF Next, Serve

LEMMA StepTold == TypeOK /\ Checked /\ Called /\ Told /\ [Next]_vars => Told'
<1> SUFFICES ASSUME TypeOK, Checked, Called, Told, [Next]_vars PROVE Told'
  OBVIOUS
<1> USE DialogAssumption DEF TypeOK, Called, Told, Kept, Never, OwnId, Goto, accounts, chat
<1>1. ASSUME NEW u \in Users, Register(u) PROVE Told'
  BY <1>1 DEF Register
<1>2. ASSUME NEW u \in Users, Login(u) PROVE Told'
  BY <1>2 DEF Login
<1>3. ASSUME NEW u \in Users, ChatLearns(u) PROVE Told'
  BY <1>3 DEF ChatLearns
<1>4. ASSUME NEW t \in Tokens, Expires(t) PROVE Told'
  BY <1>4 DEF Expires
<1>5. ASSUME NEW q \in Requests, Arrive(q) PROVE Told'
  BY <1>5 DEF Arrive, SetId
<1>6. ASSUME NEW q \in Requests, Authenticate(q) PROVE Told'
  BY <1>6 DEF Authenticate, Answer, Finish, Accepts, Decodes
<1>7. ASSUME NEW q \in Requests, CheckSender(q) PROVE Told'
  <2>1. (\A c \in calls : c.req # q) /\ pc[q] # "waiting" /\ pc[q] # "answered"
    BY <1>7 DEF CheckSender
  <2>2. UNCHANGED <<accounts, input, reply, chat>>
    BY <1>7 DEF CheckSender, CheckUser
  <2>3. CASE Goto(q, "receiver")
    BY <2>1, <2>2, <2>3
  <2>4. CASE \E a : Finish(q, a) /\ (a.id = OwnId(q) \/ a = Unexpected) /\ a.status # 200
    BY <2>1, <2>2, <2>4 DEF Finish
  <2>5. Answer(q, 404, "own") => \E a : Finish(q, a) /\ a.id = OwnId(q) /\ a.status # 200
    BY DEF Answer
  <2>6. Raise(q) => Finish(q, Unexpected) /\ Unexpected.status # 200
    BY DEF Raise, Unexpected
  <2>7. QED
    BY <1>7, <2>3, <2>4, <2>5, <2>6 DEF CheckSender, CheckUser
<1>8. ASSUME NEW q \in Requests, CheckReceiver(q) PROVE Told'
  <2>1. (\A c \in calls : c.req # q) /\ pc[q] # "waiting" /\ pc[q] # "answered"
    BY <1>8 DEF CheckReceiver
  <2>2. UNCHANGED <<accounts, input, reply, chat>>
    BY <1>8 DEF CheckReceiver, CheckUser
  <2>3. CASE Goto(q, "call")
    BY <2>1, <2>2, <2>3
  <2>4. CASE \E a : Finish(q, a) /\ (a.id = OwnId(q) \/ a = Unexpected) /\ a.status # 200
    BY <2>1, <2>2, <2>4 DEF Finish
  <2>5. Answer(q, 404, "own") => \E a : Finish(q, a) /\ a.id = OwnId(q) /\ a.status # 200
    BY DEF Answer
  <2>6. Raise(q) => Finish(q, Unexpected) /\ Unexpected.status # 200
    BY DEF Raise, Unexpected
  <2>7. QED
    BY <1>8, <2>3, <2>4, <2>5, <2>6 DEF CheckReceiver, CheckUser
<1>9. ASSUME NEW q \in Requests, CallChat(q) PROVE Told'
  BY <1>9 DEF CallChat, NewCall
<1>10. ASSUME NEW q \in Requests, Replied(q) PROVE Told'
  <2>1. SUFFICES ASSUME NEW r \in Requests
                 PROVE  /\ reply'[r] # None =>
                             /\ pc'[r] = "waiting" /\ \A c \in wire' : c.req # r
                             /\ reply'[r].status = 200 /\ input'[r].op = "send" => Kept(r)'
                             /\ reply'[r].status \in Refusals => Never(r)'
                        /\ answer'[r] # None =>
                             /\ pc'[r] = "answered"
                             /\ \/ answer'[r].id = OwnId(r)'
                                \/ answer'[r] = Unexpected /\ \A c \in calls' : c.req # r
                             /\ answer'[r].status = 200 /\ input'[r].op = "send" => Kept(r)'
                             /\ answer'[r].status \in Refusals => Never(r)'
    OBVIOUS
  <2>2. UNCHANGED <<accounts, input, chat>> /\ reply' = [reply EXCEPT ![q] = None]
    BY <1>10 DEF Replied
  <2>3. (Kept(r)' <=> Kept(r)) /\ (Never(r)' <=> Never(r)) /\ OwnId(r)' = OwnId(r)
    BY <2>2
  <2>4. CASE r # q
    BY <1>10, <2>2, <2>3, <2>4 DEF Replied, Answer, Finish
  <2>5. CASE r = q
    <3>1. reply[q] # None /\ reply[q] \in Replies
      BY <1>10 DEF Replied
    <3>2. PICK a : /\ answer'[q] = a /\ pc'[q] = "answered"
                   /\ a.status = reply[q].status
                   /\ a.id = OwnId(q)
      BY <1>10 DEF Replied, Answer, Finish
    <3>3. QED
      BY <2>2, <2>3, <2>5, <3>1, <3>2
  <2>6. QED
    BY <2>4, <2>5
<1>11. ASSUME NEW q \in Requests, NoReply(q) PROVE Told'
  <2>1. PICK message : Answer(q, 502, message)
    BY <1>11 DEF NoReply
  <2>2. pc[q] = "waiting" /\ reply[q] = None /\ UNCHANGED <<accounts, input, reply, chat>>
    BY <1>11 DEF NoReply
  <2>3. QED
    BY <2>1, <2>2 DEF Answer, Finish, Refusals
<1>12. ASSUME NEW e \in wire, ChatHandles(e) PROVE Told'
  <2>1. /\ e.req \in Requests /\ wire' = wire \ {e}
        /\ stored' = stored \/ stored' = stored \cup {e}
        /\ UNCHANGED <<pc, input, answer, calls>>
    BY <1>12, Handled
  <2>2. \A c \in wire : c.req = e.req => c = e
    OBVIOUS
  <2>3. SUFFICES ASSUME NEW r \in Requests
                 PROVE  /\ reply'[r] # None =>
                             /\ pc'[r] = "waiting" /\ \A c \in wire' : c.req # r
                             /\ reply'[r].status = 200 /\ input'[r].op = "send" => Kept(r)'
                             /\ reply'[r].status \in Refusals => Never(r)'
                        /\ answer'[r] # None =>
                             /\ pc'[r] = "answered"
                             /\ \/ answer'[r].id = OwnId(r)'
                                \/ answer'[r] = Unexpected /\ \A c \in calls' : c.req # r
                             /\ answer'[r].status = 200 /\ input'[r].op = "send" => Kept(r)'
                             /\ answer'[r].status \in Refusals => Never(r)'
    OBVIOUS
  <2>4. (Kept(r) => Kept(r)') /\ (Never(r) => Never(r)') /\ OwnId(r)' = OwnId(r)
    BY <2>1
  <2>5. CASE reply'[r] = reply[r]
    BY <2>1, <2>4, <2>5
  <2>6. CASE reply'[r] # reply[r]
    <3>1. PICK a \in Replies :
            /\ pc[e.req] = "waiting" /\ reply' = [reply EXCEPT ![e.req] = a]
            /\ a.status = 200 /\ input[e.req].op = "send" => e \in stored'
            /\ a.status \in Refusals => stored' = stored
      BY <1>12, <2>6, Handled
    <3>2. r = e.req /\ reply'[r] = a
      BY <2>1, <2>6, <3>1
    <3>3. \A c \in wire' : c.req # r
      BY <2>1, <2>2, <3>2
    <3>4. a.status \in Refusals => Never(r)'
      <4>1. \A c \in stored : c.req = r => c = e
        BY <3>2
      <4>2. e \notin stored
        OBVIOUS
      <4>3. QED
        BY <3>1, <3>3, <4>1, <4>2
    <3>5. QED
      BY <2>1, <2>4, <3>1, <3>2, <3>3, <3>4
  <2>7. QED
    BY <2>5, <2>6
<1>13. ASSUME NEW e \in wire, CallLost(e) PROVE Told'
  BY <1>13 DEF CallLost
<1>14. CASE UNCHANGED vars
  BY <1>14 DEF vars, accounts, chat
<1>15. QED
  BY <1>1, <1>2, <1>3, <1>4, <1>5, <1>6, <1>7, <1>8, <1>9, <1>10, <1>11, <1>12, <1>13, <1>14 DEF Next, Serve

LEMMA Induction == Spec => []IInv
<1>1. IInv /\ [Next]_vars => IInv'
  BY StepTypeOK, StepChecked, StepCalled, StepTold DEF IInv
<1>2. QED
  BY InitIInv, <1>1, PTL DEF Spec

-----------------------------------------------------------------------------
(* Every reachable state is of the types it is meant to be of: an answer   *)
(* that is an error has a message that says something, or none, and never  *)
(* an empty one, whatever the chat service or httpx has said.              *)
THEOREM TypeCorrect == Spec => []TypeOK
<1>1. IInv => TypeOK
  BY DEF IInv
<1>2. QED
  BY Induction, <1>1, PTL

(* Of any number of concurrent requests, each has its own id on its call   *)
(* and on its answer; an answer without one is that of a failing database, *)
(* before any call.                                                        *)
THEOREM IdsStayApart == Spec => []OwnRequestId
<1>1. IInv => OwnRequestId
  BY DEF IInv, Called, Told, OwnRequestId
<1>2. QED
  BY Induction, <1>1, PTL

(* What the chat service stores has passed the checks of this service.     *)
THEOREM OnlyAllowedStored == Spec => []StoredIsAllowed
<1>1. IInv => StoredIsAllowed
  BY DEF IInv, TypeOK, Called, Allowed, Known, StoredIsAllowed
<1>2. QED
  BY Induction, <1>1, PTL

(* The client is told what became of its message, and it is stored at most *)
(* once, by a chat service that refuses only what it has not stored.       *)
THEOREM ToldTheTruth == Spec => []StoredAsAnswered
<1>1. IInv => StoredAsAnswered
  <2> SUFFICES ASSUME IInv, NEW r \in Requests
               PROVE  LET copies == {c \in stored : c.req = r} IN
                      /\ Cardinality(copies) <= 1
                      /\ answer[r] # None /\ answer[r].status = 200 /\ input[r].op = "send" =>
                           copies # {}
                      /\ answer[r] # None /\ answer[r].status \in Refusals => copies = {}
    BY DEF StoredAsAnswered
  <2> DEFINE copies == {c \in stored : c.req = r}
  <2>1. Cardinality(copies) <= 1
    <3>1. CASE copies = {}
      BY <3>1, FS_EmptySet
    <3>2. CASE copies # {}
      <4>1. PICK c \in copies : TRUE
        BY <3>2
      <4>2. copies = {c}
        BY <4>1 DEF IInv, TypeOK, Called
      <4>3. Cardinality({c}) = 1
        BY FS_Singleton
      <4>4. Cardinality(copies) = 1
        BY <4>2, <4>3
      <4>5. QED
        BY <4>4
    <3>3. QED
      BY <3>1, <3>2
  <2>2. QED
    BY <2>1 DEF IInv, Told, Kept, Never
<1>2. QED
  BY Induction, <1>1, PTL
=============================================================================
