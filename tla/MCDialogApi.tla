----------------------------- MODULE MCDialogApi -----------------------------
EXTENDS DialogApi

CONSTANTS u1, u2, x

Token(u, s) == [sub |-> u, scope |-> s]
Request(op, to, token, given) == [op |-> op, to |-> to, token |-> token, given |-> given]

(* Two clients, one of whose requests bring an id; to the wrong user, with *)
(* the wrong token, and with none.                                         *)
MCInputs ==
  { Request("send", u2, Token(u1, "access"), None),
    Request("send", u1, Token(u2, "access"), x),
    Request("send", u1, Token(u1, "access"), None),
    Request("send", u2, Token(u1, "refresh"), None),
    Request("send", u2, None, None),
    Request("list", u2, Token(u1, "access"), x) }
=============================================================================
