----------------------------- MODULE MCFeedCache -----------------------------
(* Small instances of FeedCache for TLC.                                   *)
EXTENDS FeedCache, TLC

Symmetric ==
  Permutations(Users) \cup Permutations(Authors) \cup Permutations(PostIds) \cup Permutations(Readers)

(* raced only grows and FreshUnlessRaced says nothing once it is not       *)
(* empty: a run that checks it alone need not go on from there.            *)
Unraced == raced = {}
=============================================================================
