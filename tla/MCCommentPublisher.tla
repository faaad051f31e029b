-------------------------- MODULE MCCommentPublisher --------------------------
(* Instances of CommentPublisher for TLC.                                  *)
EXTENDS CommentPublisher

CONSTANTS r1, r2, r3, bot, user, v1, v2

(* The third run repeats the verdict of the first.                         *)
TwoVerdicts == [r \in {r1, r2, r3} |-> IF r = r2 THEN v2 ELSE v1]

Note(k, u, t) == [id |-> k, author |-> u, text |-> t]

Setting(trusted, before, serialized, deletions, late) ==
  [trusted |-> trusted, token |-> [r \in {r1, r2, r3} |-> bot], before |-> before,
   serialized |-> serialized, deletions |-> deletions, late |-> late]

There == <<Note(1, user, v1), Note(2, bot, v2)>>

(* Three runs, one at a time; two runs that overlap once the comment is    *)
(* there; two runs, late requests, deletions, and the token of another     *)
(* account in the first.                                                   *)
Usual ==
  {Setting({r1, r2, r3}, <<Note(1, user, Remark)>>, TRUE, FALSE, FALSE),
   Setting({r1, r2}, There, FALSE, FALSE, TRUE),
   [Setting({r1, r2}, There, FALSE, TRUE, TRUE) EXCEPT !.token[r1] = user]}
=============================================================================
