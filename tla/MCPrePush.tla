------------------------------- MODULE MCPrePush -------------------------------
(* Two developers and three commits: two on top of the root that are not       *)
(* ancestors of each other.  A push is of a topic branch, of master, or both.  *)
EXTENDS PrePush, TLC

MCCommit == {"root", "left", "right"}
MCAncestor == {<<c, c>> : c \in MCCommit} \cup {<<"root", "left">>, <<"root", "right">>}

Topic(c) == [ref |-> "refs/heads/topic", local |-> c]
Master(c) == [ref |-> "refs/heads/master", local |-> c]
MCPushes ==
  {<<Topic(c)>> : c \in {"left", "right"}} \cup {<<Master(c)>> : c \in {"left", "zero"}}
    \cup {<<Topic("zero"), Master("right")>>}

Symmetric == Permutations(Pusher)
===============================================================================
