---------------------------- MODULE SessionLifecycle ----------------------------
(***************************************************************************)
(* What refresh tokens promise: a session begins with a token of its own   *)
(* and goes on from token to token.  At any time one token heads it; only  *)
(* the head can be exchanged, for a token nobody had before, and is then   *)
(* spent.                                                                  *)
(***************************************************************************)
CONSTANTS Tokens, NoToken

VARIABLES
    head,       \* the token that heads the session begun by a token
    spent       \* the tokens that have been exchanged

Headless == [s \in Tokens |-> NoToken]

Used == spent \cup {head[s] : s \in Tokens}

Init == head = Headless /\ spent = {}

SignIn(s) ==
    /\ head[s] = NoToken /\ s \notin Used
    /\ head' = [head EXCEPT ![s] = s]
    /\ UNCHANGED spent

Exchange(s) ==
    /\ head[s] # NoToken
    /\ spent' = spent \cup {head[s]}
    /\ \E t \in Tokens \ Used : head' = [head EXCEPT ![s] = t]

Next == \E s \in Tokens : SignIn(s) \/ Exchange(s)

Spec == Init /\ [][Next]_<<head, spent>>
=============================================================================
