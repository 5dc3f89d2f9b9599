--------------------------- MODULE ContainerLease ---------------------------
(***************************************************************************)
(* What the container pool promises the code that runs submissions,        *)
(* without channels, background goroutines or Docker: a container is        *)
(* leased to one user at a time, only while it is offered, and one whose    *)
(* lease ends in a discard is not leased again before it is provided anew.  *)
(***************************************************************************)
CONSTANTS User, Container, None

VARIABLES
    offered,   \* containers the pool stands by
    lease      \* the container each user has, or None

vars == <<offered, lease>>

Leased == {lease[u] : u \in User}

Init == offered = {} /\ lease = [u \in User |-> None]

\* A new container is warmed up or replaces another.
Provide(c) ==
    /\ c \notin offered \cup Leased
    /\ offered' = offered \cup {c}
    /\ UNCHANGED lease

\* The pool takes back a container nobody uses.
Withdraw(c) ==
    /\ c \in offered \ Leased
    /\ offered' = offered \ {c}
    /\ UNCHANGED lease

Grant(u, c) ==
    /\ lease[u] = None
    /\ c \in offered \ Leased
    /\ lease' = [lease EXCEPT ![u] = c]
    /\ UNCHANGED offered

Return(u) ==
    /\ lease[u] # None
    /\ lease' = [lease EXCEPT ![u] = None]
    /\ UNCHANGED offered

\* The user found its container unfit, or there is no room for it.
Retire(u) ==
    /\ lease[u] # None
    /\ lease' = [lease EXCEPT ![u] = None]
    /\ offered' = offered \ {lease[u]}

Next ==
    \/ \E c \in Container : Provide(c) \/ Withdraw(c)
    \/ \E u \in User : Return(u) \/ Retire(u) \/ \E c \in Container : Grant(u, c)

Spec == Init /\ [][Next]_vars
=============================================================================
