------------------------------ MODULE CoreTasks ------------------------------
(***************************************************************************)
(* What the scheduler of smp.c promises to its callers, with no list, lock *)
(* or interrupt in sight: a task submitted to a core runs on that core and *)
(* on no other, a core runs at most one task at a time, a task gives the   *)
(* core up only of its own accord, and no task is ever forgotten.  Which   *)
(* ready task a core takes next is left open.                              *)
(***************************************************************************)
EXTENDS Naturals

CONSTANTS Tasks, Cores, NoCore, Schedulers

VARIABLE where  \* task -> <<"none", NoCore>>, <<"ready", c>> or <<"running", c>>

States == {<<"none", NoCore>>} \cup ({"ready", "running"} \X Cores)

TypeOK == where \in [Tasks -> States]

Init == where = [t \in Tasks |-> <<"none", NoCore>>]

Submit(t, c) ==
    /\ where[t] = <<"none", NoCore>>
    /\ where' = [where EXCEPT ![t] = <<"ready", c>>]

Dispatch(t, c) ==
    /\ where[t] = <<"ready", c>>
    /\ \A u \in Tasks : where[u] # <<"running", c>>
    /\ where' = [where EXCEPT ![t] = <<"running", c>>]

Yield(t, c) ==
    /\ where[t] = <<"running", c>>
    /\ where' = [where EXCEPT ![t] = <<"ready", c>>]

Next == \E t \in Tasks :
    \/ \E c \in Cores : Submit(t, c)
    \/ \E c \in Schedulers : Dispatch(t, c) \/ Yield(t, c)

Spec == Init /\ [][Next]_where

(* A core that has ready tasks and runs none takes one: the cores whose    *)
(* loop runs, which the bootstrap processor's does not.                    *)
Fairness == \A c \in Schedulers : WF_where(\E t \in Tasks : Dispatch(t, c))
=============================================================================
