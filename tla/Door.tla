--------------------------------- MODULE Door ---------------------------------
(* What a caller of `serve_until_error` is promised, whatever the accept loop  *)
(* inside does: connections are taken from the front of the queue, one task    *)
(* each; running out of descriptors makes the door struggle but never close;   *)
(* and only a listener that is itself dead lets the door go, for good.         *)
EXTENDS Sequences

CONSTANT Clients

VARIABLES
    listener,   \* "open" or "dead"
    backlog,    \* connections the system queues for the door, oldest first
    open,       \* connections that have a task of their own
    door        \* "serving", "struggling" (in an exhaustion episode) or "gone"

vars == <<listener, backlog, open, door>>

Init ==
    /\ listener = "open"
    /\ backlog = <<>>
    /\ open = {}
    /\ door = "serving"

(* The world outside the door. *)
Arrive(c) ==
    /\ listener = "open"
    /\ backlog' = Append(backlog, c)
    /\ UNCHANGED <<listener, open, door>>

Finish(c) ==
    /\ c \in open
    /\ open' = open \ {c}
    /\ UNCHANGED <<listener, backlog, door>>

Die ==
    /\ listener = "open"
    /\ listener' = "dead"
    /\ backlog' = <<>>
    /\ UNCHANGED <<open, door>>

(* What the door may do. A successful take always ends the struggle. *)
Take ==
    /\ listener = "open"
    /\ door # "gone"
    /\ backlog # <<>>
    /\ open' = open \cup {Head(backlog)}
    /\ backlog' = Tail(backlog)
    /\ door' = "serving"
    /\ UNCHANGED listener

(* The oldest connection failed before it could be taken. *)
Lose ==
    /\ door # "gone"
    /\ backlog # <<>>
    /\ backlog' = Tail(backlog)
    /\ door' \in {door, "struggling"}
    /\ UNCHANGED <<listener, open>>

Struggle ==
    /\ door # "gone"
    /\ door' = "struggling"
    /\ UNCHANGED <<listener, backlog, open>>

Go ==
    /\ listener = "dead"
    /\ door' = "gone"
    /\ UNCHANGED <<listener, backlog, open>>

Next ==
    \/ \E c \in Clients : Arrive(c) \/ Finish(c)
    \/ Die \/ Take \/ Lose \/ Struggle \/ Go

Spec == Init /\ [][Next]_vars
===============================================================================
