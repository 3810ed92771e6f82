------------------------------- MODULE OneShot -------------------------------
(***************************************************************************)
(* What is promised for commands given under request ids: an id stands for *)
(* one command from its first use on, that command is carried out at most  *)
(* once, and only a command that was carried out is answered with success. *)
(***************************************************************************)
EXTENDS Naturals

CONSTANTS Calls,   \* commands, each with its request id
          NoCall

VARIABLES bound,      \* bound[r]: the command that request id r stands for
          performed,  \* performed[c]: how often c was carried out
          told        \* commands answered with success

Requests == {c.request : c \in Calls}

ShotInit ==
    /\ bound = [r \in Requests |-> NoCall]
    /\ performed = [c \in Calls |-> 0]
    /\ told = {}

Bind(c) ==
    /\ bound[c.request] = NoCall
    /\ bound' = [bound EXCEPT ![c.request] = c]
    /\ UNCHANGED <<performed, told>>

Perform(c) ==
    /\ bound[c.request] = c /\ performed[c] = 0
    /\ performed' = [performed EXCEPT ![c] = 1]
    /\ UNCHANGED <<bound, told>>

Tell(c) ==
    /\ performed[c] = 1
    /\ told' = told \cup {c}
    /\ UNCHANGED <<bound, performed>>

ShotNext == \E c \in Calls : Bind(c) \/ Perform(c) \/ Tell(c)

ShotSpec == ShotInit /\ [][ShotNext]_<<bound, performed, told>>
=============================================================================
