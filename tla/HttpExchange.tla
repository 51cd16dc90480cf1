---------------------------- MODULE HttpExchange ----------------------------
(***************************************************************************)
(* What the HTTP server promises each connection: it is accepted once, and   *)
(* then either answered, once and with one of the answers there are, or       *)
(* dropped.  The server may stop, and then nothing is accepted or answered.   *)
(***************************************************************************)
CONSTANTS Client, Answers, NoAnswer

VARIABLES stage, answer, running

vars == <<stage, answer, running>>

Init ==
    /\ stage = [c \in Client |-> "idle"]
    /\ answer = [c \in Client |-> NoAnswer]
    /\ running = TRUE

Move(c, from, to) == stage[c] = from /\ stage' = [stage EXCEPT ![c] = to]

Connect(c) == Move(c, "idle", "backlog") /\ UNCHANGED <<answer, running>>

Accept(c) == running /\ Move(c, "backlog", "open") /\ UNCHANGED <<answer, running>>

Answer(c) ==
    /\ running
    /\ Move(c, "open", "answered")
    /\ \E a \in Answers : answer' = [answer EXCEPT ![c] = a]
    /\ UNCHANGED running

Drop(c) ==
    /\ Move(c, "backlog", "dropped") \/ Move(c, "open", "dropped")
    /\ UNCHANGED <<answer, running>>

Stop == running /\ running' = FALSE /\ UNCHANGED <<stage, answer>>

Next == Stop \/ \E c \in Client : Connect(c) \/ Accept(c) \/ Answer(c) \/ Drop(c)

Spec == Init /\ [][Next]_vars
=============================================================================
