------------------------------ MODULE Mailbox ------------------------------
(***************************************************************************)
(* What the downlink promises to whoever queued a command at the server:   *)
(* the server goes on offering it until the leaf it is for has had it in   *)
(* its hands, its answer has come in, or it has expired.                   *)
(***************************************************************************)
CONSTANT Cmd

VARIABLES
    srv,    \* per command: where it stands at the server
    held    \* the commands that reached the leaf they are for

mailVars == <<srv, held>>

MailInit == srv = [c \in Cmd |-> "unposted"] /\ held = {}

Turns(S, from, to) ==
    /\ \A c \in S : srv[c] \in from
    /\ srv' = [c \in Cmd |-> IF c \in S THEN to ELSE srv[c]]
    /\ UNCHANGED held

Posted(c) == Turns({c}, {"unposted"}, "open")

(* Packets reach the leaf.                                                 *)
Handed == \E S \in SUBSET Cmd : held' = held \cup S /\ UNCHANGED srv

(* Only what was held is taken off the offer.                              *)
Receipted  == \E S \in SUBSET held : Turns(S, {"open"}, "received")
Answered   == \E c \in held : Turns({c}, {"open", "received"}, "completed")
TimedOut(c) == Turns({c}, {"open"}, "expired")

MailNext ==
    \/ \E c \in Cmd : Posted(c) \/ TimedOut(c)
    \/ Handed \/ Receipted \/ Answered

MailSpec == MailInit /\ [][MailNext]_mailVars
=============================================================================
