------------------------------ MODULE CommandLog ------------------------------
(***************************************************************************)
(* What a table promises to those who send it commands, and nothing else   *)
(* of it: a command is applied to the state its sender asked it for, once, *)
(* or never; the states are numbered; what was applied is not forgotten;   *)
(* who has left does not leave again; and a closed table stays closed.     *)
(* MultiplayerTable implements it.                                         *)
(***************************************************************************)
EXTENDS Integers

CONSTANT People   \* who may send commands

VARIABLES
  version,   \* the state the table is at
  open,      \* whether it accepts commands
  members,   \* who has not left
  asked,     \* the commands on their way: who, under which id, for which state
  log        \* the commands applied

state == <<version, open, members, asked, log>>

LogInit == /\ version = 1 /\ open = TRUE /\ members = People
           /\ asked = {} /\ log = {}

\* Of the table as its sender sees it.
Ask == /\ \E e \in asked' : e.who \in People /\ e.on = version /\ asked' = asked \cup {e}
       /\ UNCHANGED <<version, open, members, log>>

\* A command that is refused may be forgotten.
Forget == asked' \subseteq asked /\ UNCHANGED <<version, open, members, log>>

\* Applied to the state it was asked for; it may be the last.
Apply(e) ==
  /\ open /\ e.on = version
  /\ \A f \in log : f.who = e.who => f.id # e.id
  /\ log' = log \cup {e}
  /\ version' = version + 1
  /\ asked' \subseteq asked
  /\ UNCHANGED members

\* A departure changes the state, and may close the table or release everybody.
Depart(who) ==
  /\ who \in members
  /\ members' \in {members \ {who}, {}}
  /\ version' = version + 1
  /\ open' => open
  /\ UNCHANGED <<asked, log>>

LogNext == Ask \/ Forget \/ (\E e \in asked : Apply(e)) \/ (\E who \in People : Depart(who))

LogSpec == LogInit /\ [][LogNext]_state
=============================================================================
