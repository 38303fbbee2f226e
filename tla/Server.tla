-------------------------------- MODULE Server --------------------------------
(***************************************************************************)
(* The requests in progress on the server, for the components whose        *)
(* handlers wait for the database between what they read and what they     *)
(* write: one process, and a request may be overtaken wherever it waits.   *)
(* A request is a record that says what it has read and does next.         *)
(***************************************************************************)
EXTENDS Integers, FiniteSets

CONSTANT Handlers   \* bound: the requests in progress at one time

VARIABLE calls      \* the request each handler works on

Idle == [op |-> "idle"]

ServerInit == calls = [h \in Handlers |-> Idle]

Continue(h, call) == calls' = [calls EXCEPT ![h] = call]

Begin(h, call) == calls[h] = Idle /\ Continue(h, call)

\* The answer is sent; a refusal is an answer too.
Finish(h) == Continue(h, Idle)
=============================================================================
