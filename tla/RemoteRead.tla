----------------------------- MODULE RemoteRead -----------------------------
(***************************************************************************)
(* What a caller of RpcTransport::call (src/rpc/client.rs) relies on: a    *)
(* request is one read of the node.  However often it is sent, lost or     *)
(* abandoned, it ends in the caller's hands either as what the node held   *)
(* at one moment between the call and its return, or as a failure.         *)
(***************************************************************************)
CONSTANTS
  Views,   \* what the node may hold
  NoView   \* nothing read

VARIABLES
  view,    \* what the node holds
  asked,   \* whether a call is in progress
  looked,  \* what the node was last seen to hold during this call
  answer   \* what the last call returned

vars == <<view, asked, looked, answer>>

Init ==
  /\ view \in Views
  /\ asked = FALSE
  /\ looked = NoView
  /\ answer = NoView

\* The node moves on whenever it likes.
Move ==
  /\ view' \in Views
  /\ UNCHANGED <<asked, looked, answer>>

Ask ==
  /\ ~ asked
  /\ asked' = TRUE
  /\ answer' = NoView
  /\ UNCHANGED <<view, looked>>

Look ==
  /\ asked
  /\ looked' = view
  /\ UNCHANGED <<view, asked, answer>>

\* The answer is lost, or comes too late.
Forget ==
  /\ asked
  /\ looked' = NoView
  /\ UNCHANGED <<view, asked, answer>>

Return ==
  /\ asked
  /\ looked # NoView
  /\ asked' = FALSE
  /\ answer' = looked
  /\ looked' = NoView
  /\ UNCHANGED view

Fail ==
  /\ asked
  /\ asked' = FALSE
  /\ looked' = NoView
  /\ UNCHANGED <<view, answer>>

Next == Move \/ Ask \/ Look \/ Forget \/ Return \/ Fail

Spec == Init /\ [][Next]_vars
=============================================================================
