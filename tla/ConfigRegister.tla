--------------------------- MODULE ConfigRegister ---------------------------
(***************************************************************************)
(* What the service promises about its configuration: there is one stored  *)
(* value; it changes as a whole, to a document of the service's own or to  *)
(* whatever a person puts there while the service is down; and a running   *)
(* service uses the stored value, except that it may be about to.          *)
(***************************************************************************)
CONSTANTS Docs, Foreign, None

VARIABLES stored, served

vars == <<stored, served>>

Init == stored \in Docs \cup Foreign /\ served = None

(* At most one new document ahead of the one in use. *)
Store ==
  /\ served \in {None, stored}
  /\ stored' \in Docs
  /\ UNCHANGED served

Use ==
  /\ stored \in Docs
  /\ served' = stored
  /\ UNCHANGED stored

Stop == served' = None /\ UNCHANGED stored

Edit ==
  /\ served = None
  /\ stored' \in Docs \cup Foreign
  /\ UNCHANGED served

Next == Store \/ Use \/ Stop \/ Edit

Spec == Init /\ [][Next]_vars
=============================================================================
