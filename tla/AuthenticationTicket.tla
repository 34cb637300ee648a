------------------------- MODULE AuthenticationTicket -------------------------
(***************************************************************************)
(* What the client owes the platform's authentication interface: at most    *)
(* one ticket is asked for, while the interface is up; while a connection   *)
(* relies on the ticket it stays valid; it is given back once, soon after   *)
(* nobody relies on it any more, and the interface is only taken down with  *)
(* no ticket left.                                                          *)
(***************************************************************************)
VARIABLES
  api,          \* the interface: "off", "on", then "down"
  ticket,       \* "none", "live", then "terminated"
  relied        \* whether a connection relies on the ticket

vars == <<api, ticket, relied>>

Init == api = "off" /\ ticket = "none" /\ relied = FALSE

BringUp == api = "off" /\ api' = "on" /\ UNCHANGED <<ticket, relied>>

Issue == api = "on" /\ ticket = "none" /\ ticket' = "live" /\ UNCHANGED <<api, relied>>

Rely == ticket = "live" /\ ~relied /\ relied' = TRUE /\ UNCHANGED <<api, ticket>>

Part == relied /\ relied' = FALSE /\ UNCHANGED <<api, ticket>>

Terminate ==
  ticket = "live" /\ ~relied /\ ticket' = "terminated" /\ UNCHANGED <<api, relied>>

ShutDown == api = "on" /\ ticket # "live" /\ api' = "down" /\ UNCHANGED <<ticket, relied>>

Next == BringUp \/ Issue \/ Rely \/ Part \/ Terminate \/ ShutDown

Safe == Init /\ [][Next]_vars

Spec == Safe /\ WF_vars(Terminate)
=============================================================================
