--------------------------- MODULE MCLeaseRenewal ---------------------------
(* One attempt with a lease of four ticks, renewed every two; and, in other *)
(* behaviours, the sessions of a client with two attempts and one fault.    *)
EXTENDS LeaseRenewal, WssSession

VARIABLE part

ClientInit ==
    /\ part \in {"lease", "session"}
    /\ Init /\ WssInit

ClientNext ==
    /\ UNCHANGED part
    /\ \/ part = "lease" /\ Next /\ UNCHANGED wssVars
       \/ part = "session" /\ WssNext /\ UNCHANGED vars

ClientSpec == ClientInit /\ [][ClientNext]_<<part, vars, wssVars>> /\ (part = "session" => WssFairness)
=============================================================================
