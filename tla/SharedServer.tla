---------------------------- MODULE SharedServer ----------------------------
(***************************************************************************)
(* What the server pool promises its clients (contract at the head of      *)
(* kernel/server-pool.ts): a Jupyter server is up for a key exactly while  *)
(* somebody holds it; the first to take it brings it up and the last to    *)
(* drop it takes it down.                                                  *)
(***************************************************************************)
CONSTANTS Keys, Clients

VARIABLES holders,  \* per key, the clients that hold its server
          up        \* the keys whose server is up

Init == holders = [k \in Keys |-> {}] /\ up = {}

(* Everyone who waited for a server gets it at the same moment.             *)
Take(k, S) ==
    /\ S # {} /\ S \cap holders[k] = {}
    /\ holders' = [holders EXCEPT ![k] = @ \cup S]
    /\ up' = up \cup {k}

Drop(k, c) ==
    /\ c \in holders[k]
    /\ holders' = [holders EXCEPT ![k] = @ \ {c}]
    /\ up' = IF holders'[k] = {} THEN up \ {k} ELSE up

Next == \E k \in Keys : \/ \E S \in SUBSET Clients : Take(k, S)
                        \/ \E c \in Clients : Drop(k, c)

Spec == Init /\ [][Next]_<<holders, up>>
=============================================================================
