------------------------------ MODULE MCAlerts ------------------------------
(***************************************************************************)
(* An account and an address past a ceiling of one login alert, one        *)
(* connector, one recipient. Login failures share with the other rules the *)
(* worker and the mail and nothing else: in a behaviour with them the      *)
(* others stay quiet and mail goes through while nobody else acts. There   *)
(* are up to three of them, stamped anew or late and with ids in any order *)
(* where the instants are the same, and one acknowledgement or failed      *)
(* evaluation. Other events are told apart by their number alone.          *)
(***************************************************************************)
EXTENDS Alerts

Ordered(e) ==
    IF e.key = Subject THEN e.n = Cardinality(log')
    ELSE e.n <= 3 /\ \A f \in log : e.at # f.at => (e.n < f.n <=> e.at < f.at)

Scenarios ==
    LET logins == \E e \in log' : e.key \in Sources
    IN  /\ logins => /\ outage' = {} /\ \A c \in Connectors : live'[c] = "none"
                     /\ readers' = Users /\ recipients' = Users
                     /\ \A e \in log' : e.key # Subject
                     /\ ops' <= Cardinality(log') + 1
                     /\ pass'.pc # "refused"
                     /\ pass.pc \notin {"idle", "quiet", "batch"}
                           => <<clock', ops'>> = <<clock, ops>>
        /\ clock' > 0 => logins
        /\ \A e \in log' \ log : Ordered(e)
=============================================================================
