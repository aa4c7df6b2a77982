---------------------------- MODULE AlarmDelivery ----------------------------
(***************************************************************************)
(* What alert fan-out promises an alarm and a destination, with no queue,  *)
(* worker or retry in it: the events a destination is given for one text   *)
(* alternate between trigger and resolution, and only an event whose       *)
(* acknowledgement was lost is ever given again.                           *)
(***************************************************************************)
CONSTANTS Dests, Texts

VARIABLES
  sent,   \* sent[d]: the texts destination d is known to hold open
  taken   \* taken[d][t]: the last event d took for t

Init ==
  /\ sent = [d \in Dests |-> {}]
  /\ taken = [d \in Dests |-> [t \in Texts |-> "none"]]

\* The one event that may be given to d for t.
Due(d, t) == IF t \in sent[d] THEN "resolve" ELSE "trigger"

\* d knows the texts after acknowledging the due event for t.
Acknowledged(texts, t) == IF t \in texts THEN texts \ {t} ELSE texts \cup {t}

\* d takes the due event and says so.
Accept(d, t) ==
  /\ taken' = [taken EXCEPT ![d][t] = Due(d, t)]
  /\ sent' = [sent EXCEPT ![d] = Acknowledged(@, t)]

\* d takes the due event and the acknowledgement is lost.
Lose(d, t) ==
  /\ taken' = [taken EXCEPT ![d][t] = Due(d, t)]
  /\ UNCHANGED sent

Next == \E d \in Dests, t \in Texts : Accept(d, t) \/ Lose(d, t)

Spec == Init /\ [][Next]_<<sent, taken>>
=============================================================================
