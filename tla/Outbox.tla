------------------------------- MODULE Outbox -------------------------------
(***************************************************************************)
(* What a persistent outbox promises: a message that was taken in is held  *)
(* until the other side has dealt with it.  Nothing is said of how often   *)
(* it is sent: delivery is at least once.                                  *)
(***************************************************************************)
CONSTANT Messages
VARIABLES held,    \* messages taken in and not released
          reached  \* messages the other side has accepted or refused

vars == <<held, reached>>

Init == held = {} /\ reached = {}

TakeIn(m)  == m \notin held /\ held' = held \cup {m} /\ UNCHANGED reached
Reach(m)   == m \in held /\ reached' = reached \cup {m} /\ UNCHANGED held
Release(S) == S \subseteq held \cap reached /\ held' = held \ S /\ UNCHANGED reached

Next == \/ \E m \in Messages : TakeIn(m) \/ Reach(m)
        \/ \E S \in SUBSET held : Release(S)

Spec == Init /\ [][Next]_vars
=============================================================================
