------------------------------ MODULE PodRound ------------------------------
(***************************************************************************)
(* What a member may rely on, whatever the code does inside: a savings     *)
(* round gathers people, then settles once and for all who is in it and in *)
(* which turn each is paid, the turns nobody took being the earliest.      *)
(***************************************************************************)
EXTENDS Integers, FiniteSets

CONSTANTS People, Rounds, Slots

VARIABLES phase,   \* of each round: "absent", "gathering" or "settled"
          roster,  \* the people in each round
          turn     \* once settled, the turn of each person of the roster

vars == <<phase, roster, turn>>

Init ==
  /\ phase = [r \in Rounds |-> "absent"]
  /\ roster = [r \in Rounds |-> {}]
  /\ turn = [r \in Rounds |-> <<>>]

\* A round opens only when no other one is gathering.
Open(r) ==
  /\ \A q \in Rounds : phase[q] # "gathering"
  /\ phase[r] = "absent"
  /\ phase' = [phase EXCEPT ![r] = "gathering"]
  /\ UNCHANGED <<roster, turn>>

Enrol(r, a) ==
  /\ phase[r] = "gathering"
  /\ a \notin roster[r]
  /\ Cardinality(roster[r]) < Slots
  /\ roster' = [roster EXCEPT ![r] = @ \cup {a}]
  /\ UNCHANGED <<phase, turn>>

\* Nobody shares a turn, and the people of a round take its last turns.
Turns(people) ==
  {t \in [people -> (Slots - Cardinality(people) + 1) .. Slots] :
     \A a, b \in people : t[a] = t[b] => a = b}

Settle(r) ==
  /\ phase[r] = "gathering"
  /\ roster[r] # {}
  /\ phase' = [phase EXCEPT ![r] = "settled"]
  /\ \E t \in Turns(roster[r]) : turn' = [turn EXCEPT ![r] = t]
  /\ UNCHANGED roster

Next ==
  \/ \E r \in Rounds : Open(r) \/ Settle(r)
  \/ \E r \in Rounds, a \in People : Enrol(r, a)

Spec == Init /\ [][Next]_vars
=============================================================================
