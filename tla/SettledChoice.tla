---------------------------- MODULE SettledChoice ----------------------------
(***************************************************************************)
(* What a question with several choices promises to those who answer it:   *)
(* it is settled once, nobody is told that a choice was taken before it    *)
(* was, or that another one was, and nothing is done but what follows from *)
(* the choice taken.                                                       *)
(***************************************************************************)
CONSTANTS Questions, Choices, NoChoice

VARIABLES
  taken,     \* taken[q]: the choice that question q is settled on, or NoChoice
  told,      \* the pairs of a question and a choice that somebody was told is taken
  done       \* the pairs of a question and a choice that something was done for

choiceVars == <<taken, told, done>>

Init ==
  /\ taken = [q \in Questions |-> NoChoice]
  /\ told = {}
  /\ done = {}

Settle(q, o) ==
  /\ taken[q] = NoChoice
  /\ taken' = [taken EXCEPT ![q] = o]
  /\ UNCHANGED <<told, done>>

Tell(q) ==
  /\ taken[q] # NoChoice
  /\ told' = told \cup {<<q, taken[q]>>}
  /\ UNCHANGED <<taken, done>>

Act(q) ==
  /\ taken[q] # NoChoice
  /\ done' = done \cup {<<q, taken[q]>>}
  /\ UNCHANGED <<taken, told>>

Next ==
  \E q \in Questions : Tell(q) \/ Act(q) \/ \E o \in Choices : Settle(q, o)

Spec == Init /\ [][Next]_choiceVars
=============================================================================
