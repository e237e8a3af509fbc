-------------------------- MODULE CommitService --------------------------
(***************************************************************************)
(* What the commit state machines of the radios promise together.          *)
(*                                                                         *)
(* Users ask for actions on entities: a radio, its access points and its   *)
(* end points.  One radio at a time may configure; while it does, actions  *)
(* of its own entities are carried out, one kind after the other, and an   *)
(* action asked for stays to be done until it is carried out or until an   *)
(* entity of the same radio has it to do instead.                          *)
(***************************************************************************)
CONSTANTS
  Radios,    \* the radios
  Entities,  \* what actions are asked for
  OwnerOf,   \* the radio of each entity
  Actions,   \* the kinds of actions
  Nobody     \* no radio configures

VARIABLES
  owner,     \* the radio that configures
  todo       \* the actions each entity has still to carry out

Of(r) == {e \in Entities : OwnerOf[e] = r}

Init ==
  /\ owner = Nobody
  /\ todo = [e \in Entities |-> {}]

\* Somebody asks for more.
Ask ==
  /\ owner' = owner
  /\ \A e \in Entities : todo[e] \subseteq todo'[e]

Acquire(r) == owner = Nobody /\ owner' = r /\ todo' = todo

Release(r) == owner = r /\ owner' = Nobody /\ todo' = todo

\* Entities of the radio that configures carry out one kind of action.
Serve(r, a) ==
  /\ owner = r /\ owner' = r
  /\ \A e \in Of(r) : todo'[e] \in {todo[e], todo[e] \ {a}}
  /\ \A e \in Entities \ Of(r) : todo'[e] = todo[e]

\* The radio that configures moves actions between its entities.
Rearrange(r) ==
  /\ owner = r /\ owner' = r
  /\ \A e \in Of(r) : todo[e] \subseteq UNION {todo'[x] : x \in Of(r)}
  /\ \A e \in Entities \ Of(r) : todo'[e] = todo[e]

Next ==
  \/ Ask
  \/ \E r \in Radios :
       \/ Acquire(r) \/ Release(r) \/ Rearrange(r)
       \/ \E a \in Actions : Serve(r, a)

Spec == Init /\ [][Next]_<<owner, todo>>
===========================================================================
