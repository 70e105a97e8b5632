---------------------------- MODULE AtomicChange ----------------------------
(***************************************************************************)
(* What a journalled change promises: a value is settled; a change to      *)
(* another one is intended, then takes effect as a whole or, where the     *)
(* journal can be rolled back, not at all.  Once somebody else interferes  *)
(* with the files the change works on, nothing is promised any more.       *)
(***************************************************************************)
CONSTANTS Values, None, Unknown, RollsBack

VARIABLES settled, intended

Init == settled \in Values /\ intended = None

Intend ==
  /\ settled # Unknown /\ intended = None
  /\ intended' \in Values /\ UNCHANGED settled

TakeEffect == intended # None /\ settled' = intended /\ intended' = None

RollBack == RollsBack /\ intended # None /\ intended' = None /\ UNCHANGED settled

Interfere == settled' = Unknown /\ intended' = None

Next == Intend \/ TakeEffect \/ RollBack \/ Interfere

Spec == Init /\ [][Next]_<<settled, intended>>
=============================================================================
