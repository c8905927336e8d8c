----------------------------- MODULE TurnTaking -----------------------------
(***************************************************************************)
(* What the synchronization demo promises: once begun, two parties greet   *)
(* in turn, one of them first, for ever.                                   *)
(***************************************************************************)
EXTENDS Naturals

CONSTANTS First, Second

VARIABLES
    begun,    \* greetings may begin
    last,     \* who greeted last
    bit       \* flips with every greeting, so that no two in a row look alike

turnVars == <<begun, last, bit>>

Init == begun = FALSE /\ last = Second /\ bit = 0

Begin == ~begun /\ begun' = TRUE /\ UNCHANGED <<last, bit>>

Greet ==
    /\ begun
    /\ last' = IF last = First THEN Second ELSE First
    /\ bit' = 1 - bit
    /\ UNCHANGED begun

Next == Begin \/ Greet

Safety == Init /\ [][Next]_turnVars

Spec == Safety /\ WF_turnVars(Greet)

=============================================================================
