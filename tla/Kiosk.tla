------------------------------- MODULE Kiosk -------------------------------
(***************************************************************************)
(* What the kiosk promises the people in front of it.  One person at most  *)
(* is logged in, with a card that is enrolled; a card is taken for a login *)
(* only while nobody is logged in, or the admin by the hidden panel, and   *)
(* nobody else but that admin gets in before its owner.  A card is         *)
(* enrolled by a registration that has been asked for and is still open,   *)
(* which is used up by that.  The kiosk may log out whoever it is, and     *)
(* withdraw registrations, at any time.                                    *)
(***************************************************************************)
EXTENDS Naturals

CONSTANTS
    NoPerson,     \* nobody is logged in
    People,       \* cards, and those they belong to
    FirstUsers,   \* enrolled from the beginning
    Panel         \* whom the hidden panel logs in

VARIABLES
    user,       \* who is logged in
    entering,   \* whose card has been taken for a login
    enrolled,   \* cards that may log in
    asked,      \* registrations asked for: their number
    open        \* those of them that may still enrol a card

kioskVars == <<user, entering, enrolled, asked, open>>

Init ==
    /\ user = NoPerson
    /\ entering = NoPerson
    /\ enrolled = FirstUsers
    /\ asked = 0
    /\ open = {}

Free == user \in Panel \cup {NoPerson}

TakeCard(p) ==
    /\ p \in enrolled
    /\ entering = NoPerson /\ Free
    /\ entering' = p
    /\ UNCHANGED <<user, enrolled, asked, open>>

Login ==
    /\ entering # NoPerson /\ Free
    /\ user' = entering
    /\ entering' = NoPerson
    /\ UNCHANGED <<enrolled, asked, open>>

GiveUp ==
    /\ entering' = NoPerson
    /\ UNCHANGED <<user, enrolled, asked, open>>

PanelLogin(p) ==
    /\ p \in enrolled
    /\ user' = p
    /\ UNCHANGED <<entering, enrolled, asked, open>>

Logout ==
    /\ user' = NoPerson
    /\ UNCHANGED <<entering, enrolled, asked, open>>

\* A new registration, which may take the place of another.
Ask ==
    /\ asked' = asked + 1
    /\ asked' \in open'
    /\ open' \subseteq open \cup {asked'}
    /\ UNCHANGED <<user, entering, enrolled>>

Withdraw ==
    /\ open' \subseteq open
    /\ UNCHANGED <<user, entering, enrolled, asked>>

Enrol(p) ==
    /\ p \notin enrolled
    /\ enrolled' = enrolled \cup {p}
    /\ \E r \in open : open' = open \ {r}
    /\ UNCHANGED <<user, entering, asked>>

Next ==
    \/ \E p \in People : TakeCard(p) \/ Enrol(p)
    \/ \E p \in Panel : PanelLogin(p)
    \/ Login \/ GiveUp \/ Logout \/ Ask \/ Withdraw

Spec == Init /\ [][Next]_kioskVars
=============================================================================
