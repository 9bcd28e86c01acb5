---------------------------- MODULE NewsContract ----------------------------
(***************************************************************************)
(* What the editorial workflow of News promises of an article, whatever    *)
(* editors and scheduler processes do at once: its content changes only    *)
(* while it is open, a review clears one version of it, that version and   *)
(* no other goes live, and it goes live, and is announced, once.           *)
(***************************************************************************)
EXTENDS Naturals

CONSTANT Articles

VARIABLES
    stage,      \* NONE, OPEN, REVIEW, CLEARED or LIVE
    content,    \* the version of the content
    cleared,    \* the version the last review cleared, 0 for none
    announced   \* the publications that were announced

vars == <<stage, content, cleared, announced>>

Init ==
    /\ stage \in [Articles -> {"NONE", "OPEN"}]
    /\ content = [a \in Articles |-> IF stage[a] = "OPEN" THEN 1 ELSE 0]
    /\ cleared = [a \in Articles |-> 0]
    /\ announced = [a \in Articles |-> 0]

Move(a, from, to) ==
    /\ stage[a] = from
    /\ stage' = [stage EXCEPT ![a] = to]

Create(a) ==
    /\ Move(a, "NONE", "OPEN")
    /\ content' = [content EXCEPT ![a] = 1]
    /\ UNCHANGED <<cleared, announced>>

Edit(a) ==
    /\ stage[a] = "OPEN"
    /\ content' = [content EXCEPT ![a] = @ + 1]
    /\ UNCHANGED <<stage, cleared, announced>>

Submit(a) ==
    /\ Move(a, "OPEN", "REVIEW")
    /\ cleared' = [cleared EXCEPT ![a] = 0]
    /\ UNCHANGED <<content, announced>>

Return(a) ==
    /\ Move(a, "REVIEW", "OPEN")
    /\ cleared' = [cleared EXCEPT ![a] = 0]
    /\ UNCHANGED <<content, announced>>

Clear(a) ==
    /\ Move(a, "REVIEW", "CLEARED")
    /\ cleared' = [cleared EXCEPT ![a] = content[a]]
    /\ UNCHANGED <<content, announced>>

Release(a) ==
    /\ Move(a, "CLEARED", "LIVE")
    /\ cleared[a] = content[a]
    /\ announced' = [announced EXCEPT ![a] = @ + 1]
    /\ UNCHANGED <<content, cleared>>

Next ==
    \E a \in Articles :
        Create(a) \/ Edit(a) \/ Submit(a) \/ Return(a) \/ Clear(a) \/ Release(a)

Spec == Init /\ [][Next]_vars
=============================================================================
