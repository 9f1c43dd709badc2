------------------------------ MODULE ReplySlot ------------------------------
(****************************************************************************)
(* What a combo session promises about `coco ask`: there is one reply slot; *)
(* an ask holds it from the moment it is accepted until its answer has been *)
(* taken, it is answered at most once, only while it holds the slot, and    *)
(* the answer never changes.  Implemented by SessionServer together with    *)
(* the runner (ComboSession).                                               *)
(****************************************************************************)
CONSTANTS Clients, Values, None

VARIABLES
    holder,     \* the ask that holds the slot
    answer      \* what each ask was answered

slot == <<holder, answer>>

Init == holder = None /\ answer = [c \in Clients |-> None]

Begin(c) ==
    /\ holder = None
    /\ answer[c] = None
    /\ holder' = c
    /\ UNCHANGED answer

Resolve(c, v) ==
    /\ holder = c
    /\ answer[c] = None
    /\ answer' = [answer EXCEPT ![c] = v]
    /\ UNCHANGED holder

Release(c) ==
    /\ holder = c
    /\ answer[c] # None
    /\ holder' = None
    /\ UNCHANGED answer

Next ==
    \E c \in Clients :
        Begin(c) \/ Release(c) \/ \E v \in Values : Resolve(c, v)

Spec == Init /\ [][Next]_slot

FairSpec ==
    /\ Spec
    /\ \A c \in Clients : /\ WF_slot(\E v \in Values : Resolve(c, v))
                          /\ WF_slot(Release(c))
=============================================================================
