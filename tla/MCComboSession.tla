--------------------------- MODULE MCComboSession ----------------------------
(****************************************************************************)
(* Small instances of ComboSession: each Kind... names the coco processes   *)
(* of one run.                                                              *)
(****************************************************************************)
EXTENDS ComboSession, TLC

CONSTANTS c1, c2, c3, c4, c5

KindScript      == (c1 :> "metadata") @@ (c2 :> "record") @@ (c3 :> "ask")
                   @@ (c4 :> "reply")
KindRecords     == (c1 :> "metadata") @@ (c2 :> "record") @@ (c3 :> "record")
KindAsks        == (c1 :> "metadata") @@ (c2 :> "iask") @@ (c3 :> "ask")
                   @@ (c4 :> "reply") @@ (c5 :> "feedback")
KindDiscovery   == (c1 :> "metadata") @@ (c2 :> "record") @@ (c3 :> "tell")
                   @@ (c4 :> "ask")
KindRecordAsk   == (c1 :> "metadata") @@ (c2 :> "record") @@ (c3 :> "ask")
KindTell        == (c1 :> "metadata") @@ (c2 :> "tell")
KindRecord      == (c1 :> "metadata") @@ (c2 :> "record")
KindIAsk        == (c1 :> "metadata") @@ (c2 :> "iask")

\* Bound: only one of the two clients is ever started.
OneOf(a, b) == client'[a] = "idle" \/ client'[b] = "idle"

\* An interactive ask with a plain one or with a feedback, and a reply
PlainAskOrFeedback == OneOf(c3, c5)

\* A record or an ask that the script does not wait for
DetachedSpec == Init /\ [][Next /\ OneOf(c2, c3)]_vars /\ Fairness
=============================================================================
