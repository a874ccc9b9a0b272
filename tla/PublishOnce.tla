----------------------------- MODULE PublishOnce -----------------------------
(***************************************************************************)
(* What a publication promises to readers of the output root and to the    *)
(* callers who compete for one publication id (class docstring of          *)
(* AtomicDirectoryPublisher: "publish it exactly once"): the id goes to at  *)
(* most one owner and never changes hands, "published" is only answered by  *)
(* the owner and only when the publication cannot be lost any more, and an  *)
(* attempt that was refused never owned the id.                             *)
(***************************************************************************)
CONSTANTS
    Attempts,   \* who may try to publish
    NoOne,      \* nobody owns the id
    Foreign     \* a directory made outside the protocol

VARIABLES
    owner,      \* who owns the id
    settled,    \* the ownership survives a loss of power
    answer      \* what each attempt has been told

vars == <<owner, settled, answer>>

Init ==
    /\ owner = NoOne
    /\ settled = FALSE
    /\ answer = [a \in Attempts |-> "pending"]

(* An attempt, or a stranger, takes the free id. *)
Claim(a) ==
    /\ owner = NoOne
    /\ answer[a] = "pending"
    /\ owner' = a
    /\ settled' = FALSE
    /\ UNCHANGED answer

ClaimByStranger ==
    /\ owner = NoOne
    /\ owner' = Foreign
    /\ settled' = TRUE
    /\ UNCHANGED answer

(* The owner is told, and from then on the publication is settled. *)
Confirm(a) ==
    /\ owner = a
    /\ answer[a] = "pending"
    /\ settled' = TRUE
    /\ answer' = [answer EXCEPT ![a] = "published"]
    /\ UNCHANGED owner

(* The owner is told that its publication is visible but may not last. *)
Doubt(a) ==
    /\ owner = a
    /\ answer[a] = "pending"
    /\ answer' = [answer EXCEPT ![a] = "unknown"]
    /\ UNCHANGED <<owner, settled>>

(* Anybody else is refused. *)
Refuse(a) ==
    /\ owner # a
    /\ answer[a] = "pending"
    /\ answer' = [answer EXCEPT ![a] = "refused"]
    /\ UNCHANGED <<owner, settled>>

(* Power is lost: an unsettled ownership is forgotten or becomes settled. *)
Forget ==
    /\ owner # NoOne
    /\ ~settled
    /\ owner' = NoOne
    /\ UNCHANGED <<settled, answer>>

Settle ==
    /\ owner # NoOne
    /\ settled' = TRUE
    /\ UNCHANGED <<owner, answer>>

Next ==
    \/ \E a \in Attempts : Claim(a) \/ Confirm(a) \/ Doubt(a) \/ Refuse(a)
    \/ ClaimByStranger
    \/ Forget
    \/ Settle

Spec == Init /\ [][Next]_vars

=============================================================================
