---------------------------- MODULE ApprovalGate ----------------------------
(***************************************************************************)
(* What the review of a forex request promises, with nothing of how it is  *)
(* stored or locked: a request is open, in review or approved.  Another    *)
(* account than its owner, one that may review, takes it into review, and  *)
(* only from review is it approved, again not by its owner.  Anyone        *)
(* involved may open it again, and an approval is undone only by an admin  *)
(* or by the owner's own resubmission.                                     *)
(***************************************************************************)
CONSTANTS Users, Reviewers, Admins, Requests, None

VARIABLES
    phase,      \* "open", "review" or "approved"
    owner,      \* who the request belongs to, None before it exists
    by          \* who last moved it

gateVars == <<phase, owner, by>>

MayReview(r, u) == owner[r] # None /\ u \in (Reviewers \cup Admins) \ {owner[r]}

GateInit ==
    /\ phase = [r \in Requests |-> "open"]
    /\ owner = [r \in Requests |-> None]
    /\ by = [r \in Requests |-> None]

Register(r, u) ==
    /\ owner[r] = None
    /\ owner' = [owner EXCEPT ![r] = u]
    /\ UNCHANGED <<phase, by>>

Take(r, u) ==
    /\ MayReview(r, u)
    /\ phase[r] = "approved" => u \in Admins
    /\ phase' = [phase EXCEPT ![r] = "review"]
    /\ by' = [by EXCEPT ![r] = u]
    /\ UNCHANGED owner

Approve(r, u) ==
    /\ MayReview(r, u)
    /\ phase[r] = "review"
    /\ phase' = [phase EXCEPT ![r] = "approved"]
    /\ by' = [by EXCEPT ![r] = u]
    /\ UNCHANGED owner

Reopen(r, u) ==
    /\ phase[r] = "approved" => u \in Admins \/ u = owner[r]
    /\ u = owner[r] \/ MayReview(r, u)
    /\ phase' = [phase EXCEPT ![r] = "open"]
    /\ by' = [by EXCEPT ![r] = u]
    /\ UNCHANGED owner

GateNext ==
    \E r \in Requests, u \in Users :
        Register(r, u) \/ Take(r, u) \/ Approve(r, u) \/ Reopen(r, u)

GateSpec == GateInit /\ [][GateNext]_gateVars
=============================================================================
