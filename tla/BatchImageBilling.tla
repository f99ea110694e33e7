------------------------- MODULE BatchImageBilling -------------------------
(* The hold that pays for one batch of images: repository/                   *)
(* usage_billing_repo.go and service/batch_image_billing_hold.go.  Reserve,  *)
(* Capture and Release are one transaction each; every one first claims a    *)
(* request id of its own, so that a second call of the same kind changes     *)
(* nothing.  The user's frozen balance is shared by all of his batches.      *)
EXTENDS Naturals

CONSTANTS
    Hold,           \* job.HoldAmount
    Balance,        \* the user's balance before the batch
    OtherFrozen     \* what the user's other batches have frozen

ASSUME HoldAssumption == Hold \in Nat \ {0} /\ Balance \in Nat /\ OtherFrozen \in Nat

RequestId == {"hold", "capture", "release"}
Place == {"none", "dedup", "archive"}

(* claim: where the claim of each request id is; returned records that the   *)
(* UPDATE of Release has put the hold back into the balance.                 *)
Ledger ==
    [claim : [RequestId -> Place], balance : Nat, frozen : Nat, returned : BOOLEAN]
NewLedger ==
    [claim |-> [r \in RequestId |-> "none"], balance |-> Balance,
     frozen |-> OtherFrozen, returned |-> FALSE]

(* claimUsageBillingRequest: the id is found in the table or in its archive. *)
(* Its statements are one step here.  A claim that CleanupUsageBillingDedup  *)
(* archives between the refused INSERT and the SELECT of its fingerprint     *)
(* makes the call fail without effect, as a call may at any time.            *)
Claimed_tableOnly(b, id) == b.claim[id] = "dedup"
Claimed(b, id) == b.claim[id] # "none"

(* The claim and the change of the user's row are committed together.        *)
Apply(b, id, balance, frozen, returned) ==
    [claim |-> [b.claim EXCEPT ![id] = "dedup"], balance |-> balance,
     frozen |-> frozen, returned |-> returned]

ReserveOK(b) == Claimed(b, "hold") \/ b.balance >= Hold
Reserve(b) ==
    IF Claimed(b, "hold") \/ b.balance < Hold THEN b
    ELSE Apply(b, "hold", b.balance - Hold, b.frozen + Hold, b.returned)

(* Nothing in the statement asks for the batch's own hold: the frozen        *)
(* balance of the user has to cover the amount, whoever froze it.            *)
CaptureOK(b, cost) == Claimed(b, "capture") \/ (cost <= Hold /\ b.frozen >= Hold)
Capture(b, cost) ==
    IF Claimed(b, "capture") \/ ~CaptureOK(b, cost) THEN b
    ELSE Apply(b, "capture", b.balance + (Hold - cost), b.frozen - Hold, b.returned)

(* A release that finds no hold returns nothing, but its claim is committed. *)
ReleaseOK(b) == Claimed(b, "release") \/ ~Claimed(b, "hold") \/ b.frozen >= Hold
Release(b) ==
    IF Claimed(b, "release") \/ ~ReleaseOK(b) THEN b
    ELSE IF ~Claimed(b, "hold") THEN Apply(b, "release", b.balance, b.frozen, b.returned)
    ELSE Apply(b, "release", b.balance + Hold, b.frozen - Hold, TRUE)

(* CleanupUsageBillingDedup: one statement moves the old claims.             *)
ArchiveClaims(b) ==
    [b EXCEPT !.claim = [r \in RequestId |-> IF @[r] = "none" THEN "none" ELSE "archive"]]

-----------------------------------------------------------------------------
Captured(b) == Claimed(b, "capture")

(* Every amount has been applied once and only once: the balance is what it  *)
(* was, less the hold, plus what a capture leaves of it or what a release    *)
(* gives back, and the rest is frozen.                                       *)
Amount(p, n) == IF p THEN n ELSE 0
Balanced(b, cost) ==
    /\ b.balance + Amount(Claimed(b, "hold"), Hold)
         = Balance + Amount(Captured(b), Hold - cost) + Amount(b.returned, Hold)
    /\ b.frozen + Amount(Captured(b), Hold) + Amount(b.returned, Hold)
         = OtherFrozen + Amount(Claimed(b, "hold"), Hold)
=============================================================================
