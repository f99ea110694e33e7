---------------------------- MODULE PrepaidBatch ----------------------------
(* What a batch image job promises the user who pays for it in advance: the  *)
(* price is put aside once, then either charged or given back, and the       *)
(* images are his only after the charge.  Nothing of this depends on who     *)
(* acts, in which order, or on what is tried again.                          *)
VARIABLES
    phase,          \* where the price of the batch is
    delivered,      \* the job is completed
    orderly         \* one worker at a time, and fewer failed calls than retries

Phase == {"unpaid", "held", "charged", "refunded", "both"}

Init == phase = "unpaid" /\ delivered = FALSE /\ orderly = TRUE

(* Order may be lost with any step, and is lost for good.                    *)
Move(from, to) ==
    /\ phase = from /\ phase' = to /\ UNCHANGED delivered
    /\ orderly' => orderly

PutAside == Move("unpaid", "held")
Charge == Move("held", "charged")
Refund == Move("held", "refunded")

Deliver ==
    /\ phase \in {"charged", "both"} /\ ~delivered /\ delivered' = TRUE
    /\ UNCHANGED phase /\ (orderly' => orderly)

LoseOrder == orderly /\ orderly' = FALSE /\ UNCHANGED <<phase, delivered>>

(* Without order the price may be charged and given back; that is all.       *)
ChargeAndRefund == ~orderly' /\ (Move("charged", "both") \/ Move("refunded", "both"))

Next == PutAside \/ Charge \/ Refund \/ Deliver \/ LoseOrder \/ ChargeAndRefund

Spec == Init /\ [][Next]_<<phase, delivered, orderly>>
=============================================================================
