-------------------------- MODULE SponsoredReceipt --------------------------
(***************************************************************************)
(* The sponsored_context_receipt: what the brand declares, what a host     *)
(* answers, the gate SponsoredContextReceipt.Validate (internal/si/        *)
(* types.go) and the receipt the stdio bridge makes up for hosts that know *)
(* nothing of it (synthesiseReceipt in internal/mcpstdio/tools.go).        *)
(* Labels, reasons and timestamps are present or not, never read.          *)
(***************************************************************************)

Absent      == "absent"
ContextUses == {"presentation_only", "comparison_set", "reasoning_context"}

(* sponsored_context, as far as a receipt depends on it.                   *)
Sponsored == [use : ContextUses, required : BOOLEAN]

HostReceipts == [status     : {"accepted", "rejected", "other", Absent},
                 accepted   : ContextUses \cup {"other", Absent},
                 commitment : {"accepted", "not_required", Absent},
                 reason     : BOOLEAN,
                 receivedAt : {"rfc3339", "other", Absent}]

(* An accepted receipt accepts what was declared and commits to a required *)
(* disclosure; a rejected one does neither.                                *)
Validate(sponsored, receipt) ==
    /\ \/ /\ receipt.status = "accepted"
          /\ receipt.accepted \in ContextUses
          /\ receipt.accepted = sponsored.use
          /\ sponsored.required => receipt.commitment = "accepted"
          /\ ~receipt.reason
       \/ /\ receipt.status = "rejected"
          /\ receipt.accepted = Absent
          /\ receipt.commitment = Absent
    /\ receipt.receivedAt = "rfc3339"

-----------------------------------------------------------------------------
Modes == {"accept-presentation", "accept-all", "reject-all", "null"}

Accepts(mode, sponsored) ==
    \/ mode = "accept-all"
    \/ mode = "accept-presentation" /\ sponsored.use = "presentation_only"

(* Deliberately wrong: commit to nothing.                                  *)
SynthesiseUncommitted(mode, sponsored) ==
    [status     |-> IF Accepts(mode, sponsored) THEN "accepted" ELSE "rejected",
     accepted   |-> IF Accepts(mode, sponsored) THEN sponsored.use ELSE Absent,
     commitment |-> IF Accepts(mode, sponsored) THEN "not_required" ELSE Absent,
     reason     |-> ~Accepts(mode, sponsored),
     receivedAt |-> "rfc3339"]

SynthesiseReceipt(mode, sponsored) ==
    IF Accepts(mode, sponsored)
    THEN [status     |-> "accepted",
          accepted   |-> sponsored.use,
          commitment |-> IF sponsored.required THEN "accepted" ELSE "not_required",
          reason     |-> FALSE,
          receivedAt |-> "rfc3339"]
    ELSE [status     |-> "rejected",
          accepted   |-> Absent,
          commitment |-> Absent,
          reason     |-> TRUE,
          receivedAt |-> "rfc3339"]
=============================================================================
