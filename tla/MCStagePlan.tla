---------------------------- MODULE MCStagePlan ----------------------------
(* Small instances of StagePlan for TLC. *)
EXTENDS StagePlan

MCStages == <<"raw", "extracted", "curated">>

(* A document is any set of these: a block that is represented, one that   *)
(* is not, one of unknown type, a decorative asset and a page image.       *)
MCElements ==
    {[kind |-> "block", known |-> TRUE, represented |-> TRUE, decorative |-> FALSE],
     [kind |-> "block", known |-> TRUE, represented |-> FALSE, decorative |-> FALSE],
     [kind |-> "block", known |-> FALSE, represented |-> FALSE, decorative |-> FALSE],
     [kind |-> "asset", known |-> TRUE, represented |-> FALSE, decorative |-> TRUE],
     [kind |-> "page_preview", known |-> TRUE, represented |-> FALSE, decorative |-> FALSE]}
MCDocuments == SUBSET MCElements
=============================================================================
