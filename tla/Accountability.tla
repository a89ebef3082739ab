--------------------------- MODULE Accountability ---------------------------
(***************************************************************************)
(* pkg/studypipeline/accountability.go and the two copies of               *)
(* studyPipelineRunOutcome: what a curated run decides about every element *)
(* of the PDFs, whether its checklist is complete, whether RunStage        *)
(* returns an error, and which status is recorded.  Three pieces of code   *)
(* must agree: buildCurationChecklist, CompletionError and                 *)
(* studyPipelineRunOutcome.                                                *)
(*                                                                         *)
(* Abstracted: identifiers, reasons and confidences; whether a block's     *)
(* text or an asset's name occurs in the curated output, and whether an    *)
(* asset looks decorative, are attributes of the element.                  *)
(***************************************************************************)

(* A text block, an asset or a page image of an extracted document.        *)
Elements == [kind : {"block", "asset", "page_preview"},
             known : BOOLEAN,         \* block type is not "unknown"
             represented : BOOLEAN,   \* found in the curated output
             decorative : BOOLEAN]    \* looks like a logo, banner, template

Outcomes == {"used_in_output", "ignored", "unsupported", "needs_review", "failed"}
Unresolved == {"needs_review", "failed"}

(* An unknown block is unsupported even when its text was found.           *)
BlockOutcome(e) ==
    IF ~e.known THEN "unsupported"
    ELSE IF e.represented THEN "used_in_output" ELSE "needs_review"

AssetOutcome(e) ==
    IF e.represented THEN "used_in_output"
    ELSE IF e.decorative THEN "ignored" ELSE "needs_review"

Previews(doc) == {e \in doc : e.kind = "page_preview"}

(* Page images are evidence, not elements: every other element of the      *)
(* document gets exactly one decision.                                     *)
Decisions(doc) ==
    {[of |-> e, outcome |-> IF e.kind = "block" THEN BlockOutcome(e) ELSE AssetOutcome(e)] :
        e \in doc \ Previews(doc)}

OutcomesOf(decisions) == {d.outcome : d \in decisions}

(* buildCurationChecklist *)
ChecklistStatus(doc) ==
    IF /\ OutcomesOf(Decisions(doc)) \cap Unresolved = {}
       /\ Previews(doc) # {}
       /\ Decisions(doc) # {}
    THEN "complete" ELSE "incomplete"

(* A stage's response: the checklist's status and the decisions, or        *)
(* NoChecklist for the stages that do not curate.                          *)
NoChecklist == [checklist |-> "none", decisions |-> {}]
CuratedReport(doc) == [checklist |-> ChecklistStatus(doc), decisions |-> Decisions(doc)]

(* curatedAccountabilityReport.CompletionError: is there an error?         *)
CompletionError(report) ==
    \/ report.checklist # "complete"
    \/ OutcomesOf(report.decisions) \cap Unresolved # {}

(* Slip for the mutants: only the decisions are looked at, not the         *)
(* checklist.                                                              *)
RunOutcomeOfDecisions(report) ==
    IF OutcomesOf(report.decisions) \cap Unresolved # {} THEN "failed" ELSE "succeeded"

(* studyPipelineRunOutcome: the status recorded for a response.            *)
RunOutcome(report) ==
    IF report.checklist = "none" THEN "succeeded"
    ELSE IF OutcomesOf(report.decisions) \cap Unresolved # {} THEN "failed"
    ELSE IF report.checklist # "complete" THEN "failed"
    ELSE "succeeded"
=============================================================================
