--------------------------- MODULE ContextCapsule ---------------------------
(***************************************************************************)
(* ContextBuilder::build (crates/agent-core/src/context.rs): items are     *)
(* taken in a fixed order into a capsule that must not become longer than  *)
(* the input of the model.  An item is a record with its kind, whether it  *)
(* is required, its placement or "default", the file or the command it is  *)
(* about or None, and its size in bytes once it is rendered.               *)
(***************************************************************************)
EXTENDS Integers, Sequences, FiniteSets, SequencesExt, FiniteSetsExt,
        Projection

CONSTANTS
  None,
  MaxInputTokens, StableRatio, Scale,       \* budgets; ratio of the stable prefix
  Slope, SlopeScale, Intercept,             \* of the token estimator
  CapsuleHeader, SectionHeader              \* sizes of what is rendered around

ASSUME CapsuleAssumption ==
  /\ {MaxInputTokens, StableRatio, CapsuleHeader, SectionHeader} \subseteq Nat
  /\ {Scale, Slope, SlopeScale} \subseteq Nat \ {0}
  /\ Intercept \in Int

VARIABLES
  items,       \* those of the builder, in the order they were added
  taken,       \* numbers of those that were looked at
  included,    \* items of the capsule
  omitted,     \* items left out, with the reason
  capsulePc

capsuleVars == <<items, taken, included, omitted, capsulePc>>

-----------------------------------------------------------------------------
(* ContextItemKind. *)
Kinds == <<"system_policy", "project_rules", "user_task", "workspace_manifest",
           "git_status", "git_diff", "file", "selection", "explicit_content",
           "tool_result", "plan", "acceptance_criteria", "previous_run_summary",
           "diagnostic", "other">>

Priority(kind) == CHOOSE i \in DOMAIN Kinds : Kinds[i] = kind

Singletons == {"system_policy", "user_task", "workspace_manifest", "git_status",
               "git_diff", "plan", "acceptance_criteria", "previous_run_summary"}

DefaultPlacement(kind) ==
  CASE kind \in {"system_policy", "project_rules", "workspace_manifest"} -> 0
    [] kind \in {"git_status", "git_diff", "diagnostic"}                 -> 1
    [] OTHER                                                             -> 2

StablePrefix == 0

Placement(item) ==
  IF item.placement = None THEN DefaultPlacement(item.kind) ELSE item.placement

Item(kind, required, path, size) ==
  [kind |-> kind, required |-> required, placement |-> None, path |-> path,
   command |-> None, size |-> size]
-----------------------------------------------------------------------------
(* TokenEstimatorConfig::estimate: bytes, or a line fitted to samples. *)
Estimate(bytes) ==
  LET tokens == (bytes * Slope) \div SlopeScale + Intercept
  IN  IF tokens > 0 THEN tokens ELSE 0

(* build_sections: neighbours of one placement are a section. *)
SectionStarts(list) ==
  {i \in DOMAIN list : i = 1 \/ Placement(list[i]) # Placement(list[i - 1])}

SectionFrom(list, i) ==
  LET later == {j \in SectionStarts(list) : j > i}
  IN  SubSeq(list, i, IF later = {} THEN Len(list) ELSE Min(later) - 1)

(* render_context_section: a blank line before each item, and one before   *)
(* each section.                                                           *)
ItemBytes(list) ==
  LET bytes[n \in 0..Len(list)] == IF n = 0 THEN 0 ELSE bytes[n - 1] + 1 + list[n].size
  IN  bytes[Len(list)]

RenderedBytes(list) ==
  IF list = <<>> THEN 0
  ELSE CapsuleHeader + ItemBytes(list)
       + Cardinality(SectionStarts(list)) * (1 + SectionHeader)

(* Mutant: the items alone, without what is rendered around. *)
ItemTokens(list) == Estimate(ItemBytes(list))

InputTokens(list) == Estimate(RenderedBytes(list))

(* section_tokens: of the first section of the placement. *)
StableTokens(list) ==
  LET starts == {i \in SectionStarts(list) : Placement(list[i]) = StablePrefix}
  IN  IF starts = {} THEN 0
      ELSE Estimate(SectionHeader + ItemBytes(SectionFrom(list, Min(starts))))

StableBudget == (MaxInputTokens * StableRatio) \div Scale
-----------------------------------------------------------------------------
CapsuleInit(added) ==
  items = added /\ taken = {} /\ included = <<>> /\ omitted = <<>> /\ capsulePc = "adding"

AddItems(more) ==
  /\ capsulePc = "adding"
  /\ items' = items \o more
  /\ UNCHANGED <<taken, included, omitted, capsulePc>>

BeginBuild ==
  /\ capsulePc = "adding"
  /\ capsulePc' = IF MaxInputTokens = 0 \/ StableRatio \notin 1..Scale
                  THEN "failed" ELSE "building"
  /\ UNCHANGED <<items, taken, included, omitted>>

(* Mutant: without the placement. *)
PrecedesByKind(i, j) ==
  LET key(n) == <<Priority(items[n].kind), n>>
      k == key(i)
      m == key(j)
  IN  k[1] < m[1] \/ (k[1] = m[1] /\ k[2] < m[2])

(* The order of the items: placement, kind, and age. *)
Precedes(i, j) ==
  LET key(n) == <<Placement(items[n]), Priority(items[n].kind), n>>
      k == key(i)
      m == key(j)
  IN  \E d \in 1..3 : k[d] < m[d] /\ \A e \in 1..(d - 1) : k[e] = m[e]

(* validate_unique_source, against all the items looked at before, also     *)
(* those left out.                                                          *)
IsDuplicate(item) ==
  \E n \in taken :
    LET other == items[n]
    IN  \/ item.kind \in Singletons /\ other.kind = item.kind
        \/ /\ item.kind = "file" /\ other.kind = "file"
           /\ item.path # None /\ other.path = item.path
        \/ item.command # None /\ other.command = item.command

Omit(item, reason) ==
  /\ omitted' = Append(omitted, [item |-> item, reason |-> reason])
  /\ UNCHANGED <<included, capsulePc>>

Fail == capsulePc' = "failed" /\ UNCHANGED <<included, omitted>>

TakeItem(i) ==
  /\ capsulePc = "building" /\ i \in DOMAIN items \ taken
  /\ \A j \in DOMAIN items \ (taken \cup {i}) : Precedes(i, j)
  /\ taken' = taken \cup {i}
  /\ LET item      == items[i]
         candidate == Append(included, item)
     IN  IF IsDuplicate(item) THEN Fail
         ELSE IF InputTokens(candidate) > MaxInputTokens
         THEN IF item.required THEN Fail ELSE Omit(item, "token_budget")
         ELSE IF /\ Placement(item) = StablePrefix /\ ~item.required
                 /\ StableTokens(candidate) > StableBudget
         THEN Omit(item, "stable_prefix_budget")
         ELSE included' = candidate /\ UNCHANGED <<omitted, capsulePc>>
  /\ UNCHANGED items

FinishBuild ==
  /\ capsulePc = "building" /\ taken = DOMAIN items
  /\ capsulePc' = "built"
  /\ UNCHANGED <<items, taken, included, omitted>>

BuildStep == BeginBuild \/ FinishBuild \/ \E i \in DOMAIN items : TakeItem(i)
-----------------------------------------------------------------------------
(* Properties. *)

(* The capsule with an item more, behind those of its placement. *)
With(list, item) ==
  LET first == {x \in Range(list) : Placement(x) <= Placement(item)}
  IN  Only(list, first) \o <<item>> \o Only(list, Range(list) \ first)

(* A capsule fits the budget and holds every required item; what was left  *)
(* out would not fit even now, each for the reason that is reported        *)
(* (docs/context-capsule.md, budget rules).                                *)
OmissionIsJustified ==
  capsulePc = "built" =>
    /\ Estimate(RenderedBytes(included)) <= MaxInputTokens
    /\ \A i \in DOMAIN items : items[i].required => items[i] \in Range(included)
    /\ \A i \in DOMAIN omitted :
         LET item == omitted[i].item
             with == With(included, item)
         IN  CASE omitted[i].reason = "token_budget" ->
                    Estimate(RenderedBytes(with)) > MaxInputTokens
               [] OTHER -> StableTokens(with) > StableBudget

(* The capsule has one section for each placement, the stable prefix first *)
(* (or its token report and hash, which look at the first section of a     *)
(* placement, would be wrong), and no source twice.                        *)
CapsuleIsWellFormed ==
  capsulePc = "built" =>
    /\ \A i, j \in SectionStarts(included) :
         i < j => Placement(included[i]) < Placement(included[j])
    /\ \A i, j \in DOMAIN included :
         i # j => /\ included[i].kind \in Singletons => included[i].kind # included[j].kind
                  /\ included[i].kind = "file" /\ included[j].kind = "file"
                       => included[i].path = None \/ included[i].path # included[j].path
=============================================================================
