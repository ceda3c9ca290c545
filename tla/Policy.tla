------------------------------- MODULE Policy -------------------------------
(***************************************************************************)
(* Policy evaluation: a reviewed bundle decides whether a request of a     *)
(* caller is allowed as it is, allowed with less authority or budget, held *)
(* for approval, or denied.  Bundles are immutable; a request is evaluated *)
(* again when a later version of its bundle, or a caller with other        *)
(* scopes, presents it.                                                    *)
(***************************************************************************)
EXTENDS Integers

CONSTANTS
  Effects,       \* effect types
  Scopes,        \* authority scopes
  Unlimited,     \* a wall clock budget that is not limited, above all others
  NotEvaluated

Limits == 0 .. Unlimited

Bundle == [allowed: SUBSET Scopes, denied: SUBSET Effects,
           approval: SUBSET Effects, maximum: Limits]
Request == [effects: SUBSET Effects, caller: SUBSET Scopes,
            requested: SUBSET Scopes, required: SUBSET Scopes, budget: Limits]

PolicyOutcomes == {"allow", "constrained_allow", "require_approval", "deny"}
Decision == [outcome: PolicyOutcomes, authority: SUBSET Scopes, budget: Limits]

ASSUME PolicyAssumption == Unlimited \in Nat /\ NotEvaluated \notin Decision

VARIABLES bundle, request, decision
policyVars == <<bundle, request, decision>>

Usable(b, q) == q.caller \cap b.allowed

(* Requirements the bundle knows of taken for those the caller holds. *)
DeniesUnheld(b, q) ==
  q.effects \cap b.denied # {} \/ ~(q.required \subseteq b.allowed)

Denies(b, q) ==
  q.effects \cap b.denied # {} \/ ~(q.required \subseteq Usable(b, q))

(* How much is over the limit, taken for the limit. *)
LesserExcess(m, n) == m - n

Lesser(m, n) == IF m > n THEN n ELSE m

Attenuates(b, q) ==
  q.requested \cap Usable(b, q) # q.requested \/ q.budget > b.maximum

OutcomeOf(b, q) ==
  IF q.effects \cap b.approval # {} THEN "require_approval"
  ELSE IF Attenuates(b, q) THEN "constrained_allow" ELSE "allow"

(* The constraints asked for before the approval. *)
EvaluateConstraintsFirst(b, q) ==
  IF Denies(b, q)
  THEN [outcome |-> "deny", authority |-> {}, budget |-> 0]
  ELSE [outcome |-> IF Attenuates(b, q) THEN "constrained_allow" ELSE OutcomeOf(b, q),
        authority |-> q.requested \cap Usable(b, q),
        budget |-> Lesser(q.budget, b.maximum)]

Evaluate(b, q) ==
  IF Denies(b, q)
  THEN [outcome |-> "deny", authority |-> {}, budget |-> 0]
  ELSE [outcome |-> OutcomeOf(b, q),
        authority |-> q.requested \cap Usable(b, q),
        budget |-> Lesser(q.budget, b.maximum)]

PolicyInit ==
  /\ bundle \in Bundle /\ request \in Request
  /\ decision = NotEvaluated

EvaluateFirst ==
  /\ decision = NotEvaluated
  /\ decision' = Evaluate(bundle, request)
  /\ UNCHANGED <<bundle, request>>

(* The same request under a bundle version that grants less to a caller    *)
(* that holds less.                                                        *)
EvaluateTightened ==
  /\ decision # NotEvaluated
  /\ bundle' \in [allowed: SUBSET bundle.allowed,
                  denied: {d \in SUBSET Effects : bundle.denied \subseteq d},
                  approval: {a \in SUBSET Effects : bundle.approval \subseteq a},
                  maximum: 0 .. bundle.maximum]
  /\ \E held \in SUBSET request.caller : request' = [request EXCEPT !.caller = held]
  /\ decision' = Evaluate(bundle', request')

PolicyNext == EvaluateFirst \/ EvaluateTightened
PolicySpec == PolicyInit /\ [][PolicyNext]_policyVars

-----------------------------------------------------------------------------
(* A decision has an outcome, an authority and a budget of its kind.       *)
PolicyTypeOK ==
  /\ bundle \in Bundle /\ request \in Request
  /\ decision \in Decision \cup {NotEvaluated}

(* The outcomes of the work plan: "allow" is exactly what was requested,   *)
(* "constrained_allow" is less, denial overrides every other rule, and an  *)
(* effect that needs approval goes through without only when it is denied. *)
OutcomesMean ==
  decision # NotEvaluated =>
    /\ decision.outcome = "allow" =>
         decision.authority = request.requested /\ decision.budget = request.budget
    /\ decision.outcome = "constrained_allow" =>
         decision.authority # request.requested \/ decision.budget < request.budget
    /\ decision.outcome # "deny" =>
         /\ request.effects \cap bundle.denied = {}
         /\ request.required \subseteq request.caller
         /\ decision.authority \subseteq request.caller \cap bundle.allowed
         /\ decision.budget <= bundle.maximum
    /\ request.effects \cap bundle.approval # {} =>
         decision.outcome \in {"require_approval", "deny"}

Strictness(outcome) ==
  CASE outcome = "allow" -> 0 [] outcome = "constrained_allow" -> 1
    [] outcome = "require_approval" -> 2 [] outcome = "deny" -> 3

(* Evaluation is monotone: a tighter bundle or a caller with fewer scopes  *)
(* never gets more authority, more budget or a more permissive outcome.    *)
TighterNeverGrants ==
  [][decision # NotEvaluated =>
       /\ Strictness(decision'.outcome) >= Strictness(decision.outcome)
       /\ decision'.authority \subseteq decision.authority
       /\ decision'.budget <= decision.budget]_policyVars
=============================================================================
