------------------------------ MODULE Planner ------------------------------
(***************************************************************************)
(* The update planner: build makes a plan of what an operator asks for and *)
(* a dry run answered, revalidate compares it with a fresh one by the hash *)
(* of its canonical form, and confirm_plan builds the input it is compared *)
(* with out of the plan itself.                                            *)
(*                                                                         *)
(* Package names and versions are numbers, ordered as the strings are; 0   *)
(* is an invalid name, or no version.  SHA-256 of the canonical JSON is    *)
(* the canonical form: hashes are equal when the forms are.                *)
(***************************************************************************)
EXTENDS Naturals, Sequences, FiniteSets

CONSTANTS
  PlanRequests,   \* requested_packages of an input
  PlanChanges     \* dry_run_changes of an input
ASSUME PlannerAssumption ==
  /\ PlanRequests \subseteq Seq(Nat)
  /\ PlanChanges \subseteq Seq([package : Nat, from : Nat, to : Nat, kind : {"install", "upgrade", "remove", "downgrade"},
                               held : BOOLEAN, authenticated : BOOLEAN])

VARIABLES
  planned,   \* the plan, or NoPlanYet
  verdict,   \* what the last build, revalidate or confirmation answered
  current    \* history: the input of the last verdict

plannerVars == <<planned, verdict, current>>

PlannerInput == [requested : PlanRequests, changes : PlanChanges, upgrade : BOOLEAN]
ChangeKinds == <<"install", "upgrade", "remove", "downgrade">>
NoPlanYet == [requested |-> <<>>, changes |-> <<>>, status |-> "none"]
Unset == [requested |-> <<>>, changes |-> <<>>, upgrade |-> FALSE]

----------------------------------------------------------------------------
\* PackageName::new and normalize_change: held and unauthenticated packages
\* are refused.
Plannable(change) == change.package # 0 /\ ~change.held /\ change.authenticated
NormalizeChange(change) ==
  [package |-> change.package, from |-> change.from, to |-> change.to, kind |-> change.kind]

Unsafe(change) == change.kind \in {"remove", "downgrade"}

Accepted(input) ==
  /\ input.requested # <<>> /\ \A i \in DOMAIN input.requested : input.requested[i] # 0
  /\ \A i \in DOMAIN input.changes : Plannable(input.changes[i])

Build(input) ==
  LET changes == [i \in DOMAIN input.changes |-> NormalizeChange(input.changes[i])]
      blocked == input.upgrade \/ \E i \in DOMAIN changes : Unsafe(changes[i])
  IN [requested |-> input.requested, changes |-> changes, status |-> IF blocked THEN "blocked" ELSE "ready"]

Rank(kind) == CHOOSE n \in DOMAIN ChangeKinds : ChangeKinds[n] = kind

\* Mutant: changes are sorted by their package.
SortKeyPackage(change) == <<change.package, 0, 0, 0>>

SortKey(change) == <<change.package, change.from, change.to, Rank(change.kind)>>

Precedes(a, b) ==
  \E i \in DOMAIN SortKey(a) :
    /\ SortKey(a)[i] < SortKey(b)[i]
    /\ \A j \in 1..(i - 1) : SortKey(a)[j] = SortKey(b)[j]

\* sort_unstable and sort_unstable_by: an element comes behind those before it,
\* and where the order leaves two undecided, behind the earlier one.
Place(s, i, Before(_, _)) ==
  Cardinality({j \in DOMAIN s : Before(s[j], s[i]) \/ (j <= i /\ ~Before(s[i], s[j]))})
Sort(s, Before(_, _)) == [k \in DOMAIN s |-> s[CHOOSE i \in DOMAIN s : Place(s, i, Before) = k]]

CanonicalRepresentation(plan) ==
  <<Sort(plan.requested, <), Sort(plan.changes, Precedes)>>

HasSameContentAs(plan, other) == CanonicalRepresentation(plan) = CanonicalRepresentation(other)

\* PlanStatus::can_transition_to, as far as the planner and confirm_plan go.
MayBecome(status, next) ==
  \/ status = "ready" /\ next = "confirmed"
  \/ status \in {"blocked", "ready", "confirmed"} /\ next = "invalidated"

\* The answer of revalidate; a plan invalidated before is an error.
Verdict(plan, input) ==
  IF ~Accepted(input) THEN "error"
  ELSE IF HasSameContentAs(plan, Build(input)) THEN "unchanged"
  ELSE IF MayBecome(plan.status, "invalidated") THEN "changed" ELSE "error"

\* The input confirm_plan makes of the plan.
InputOf(plan) ==
  [requested |-> plan.requested, upgrade |-> FALSE,
   changes |-> [i \in DOMAIN plan.changes |->
     [package |-> plan.changes[i].package, from |-> plan.changes[i].from, to |-> plan.changes[i].to,
      kind |-> plan.changes[i].kind, held |-> FALSE, authenticated |-> TRUE]]]

----------------------------------------------------------------------------
PlannerInit == planned = NoPlanYet /\ verdict = "none" /\ current = Unset

BuildPlan(input) ==
  /\ planned = NoPlanYet /\ verdict = "none"
  /\ IF Accepted(input) THEN planned' = Build(input) /\ verdict' = "built"
                        ELSE verdict' = "error" /\ UNCHANGED planned
  /\ UNCHANGED current

\* A fresh plan whose content differs invalidates the old one.
Revalidate(input) ==
  /\ planned # NoPlanYet
  /\ verdict' = Verdict(planned, input)
  /\ planned' = IF verdict' = "changed" THEN [planned EXCEPT !.status = "invalidated"] ELSE planned
  /\ current' = IF verdict' = "error" THEN Unset ELSE input

\* confirm_plan: the transition, then start revalidates a clone of the plan
\* against the input made of it.
Confirm ==
  /\ MayBecome(planned.status, "confirmed")
  /\ planned' = [planned EXCEPT !.status = "confirmed"]
  /\ verdict' = Verdict(planned', InputOf(planned)) /\ current' = InputOf(planned)

PlannerNext == Confirm \/ \E input \in PlannerInput : BuildPlan(input) \/ Revalidate(input)
PlannerSpec == PlannerInit /\ [][PlannerNext]_plannerVars

----------------------------------------------------------------------------
Count(s, x) == Cardinality({i \in DOMAIN s : s[i] = x})
SameBag(s, t) ==
  \A i \in DOMAIN (s \o t) : Count(s, (s \o t)[i]) = Count(t, (s \o t)[i])

\* Two plans are the same when they hold the same packages and changes,
\* each as often, in whatever order a dry run lists them: sorting by the
\* key leaves no order of the input behind (canonical_representation).
VerdictByContent ==
  verdict \in {"unchanged", "changed"} =>
    LET fresh == Build(current)
    IN verdict = "unchanged" <=>
         SameBag(planned.requested, fresh.requested) /\ SameBag(planned.changes, fresh.changes)

\* The input confirm_plan makes of a confirmed plan always finds it unchanged,
\* so the revalidation of a confirmation never refuses it.
ConfirmationHolds ==
  planned.status = "confirmed" => Verdict(planned, InputOf(planned)) = "unchanged"

\* A plan that may be confirmed, or was, changes nothing but by installing
\* or upgrading.
ConfirmableIsSafe ==
  planned.status \in {"ready", "confirmed"} =>
    \A i \in DOMAIN planned.changes : planned.changes[i].kind \in {"install", "upgrade"} /\ planned.changes[i].package # 0

\* The planner judges plans by their content and lets none but a safe one be
\* confirmed (build, revalidate, canonical_representation, confirm_plan).
PlansJudgedByContent == VerdictByContent /\ ConfirmationHolds /\ ConfirmableIsSafe
=============================================================================
