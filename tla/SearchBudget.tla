---------------------------- MODULE SearchBudget ----------------------------
(***************************************************************************)
(* The bookkeeping of enforce_egress_protection (app/security.py): every   *)
(* research run and every Brain request enters a guard with a profile and, *)
(* for research, a search budget.  The coroutine of the run carries both   *)
(* in context variables.  Worker threads that a library starts have no     *)
(* context; they consult process-wide stacks, in several acquisitions of   *)
(* one lock, while other guards are entered and left in any order.         *)
(*                                                                         *)
(* A request here is a call of a search provider.  What the profile says   *)
(* of its host is data: SearchProfiles are those that let it pass.         *)
(***************************************************************************)
EXTENDS Naturals, FiniteSets, SequencesExt

CONSTANTS
    Guard,             \* calls of enforce_egress_protection
    ProfileOf,         \* their profile
    MaximumOf,         \* their maximum_searches, or NoBudget
    SearchProfiles,    \* profiles under which a search host is safe
    Thread, RunOf,     \* worker threads without context, the run of each
    DenyAll,           \* _DENY_ALL_PROFILE
    NoBudget,          \* None
    ThrowAway          \* the {"remaining": 0} of overlapping budgets

Profile == {ProfileOf[g] : g \in Guard} \cup {"general"}
Budgeted == {g \in Guard : MaximumOf[g] # NoBudget}

ASSUME BudgetAssumption ==
    /\ IsFiniteSet(Guard)
    /\ MaximumOf \in [Guard -> (Nat \ {0}) \cup {NoBudget}]
    /\ NoBudget \notin Nat \cup Guard
    /\ ThrowAway \notin Guard \cup {NoBudget}
    /\ SearchProfiles \subseteq Profile
    /\ DenyAll \notin Profile
    /\ RunOf \in [Thread -> Budgeted]

VARIABLES
    depth,             \* _protection_depth
    profiles,          \* _fallback_profile_stack
    budgets,           \* _fallback_search_budget_stack: guards, for their dicts
    budget,            \* the dict of each budgeted guard
    guard,             \* where each call of enforce_egress_protection is
    request,           \* the request each worker thread is making
    issued,            \* history: searches of a run that went out
    refused,           \* history: runs that had a search refused for its budget
    overlapped         \* history: runs during which another budget was active

vars == <<depth, profiles, budgets, budget, guard, request, issued, refused, overlapped>>

Active == {g \in Guard : guard[g] = "in"}

TypeOK ==
    /\ depth \in 0..Cardinality(Guard)
    /\ profiles \in Seq(Profile)
    /\ budgets \in Seq(Budgeted \cup {NoBudget})
    /\ budget \in [Budgeted -> [remaining : Nat, exhausted : BOOLEAN]]
    /\ guard \in [Guard -> {"new", "in", "out"}]
    /\ request \in [Thread -> [at : {"none", "protected", "safe", "metered"},
                               profile : Profile \cup {DenyAll},
                               budget : Budgeted \cup {NoBudget, ThrowAway}]]
    /\ issued \in [Budgeted -> Nat]
    /\ refused \subseteq Budgeted
    /\ overlapped \subseteq Budgeted

NoRequest == [at |-> "none", profile |-> "general", budget |-> NoBudget]

Init ==
    /\ depth = 0 /\ profiles = <<>> /\ budgets = <<>>
    /\ budget = [g \in Budgeted |-> [remaining |-> MaximumOf[g], exhausted |-> FALSE]]
    /\ guard = [g \in Guard |-> "new"]
    /\ request = [t \in Thread |-> NoRequest]
    /\ issued = [g \in Budgeted |-> 0]
    /\ refused = {} /\ overlapped = {}

-----------------------------------------------------------------------------
(***************************************************************************)
(* enforce_egress_protection: what it does under the lock on the way in    *)
(* and in its finally block.  Guards need not nest.                        *)
(***************************************************************************)
BudgetEntry(g) == IF g \in Budgeted THEN g ELSE NoBudget

\* Mutant: guards are taken to nest.
PopTop(stack, x) == SubSeq(stack, 1, Len(stack) - 1)

PopLast(stack, x) == RemoveAt(stack, SelectLastInSeq(stack, LAMBDA y : y = x))

Enter(g) ==
    /\ guard[g] = "new"
    /\ guard' = [guard EXCEPT ![g] = "in"]
    /\ depth' = depth + 1
    /\ profiles' = Append(profiles, ProfileOf[g])
    /\ budgets' = Append(budgets, BudgetEntry(g))
    /\ overlapped' = LET both == (Active \cap Budgeted) \cup ({g} \cap Budgeted)
                     IN overlapped \cup (IF Cardinality(both) > 1 THEN both ELSE {})
    /\ UNCHANGED <<budget, request, issued, refused>>

Exit(g) ==
    /\ guard[g] = "in"
    /\ guard' = [guard EXCEPT ![g] = "out"]
    /\ depth' = IF depth > 0 THEN depth - 1 ELSE 0
    /\ profiles' = PopLast(profiles, ProfileOf[g])
    /\ budgets' = PopLast(budgets, BudgetEntry(g))
    /\ UNCHANGED <<budget, request, issued, refused, overlapped>>

-----------------------------------------------------------------------------
(***************************************************************************)
(* _ensure_safe_url and what it calls.                                     *)
(***************************************************************************)
GuardVars == <<depth, profiles, budgets, guard, overlapped>>

\* The run's own search goes out, or is refused; a run that has left its guard
\* no longer looks.
Issue(g) == issued' = [issued EXCEPT ![g] = @ + 1] /\ UNCHANGED refused
Refuse(g) ==
    /\ refused' = IF guard[g] = "in" THEN refused \cup {g} ELSE refused
    /\ UNCHANGED issued

\* Mutant: raise before the flag is set.
RaiseUnflagged(b) == UNCHANGED budget

\* _consume_search_budget, its critical section, on the dict of guard b for a
\* search of run g.
MayTake(b) == budget[b].remaining > 0
Take(b) == budget' = [budget EXCEPT ![b].remaining = @ - 1]
Flag(b) == budget' = [budget EXCEPT ![b].exhausted = TRUE]

Consume(b, g) ==
    IF MayTake(b)
      THEN /\ Take(b)
           /\ IF b = g \/ guard[g] = "in" THEN Issue(g) ELSE UNCHANGED <<issued, refused>>
      ELSE Flag(b) /\ Refuse(g)

\* A search in the run's own context, where profile and budget are its own.
\* Nothing it reads can change meanwhile, so it is one step.
SearchInContext(g) ==
    /\ g \in Active \cap Budgeted
    /\ ProfileOf[g] \in SearchProfiles
    /\ Consume(g, g)
    /\ UNCHANGED <<GuardVars, request>>

\* Mutants: the innermost profile, the innermost budget instead of failing
\* closed.
InnermostProfile == IF profiles = <<>> THEN "general" ELSE Last(profiles)
InnermostBudget ==
    LET active == SelectSeq(budgets, LAMBDA b : b # NoBudget)
    IN IF active = <<>> THEN NoBudget ELSE Last(active)

\* _active_egress_profile and _active_search_budget without a context.  Every
\* guard has a dict of its own, so the active ones are a set.
FallbackProfile ==
    CASE profiles = <<>> -> "general"
      [] Cardinality(ToSet(profiles)) = 1 -> Last(profiles)
      [] OTHER -> DenyAll

FallbackBudget ==
    LET active == ToSet(budgets) \ {NoBudget}
    IN CASE active = {} -> NoBudget
         [] \E b \in active : active = {b} -> CHOOSE b \in active : TRUE
         [] OTHER -> ThrowAway

Passes(t) ==
    IF guard[RunOf[t]] = "in" THEN Issue(RunOf[t]) ELSE UNCHANGED <<issued, refused>>

\* A worker thread asks whether protection is active; it may outlive its run.
ThreadStarts(t) ==
    /\ request[t].at = "none"
    /\ guard[RunOf[t]] # "new"
    /\ IF depth > 0
         THEN request' = [request EXCEPT ![t].at = "protected"] /\ UNCHANGED <<issued, refused>>
         ELSE Passes(t) /\ UNCHANGED request
    /\ UNCHANGED <<GuardVars, budget>>

ThreadReadsProfile(t) ==
    /\ request[t].at = "protected"
    /\ request' = [request EXCEPT ![t].at = IF FallbackProfile \in SearchProfiles THEN "safe" ELSE "none",
                                  ![t].profile = FallbackProfile]
    /\ UNCHANGED <<GuardVars, budget, issued, refused>>

ThreadReadsBudget(t) ==
    /\ request[t].at = "safe"
    /\ request' = [request EXCEPT ![t].at = IF FallbackBudget = NoBudget THEN "none" ELSE "metered",
                                  ![t].budget = FallbackBudget]
    /\ IF FallbackBudget = NoBudget THEN Passes(t) ELSE UNCHANGED <<issued, refused>>
    /\ UNCHANGED <<GuardVars, budget>>

\* The flag of a refused search on the throw-away dict is seen by nobody.
ThreadConsumes(t) ==
    /\ request[t].at = "metered"
    /\ IF request[t].budget = ThrowAway
         THEN Refuse(RunOf[t]) /\ UNCHANGED budget
         ELSE Consume(request[t].budget, RunOf[t])
    /\ request' = [request EXCEPT ![t].at = "none"]
    /\ UNCHANGED GuardVars

Next ==
    \/ \E g \in Guard : Enter(g) \/ Exit(g)
    \/ \E g \in Budgeted : SearchInContext(g)
    \/ \E t \in Thread : \/ ThreadStarts(t) \/ ThreadReadsProfile(t)
                        \/ ThreadReadsBudget(t) \/ ThreadConsumes(t)

Spec == Init /\ [][Next]_vars

-----------------------------------------------------------------------------
Occurrences(stack, x) == Cardinality({n \in DOMAIN stack : stack[n] = x})

(***************************************************************************)
(* In whatever order guards are left, the stacks and the depth describe    *)
(* exactly the guards that are active: no profile or budget of a finished  *)
(* run stays behind, none of a running one is taken away.                  *)
(***************************************************************************)
StacksMatchGuards ==
    /\ depth = Cardinality(Active)
    /\ \A p \in Profile :
          Occurrences(profiles, p) = Cardinality({g \in Active : ProfileOf[g] = p})
    /\ \A g \in Budgeted : Occurrences(budgets, g) = IF g \in Active THEN 1 ELSE 0
    /\ Occurrences(budgets, NoBudget) = Cardinality(Active \ Budgeted)

(***************************************************************************)
(* "maximumSearches is enforced at the outbound search-provider boundary": *)
(* while a run is inside its guard, its searches and those of its worker   *)
(* threads together never exceed its own maximum, whatever overlaps.       *)
(***************************************************************************)
SearchesWithinMaximum == \A g \in Budgeted : issued[g] <= MaximumOf[g]

(***************************************************************************)
(* While its own run is active, a worker thread never works under the      *)
(* profile of another run and never spends the budget of another run: what *)
(* it cannot tell apart is refused.                                        *)
(***************************************************************************)
OwnOrRefused ==
    \A t \in Thread : guard[RunOf[t]] = "in" =>
        /\ request[t].at \in {"safe", "metered"} =>
              request[t].profile = ProfileOf[RunOf[t]]
        /\ request[t].at = "metered" => request[t].budget \in {RunOf[t], ThrowAway}

\* search_budget_exhausted, as the research loop asks it in its own context.
SearchBudgetExhausted(g) == budget[g].exhausted

(***************************************************************************)
(* "The research loop detects a budget stop by observing this flag": a run *)
(* that had a search refused sees the flag, as long as no other budget was *)
(* active during it; and it sees the flag only when its budget is used up, *)
(* not for the refusals of another run.                                    *)
(***************************************************************************)
BudgetStopIsTrue ==
    /\ \A g \in refused \ overlapped : SearchBudgetExhausted(g)
    /\ \A g \in Budgeted : SearchBudgetExhausted(g) => budget[g].remaining = 0
=============================================================================
