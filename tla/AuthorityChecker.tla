-------------------------- MODULE AuthorityChecker --------------------------
(***************************************************************************)
(* How a transaction's declared permissions are checked against its keys   *)
(* and its delay (authority_checker.hpp), as check_authorization and       *)
(* get_required_keys of authorization_manager.cpp use it.                  *)
(*                                                                         *)
(* An authority gives factors (keys, waits, other permissions) a weight    *)
(* and is satisfied from a threshold on.  The recursion of the C++ code is *)
(* a stack of frames here; its cache holds, for one declared permission,   *)
(* what has been found of the permissions on the way.                      *)
(***************************************************************************)
EXTENDS Integers, Sequences, FiniteSetsExt, SequencesExt

CONSTANTS
    Permissions,     \* permission levels
    Keys,            \* public keys
    Waits,           \* waits, in seconds
    FactorOrder,     \* all of them: waits, keys, permissions, each ascending
    MaxFactors, Weights, Thresholds,   \* of the authorities there may be
    KeySets,         \* sets of keys a transaction may be signed with
    ProvidedSets,    \* sets of permissions given as satisfied
    Delays,          \* delays a transaction may have
    Declarations,    \* sequences of permissions a transaction may declare
    DepthLimits      \* values max_authority_depth may have

Factors == Permissions \cup Keys \cup Waits

CheckerAssumption ==
    /\ Waits \cup Delays \cup DepthLimits \subseteq Nat
    /\ ToSet(FactorOrder) = Factors /\ Len(FactorOrder) = Cardinality(Factors)

NoPermission == "none"

VARIABLES
    table,           \* permission_index: the authority of each permission
    keys, provided, delay, declared,   \* the transaction
    depth_limit,     \* recursion_depth_limit
    left,            \* declared permissions that are not checked yet
    cache,           \* cached_permissions
    used,            \* _used_keys
    returned,        \* history: keys given back by authorities not satisfied
    stack,           \* the calls of satisfied() under way
    result           \* what check_authorization has decided

transaction == <<table, keys, provided, delay, declared, depth_limit>>
vars == <<transaction, left, cache, used, returned, stack, result>>

----------------------------------------------------------------------------
(* Authorities *)

Missing == [threshold |-> 0, weight |-> <<>>]

\* What validate() accepts.
ValidAuthorities ==
    UNION {{a \in [threshold : Thresholds, weight : [fs -> Weights]] :
              MapThenSumSet(LAMBDA f : a.weight[f], fs) >= a.threshold} :
           fs \in {s \in SUBSET Factors : Cardinality(s) \in 1..MaxFactors}}

rank(f) == CHOOSE i \in 1..Len(FactorOrder) : FactorOrder[i] = f

\* meta_permission_set: by weight, the heaviest first
meta_permissions(auth) ==
    SetToSortSeq(DOMAIN auth.weight,
       LAMBDA f, g : \/ auth.weight[f] > auth.weight[g]
                     \/ auth.weight[f] = auth.weight[g] /\ rank(f) < rank(g))

Frame(p, auth) ==
    [perm |-> p, auth |-> auth, rest |-> meta_permissions(auth),
     total |-> 0, saved |-> used]

Top == Last(stack)
Below == Front(stack)
depth == Len(stack) - 1

----------------------------------------------------------------------------
(* The visitor *)

initialize_permission_cache ==
    [p \in Permissions |-> IF p \in provided THEN "satisfied" ELSE "unknown"]

\* check_authorization takes the next declared permission.
CheckDeclared ==
    /\ result = "checking" /\ stack = <<>> /\ left # <<>>
    /\ cache' = initialize_permission_cache
    /\ stack' = <<Frame(NoPermission,
                        [threshold |-> 1, weight |-> Head(left) :> 1])>>
    /\ left' = Tail(left)
    /\ UNCHANGED <<transaction, used, returned, result>>

\* The frame after its next factor has been visited.
visited(counts) ==
    LET f == Head(Top.rest)
    IN  [Top EXCEPT !.rest = Tail(@),
                    !.total = IF counts THEN @ + Top.auth.weight[f] ELSE @]

Visiting(kind) ==
    /\ stack # <<>> /\ Top.rest # <<>> /\ Top.total < Top.auth.threshold
    /\ Head(Top.rest) \in kind

VisitWait ==
    /\ Visiting(Waits)
    /\ stack' = Append(Below, visited(delay >= Head(Top.rest)))
    /\ UNCHANGED <<transaction, left, cache, used, returned, result>>

VisitKey ==
    /\ Visiting(Keys)
    /\ LET k == Head(Top.rest)
       IN  /\ used' = IF k \in keys THEN used \cup {k} ELSE used
           /\ stack' = Append(Below, visited(k \in keys))
    /\ UNCHANGED <<transaction, left, cache, returned, result>>

\* A permission that is being evaluated counts as not satisfied.
counts_in_cache_early(p) == cache[p] \in {"satisfied", "being_evaluated"}

counts_in_cache(p) == cache[p] = "satisfied"

must_evaluate(p) ==
    cache[p] = "unknown" /\ depth < depth_limit /\ table[p] # Missing

VisitPermission ==
    /\ Visiting(Permissions)
    /\ LET p == Head(Top.rest)
       IN  \/ /\ ~must_evaluate(p)
              /\ stack' = Append(Below, visited(counts_in_cache(p)))
              /\ UNCHANGED cache
           \/ /\ must_evaluate(p)
              /\ cache' = [cache EXCEPT ![p] = "being_evaluated"]
              /\ stack' = Append(stack, Frame(p, table[p]))
    /\ UNCHANGED <<transaction, left, used, returned, result>>

----------------------------------------------------------------------------
(* The end of a call *)

reached(frame) == frame.total >= frame.auth.threshold

\* satisfied() returns to the visitor of the permission; keys that were used
\* for an authority that is not satisfied are given back.
Return ==
    /\ Len(stack) > 1
    /\ reached(Top) \/ Top.rest = <<>>
    /\ used' = IF reached(Top) THEN used ELSE Top.saved
    /\ returned' = returned \cup (used \ used')
    /\ cache' = [cache EXCEPT ![Top.perm] =
                    IF reached(Top) THEN "satisfied" ELSE "unsatisfied"]
    /\ LET caller == Last(Below)
           weight == IF reached(Top) THEN caller.auth.weight[Top.perm] ELSE 0
       IN  stack' = Append(Front(Below),
                       [caller EXCEPT !.rest = Tail(@), !.total = @ + weight])
    /\ UNCHANGED <<transaction, left, result>>

\* check_authorization goes on, or gives up.
Answer ==
    /\ Len(stack) = 1
    /\ reached(Top) \/ Top.rest = <<>>
    /\ stack' = <<>>
    /\ result' = IF reached(Top) THEN result ELSE "unsatisfied"
    /\ UNCHANGED <<transaction, left, cache, used, returned>>

\* allow_unused_keys is FALSE for a transaction.
Finish ==
    /\ result = "checking" /\ stack = <<>> /\ left = <<>>
    /\ result' = IF used = keys THEN "satisfied" ELSE "irrelevant keys"
    /\ UNCHANGED <<transaction, left, cache, used, returned, stack>>

Init ==
    /\ table \in [Permissions -> ValidAuthorities \cup {Missing}]
    /\ keys \in KeySets /\ provided \in ProvidedSets /\ delay \in Delays
    /\ declared \in Declarations /\ depth_limit \in DepthLimits
    /\ left = declared
    /\ cache = initialize_permission_cache
    /\ used = {} /\ returned = {} /\ stack = <<>>
    /\ result = "checking"

Next == CheckDeclared \/ VisitWait \/ VisitKey \/ VisitPermission \/ Return
          \/ Answer \/ Finish

Spec == Init /\ [][Next]_vars

----------------------------------------------------------------------------
(* What an authority means *)

\* The permissions that keys ks satisfy through at most n permissions.
Satisfied(ks, n) ==
    LET holds(sat, a) ==
            MapThenSumSet(LAMBDA f : a.weight[f],
               {f \in DOMAIN a.weight :
                   \/ f \in ks \/ f \in sat
                   \/ f \in Waits /\ delay >= f}) >= a.threshold
        S[i \in 0..n] ==
            IF i = 0 THEN provided
            ELSE provided \cup {p \in Permissions : table[p] # Missing /\
                                                    holds(S[i - 1], table[p])}
    IN  S[n]

AllLevels == Cardinality(Permissions)

\* The permissions below p, on paths of at most n steps.
reachable(p, n) ==
    LET down(ps) ==
            ps \cup UNION {DOMAIN table[q].weight \cap Permissions : q \in ps}
        R[i \in 0..n] == IF i = 0 THEN {p} ELSE down(R[i - 1])
    IN  R[n]

Acyclic ==
    \A p \in Permissions :
       \A q \in DOMAIN table[p].weight \cap Permissions :
          p \notin reachable(q, AllLevels)

TypeOK ==
    /\ result \in {"checking", "satisfied", "unsatisfied", "irrelevant keys"}
    /\ used \subseteq keys
    /\ cache \in [Permissions -> {"unknown", "being_evaluated", "satisfied",
                                  "unsatisfied"}]
    /\ Len(stack) <= depth_limit + 1

\* A transaction is accepted only if its keys and its delay satisfy every
\* permission it declares: what the cache says of a permission in a circle
\* or of one cut off by the depth limit never counts for more than that
\* (weight_tally_visitor, permission_status_in_cache).
Sound ==
    result = "satisfied" => ToSet(declared) \subseteq Satisfied(keys, AllLevels)

\* The keys and the delay are enough without key k.
NotNeeded(k) == ToSet(declared) \subseteq Satisfied(keys \ {k}, AllLevels)

\* Where permissions do not refer to each other in a circle and none lies
\* deeper than max_authority_depth, a transaction that has the keys is not
\* refused for the order in which the permissions were looked at, nor for a
\* key that it needs, unless that key was given back by an authority that was
\* not satisfied: a permission found satisfied with it still counts from the
\* cache, but the key stays unused (weight_tally_visitor, satisfied,
\* check_authorization).
Complete ==
    Acyclic /\ AllLevels <= depth_limit =>
       /\ result = "unsatisfied" =>
             ~(ToSet(declared) \subseteq Satisfied(keys, AllLevels))
       /\ result = "irrelevant keys" =>
             \A k \in keys \ used : k \in returned \/ NotNeeded(k)

\* A permission is evaluated once at a time, so that a circle of
\* permissions ends (being_evaluated).
NoReentry ==
    \A i, j \in 1..Len(stack) : i # j => stack[i].perm # stack[j].perm

=============================================================================
