-------------------------------- MODULE Router --------------------------------
(***************************************************************************)
(* From the configuration's route groups to the source of a key:           *)
(* ServerConfig::to_router, which runs at every start of the server, then  *)
(* Router::rule and Request::match_regex for every key looked up.  The     *)
(* groups are in a HashMap, whose order differs from start to start.       *)
(***************************************************************************)
EXTENDS Naturals, Sequences, SequencesExt, FiniteSets

CONSTANTS
    Keys,          \* keys that clients ask for
    Configs,       \* configurations: a function from the groups' names to
                   \* lists of routes, [pattern |-> P, source |-> S]
    Matches(_, _), \* whether a pattern matches a key
    NoRoute,       \* stands for None
    MaxLookups     \* bound: lookups with different outcomes

VARIABLES
    groups,        \* the configuration
    rules,         \* the router's rules, in the order they are tried
    lookups        \* the keys looked up so far, and their sources

routerVars == <<groups, rules, lookups>>

\* The orders a HashMap may give its keys in.
Orders == SetToSeqs(DOMAIN groups)

\* Faulty variant: each route is put before those that are there.
RoutesReversed(order) == Reverse(FlattenSeq([i \in DOMAIN order |-> groups[order[i]]]))

\* route() appends: group by group, each in the file's order.
Routes(order) == FlattenSeq([i \in DOMAIN order |-> groups[order[i]]])

ToRouter == \E order \in Orders : rules' = Routes(order)

Init ==
    /\ groups \in Configs
    /\ rules \in {Routes(order) : order \in Orders}
    /\ lookups = {}

\* Router::rule: the first that matches.
FirstMatch(key) == SelectInSeq(rules, LAMBDA route : Matches(route.pattern, key))

Source(key) == IF FirstMatch(key) = 0 THEN NoRoute ELSE rules[FirstMatch(key)].source

Lookup(key) ==
    /\ Cardinality(lookups) < MaxLookups
    /\ lookups' = lookups \cup {[key |-> key, source |-> Source(key)]}
    /\ UNCHANGED <<groups, rules>>

Restart ==
    /\ ToRouter
    /\ UNCHANGED <<groups, lookups>>

-----------------------------------------------------------------------------
MatchIn(group, key) ==
    SelectInSeq(groups[group], LAMBDA route : Matches(route.pattern, key))
GroupsOf(key) == {group \in DOMAIN groups : MatchIn(group, key) > 0}

(* In every life of the server, a key has no source if no group matches it *)
(* and else the source of the first route that matches in one of them: a   *)
(* route never hides an earlier one of its group, and a key that only one  *)
(* group matches keeps its source from start to start (to_router, rule).   *)
GroupDecides ==
    \A l \in lookups :
        IF GroupsOf(l.key) = {} THEN l.source = NoRoute
        ELSE \E group \in GroupsOf(l.key) :
                 l.source = groups[group][MatchIn(group, l.key)].source
=============================================================================
