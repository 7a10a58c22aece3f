---------------------------------- MODULE Fetch ----------------------------------
(***************************************************************************)
(* From a key to a value: MonitorTasks::get_or_create_task asks the router *)
(* for the key's source and calls it, in a server that may be restarted    *)
(* with the same configuration at any time.                                *)
(***************************************************************************)
EXTENDS Naturals, Sequences, FiniteSets

CONSTANTS
    Keys,            \* keys that clients ask for
    Configs,         \* configurations: [routes, sources]
    Answers,         \* what the outside may answer a source with
    IsUrl(_),        \* whether a text is a URL
    JsonOf(_),       \* what a text is as JSON
    Matches(_, _),   \* whether a pattern matches a key
    Captures(_, _),  \* what a pattern captures of a key, and $key
    NoRoute,         \* stands for None
    Paths,           \* the paths at which a merged object is looked at
    MaxLookups       \* bound: lookups with different outcomes

VARIABLES groups, rules, lookups, asked, sources, frames, result,
          request    \* the captures of the Request that the lookup under way
                     \* has made, or those of the last one

router == <<groups, rules, lookups>>
source == <<asked, sources, frames, result>>
fetchVars == <<router, source, request>>

R == INSTANCE Router WITH Configs <- {config.routes : config \in Configs}
M == INSTANCE Merge WITH Configs <- {config.sources : config \in Configs}

IsSequence(s) == s \in Seq({s[i] : i \in DOMAIN s})

\* Texts are of characters, of which none stands for a quoted brace.
Texts == Seq(STRING \ M!Quotes)
IsArguments(args) == \A v \in DOMAIN args : v \in Texts /\ args[v] \in Texts

\* What a configuration's file says, and what is captured of a key.
IsRule(rule) ==
    /\ rule.key \in Seq(STRING)
    /\ rule.args.kind # "inherit" => IsArguments(rule.args.args)

IsSource(src) ==
    IF src.kind = "merge"
    THEN IsSequence(src.rules) /\ \A n \in 1 .. Len(src.rules) : IsRule(src.rules[n])
    ELSE src.template \in Texts

ASSUME FetchAssumption ==
    /\ \A config \in Configs :
          /\ IsFiniteSet(DOMAIN config.routes)
          /\ \A group \in DOMAIN config.routes :
                LET routes == config.routes[group] IN
                /\ IsSequence(routes)
                /\ \A i \in 1 .. Len(routes) :
                      \A key \in Keys : IsArguments(Captures(routes[i].pattern, key))
          /\ \A name \in DOMAIN config.sources : IsSource(config.sources[name])
    /\ Paths \subseteq Seq(STRING)

Init ==
    /\ \E config \in Configs : groups = config.routes /\ sources = config.sources
    /\ R!Init
    /\ M!Init
    /\ request = M!EmptyMap

\* The key's source, if it is configured, is called with what the route captures.
Ask(key) ==
    /\ R!FirstMatch(key) # 0
    /\ R!Lookup(key)
    /\ LET route == rules[R!FirstMatch(key)] IN
         /\ request' = Captures(route.pattern, key)
         /\ M!Start(route.source, request')

AskNoRoute(key) ==
    /\ ~M!Running
    /\ R!FirstMatch(key) = 0
    /\ R!Lookup(key)
    /\ result' = M!NoValue
    /\ UNCHANGED <<asked, sources, frames, request>>

Call == M!Step /\ UNCHANGED <<router, request>>

\* The service's timeout drops the call at an await.
Timeout == M!Awaiting /\ M!Abort /\ UNCHANGED <<router, request>>

Restart == R!Restart /\ M!Abort /\ UNCHANGED request

Next ==
    \/ \E key \in Keys : Ask(key) \/ AskNoRoute(key)
    \/ Call \/ Timeout \/ Restart

Spec == Init /\ [][Next]_fetchVars

\* Sources answer in the end.  Nothing of the timeout, which also ends a call.
FairSpec == Spec /\ WF_fetchVars(Call)

-----------------------------------------------------------------------------
(* See Router: a key's source is that of a group's first match.            *)
GroupDecides == R!GroupDecides

(* See Merge: a merge's object is what its rules leave standing.           *)
MergedIsStanding == M!MergedIsStanding

(* See Merge: calls of sources return.                                     *)
MergeFinishes == M!MergeFinishes

(* What a source asks for is its template, expanded with what the route    *)
(* has captured of the key, or with what the rules of the merges on the    *)
(* way have made of that: however placeholders nest and whether braces     *)
(* match or not, whatever other rules have replaced before, in these       *)
(* merges or in those they called, and with a key's own braces left as     *)
(* they are (replace_placeholders and the sources' call).  Only {variable} *)
(* is a placeholder: the %(variable) that src/README.md:152-238 shows for  *)
(* the url of an HTTP source and the key of an AWS secret is asked for as  *)
(* it stands, which is not what that document promises.                    *)
AskedIsExpansion ==
    asked # M!NoCall =>
        \E leaf \in DOMAIN sources :
            /\ frames # <<>> => leaf = M!Rule(M!Innermost).source
            /\ frames = <<>> => \E l \in lookups : l.source = leaf
            /\ sources[leaf].kind = asked.kind
            /\ asked.text = M!Expanded(sources[leaf].template, M!Handed(request))
=============================================================================
