--------------------------------- MODULE Merge ---------------------------------
(***************************************************************************)
(* The merge source, platypus/src/source/merge.rs: its rules call other    *)
(* sources one after the other, merges among them, and each answer is      *)
(* grafted onto one JSON object at the rule's key.                         *)
(***************************************************************************)
EXTENDS Leaf, FiniteSets

CONSTANTS
    Configs,     \* configurations: every source by its name, a leaf by its
                 \* kind and template, a merge by its rules
    Paths        \* the paths at which a merged object is looked at

EmptyMap == <<>>

VARIABLES
    sources,     \* the configuration
    frames,      \* the merges being called, the innermost last
    result       \* the value of the last response, or NoValue

mergeVars == <<asked, sources, frames, result>>

IsMerge(source) == source \in DOMAIN sources /\ sources[source].kind = "merge"
IsLeaf(source) == source \in DOMAIN sources /\ sources[source].kind # "merge"
Rules(source) == sources[source].rules

\* A call of a merge: parts has what the source of each rule done so far
\* responded with; ret is merged_results.
Call(source, captures) ==
    [source |-> source, captures |-> captures, parts |-> <<>>, ret |-> EmptyMap]

Init ==
    /\ sources \in Configs
    /\ asked = NoCall
    /\ frames = <<>>
    /\ result = NoValue

-----------------------------------------------------------------------------
\* The map that set_nested_value is called with next: the one that is there,
\* or a new one.
Enter(value, name) ==
    IF value.kind # "object" THEN value
    ELSE IF name \in DOMAIN value.fields THEN value.fields[name]
    ELSE Object(EmptyMap)

Insert(value, name, entry) ==
    Object([n \in DOMAIN value.fields \cup {name} |->
               IF n = name THEN entry ELSE value.fields[n]])

\* Faulty variant: a scalar on the way is overwritten by an object.
SetNestedForced(map, path, value) ==
    LET depth == Len(path)
        nested[n \in 1 .. depth] ==
            IF n = 1 THEN Object(map)
            ELSE LET there == Enter(nested[n - 1], path[n - 1]) IN
                 IF there.kind # "object" THEN Object(EmptyMap) ELSE there
        set[n \in 0 .. depth] ==
            IF n = 0 THEN value
            ELSE Insert(nested[depth - n + 1], path[depth - n + 1], set[n - 1])
    IN  IF depth = 0 THEN map ELSE set[depth].fields

\* The calls of set_nested_value, each for one name of the path: what the n-th
\* is given, and what the last n of them leave behind.  One that is given no
\* map does nothing.
SetNested(map, path, value) ==
    LET depth == Len(path)
        nested[n \in 1 .. depth] ==
            IF n = 1 THEN Object(map) ELSE Enter(nested[n - 1], path[n - 1])
        set[n \in 0 .. depth] ==
            IF n = 0 THEN value
            ELSE Insert(nested[depth - n + 1], path[depth - n + 1], set[n - 1])
    IN  IF depth = 0 \/ \E n \in 1 .. depth : nested[n].kind # "object" THEN map
        ELSE set[depth].fields

\* RuleArgs: Replace makes a request with the arguments as its only captures.
CapturesFor(args, captures) ==
    IF args.kind = "inherit" THEN captures
    ELSE [v \in DOMAIN args.args |-> ReplacePlaceholders(args.args[v], captures)]

-----------------------------------------------------------------------------
Running == frames # <<>> \/ asked # NoCall
Innermost == Last(frames)
Done(frame) == Len(frame.parts) = Len(Rules(frame.source))
Rule(frame) == Rules(frame.source)[Len(frame.parts) + 1]
ArgsOf(frame) == CapturesFor(Rule(frame).args, frame.captures)

\* The source of a key's route is called, if there is one.
Start(source, captures) ==
    /\ ~Running
    /\ IF IsLeaf(source) THEN Ask(sources[source], captures) ELSE UNCHANGED asked
    /\ frames' = IF IsMerge(source) THEN <<Call(source, captures)>> ELSE <<>>
    /\ result' = NoValue
    /\ UNCHANGED sources

\* The server stops, or the timeout drops the call.
Abort ==
    /\ Drop
    /\ frames' = <<>>
    /\ result' = NoValue
    /\ UNCHANGED sources

\* Faulty variant: the replaced request is kept for the rules that follow.
TakeLeaks(frame, value) ==
    [frame EXCEPT
        !.captures = ArgsOf(frame),
        !.parts = Append(@, value),
        !.ret = IF value = NoValue THEN @ ELSE SetNested(@, Rule(frame).key, value)]

\* What call does with the response to the rule at hand.
Take(frame, value) ==
    [frame EXCEPT
        !.parts = Append(@, value),
        !.ret = IF value = NoValue THEN @ ELSE SetNested(@, Rule(frame).key, value)]

AtRule == frames # <<>> /\ asked = NoCall /\ ~Done(Innermost)

\* The rule's source is not configured.
SkipRule ==
    /\ AtRule
    /\ Rule(Innermost).source \notin DOMAIN sources
    /\ frames' = Front(frames) \o <<Take(Innermost, NoValue)>>
    /\ UNCHANGED <<asked, sources, result>>

CallLeaf ==
    /\ AtRule
    /\ IsLeaf(Rule(Innermost).source)
    /\ Ask(sources[Rule(Innermost).source], ArgsOf(Innermost))
    /\ UNCHANGED <<sources, frames, result>>

CallMerge ==
    /\ AtRule
    /\ IsMerge(Rule(Innermost).source)
    /\ frames' = Append(frames, Call(Rule(Innermost).source, ArgsOf(Innermost)))
    /\ UNCHANGED <<asked, sources, result>>

\* A leaf returns, to its merge or to the lookup.
LeafReturns ==
    /\ asked # NoCall
    /\ \E value \in Responses :
          IF frames = <<>>
          THEN result' = value /\ UNCHANGED frames
          ELSE frames' = Front(frames) \o <<Take(Innermost, value)>> /\ UNCHANGED result
    /\ Drop
    /\ UNCHANGED sources

\* Faulty variant: a merge that placed nothing has no value and the caller
\* is left at the rule that called it.
ReturnIfAny ==
    /\ frames # <<>> /\ asked = NoCall /\ Done(Innermost)
    /\ LET value == Object(Innermost.ret)
           callers == Front(frames)
       IN  IF callers = <<>>
           THEN frames' = <<>> /\ result' = value
           ELSE /\ frames' = IF Innermost.ret = EmptyMap THEN callers
                             ELSE Front(callers) \o <<Take(Last(callers), value)>>
                /\ UNCHANGED result
    /\ UNCHANGED <<asked, sources>>

\* The response always has a value, be it the empty object.
Return ==
    /\ frames # <<>> /\ asked = NoCall /\ Done(Innermost)
    /\ LET value == Object(Innermost.ret)
           callers == Front(frames)
       IN  IF callers = <<>>
           THEN frames' = <<>> /\ result' = value
           ELSE /\ frames' = Front(callers) \o <<Take(Last(callers), value)>>
                /\ UNCHANGED result
    /\ UNCHANGED <<asked, sources>>

Step == SkipRule \/ CallLeaf \/ LeafReturns \/ CallMerge \/ Return

-----------------------------------------------------------------------------
\* The values at a path into a value: one or none.
ValuesAt(value, path) ==
    LET at[n \in 0 .. Len(path)] ==
            IF n = 0 THEN {value}
            ELSE {object.fields[path[n]] :
                     object \in {v \in at[n - 1] :
                                   v.kind = "object" /\ path[n] \in DOMAIN v.fields}}
    IN  at[Len(path)]

ScalarsIn(values) == {v \in values : v.kind # "object"}

\* The reference: at a path is what the last of the rules in force has put
\* there whose key leads there.
Key(frame, n) == Rules(frame.source)[n].key

Put(frame, inForce, path) ==
    LET leading == {n \in inForce : IsPrefix(Key(frame, n), path)}
        last == Max(leading)
    IN  IF leading = {} THEN {}
        ELSE ValuesAt(frame.parts[last],
                      SubSeq(path, Len(Key(frame, last)) + 1, Len(path)))

\* A rule is not in force if its source gave nothing, if it has no key, or if
\* its key leads through a scalar that rules before it have put there.
Ineffective(frame, inForce, n) ==
    \/ frame.parts[n] = NoValue
    \/ Key(frame, n) = <<>>
    \/ \E i \in 1 .. Len(Key(frame, n)) - 1 :
          ScalarsIn(Put(frame, inForce, SubSeq(Key(frame, n), 1, i))) # {}

InForce(frame) ==
    LET inForce[n \in 0 .. Len(frame.parts)] ==
            IF n = 0 THEN {}
            ELSE inForce[n - 1] \cup
                     {m \in {n} : ~Ineffective(frame, inForce[n - 1], m)}
    IN  inForce[Len(frame.parts)]

(* Whichever sources fail, and however the rules' keys overlap, the merged *)
(* object has the scalars that its rules' answers leave standing, no other *)
(* and none elsewhere (set_nested_value and call).                         *)
MergedIsStanding ==
    \A n \in 1 .. Len(frames) : LET inForce == InForce(frames[n]) IN
        \A path \in Paths :
            ScalarsIn(ValuesAt(Object(frames[n].ret), path))
                = ScalarsIn(Put(frames[n], inForce, path))

\* What the call in progress is given, by the reference.
Handed(captures) ==
    LET handed[n \in 1 .. Len(frames) + 1] ==
            IF n = 1 THEN captures
            ELSE LET args == Rule(frames[n - 1]).args IN
                 IF args.kind = "inherit" THEN handed[n - 1]
                 ELSE [v \in DOMAIN args.args |-> Expanded(args.args[v], handed[n - 1])]
    IN  handed[Len(frames) + 1]

(* Merges of merges, of missing sources and of sources that fail return to *)
(* their callers (call).  This is for configurations in which no merge     *)
(* reaches itself: one that does calls itself without end.                 *)
MergeFinishes == Running ~> ~Running
=============================================================================
