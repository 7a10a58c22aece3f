-------------------------------- MODULE MCFetch --------------------------------
(* Every two groups of up to two routes to leaves; one route to every merge *)
(* of three rules whose keys overlap, to every merge of two rules of which  *)
(* some are an echo of an object's text, and to a merge of merges; and one  *)
(* to an echo of every template.                                            *)
EXTENDS Fetch, TLC

CONSTANT MaxTemplate    \* bound: symbols in a template

MCKeys == {"k1", "k2", "k3"}

\* A pattern is the set of keys that it matches.  It captures names that its
\* templates nest, one with an empty text, one with a placeholder's and one
\* with an object's.
MCMatches(pattern, key) == key \in pattern
MCCaptures(pattern, key) ==
    [name \in {<<"$key">>, <<"a">>, <<"b">>, <<"a", "a">>, <<"json">>} |->
        CASE name = <<"$key">> -> <<key>>
          [] name = <<"a">> -> <<"b">>
          [] name = <<"b">> -> <<"{", "a", "}", "b">>
          [] name = <<"json">> -> <<"{", "a:1", "}">>
          [] OTHER -> <<>>]

MCIsUrl(text) == text # <<>>

Leaf(kind, template) == [kind |-> kind, template |-> template]
MergeOf(list) == [kind |-> "merge", rules |-> list]
Inherit == [kind |-> "inherit"]
Replace(args) == [kind |-> "replace", args |-> args]
RuleOf(key, from, args) == [key |-> key, source |-> from, args |-> args]
RouteOf(pattern, to) == [pattern |-> pattern, source |-> to]

\* {x}
Variable(x) == <<"{", x, "}">>

Leaves ==
    "http" :> Leaf("http", Variable("url"))
    @@ "file" :> Leaf("file", <<"/">> \o Variable("$key"))
    @@ "aws" :> Leaf("aws", <<"%(a)">> \o Variable("a") \o Variable("a"))
    @@ "function" :> Leaf("function", <<>>)

MCPaths == {<<>>, <<"a">>, <<"b">>, <<"a", "b">>, <<"a", "b", "a">>}

FlatMerges ==
    {"flat" :> MergeOf(list) @@ Leaves :
        list \in [1 .. 3 -> {RuleOf(path, "file", Inherit) : path \in MCPaths}]}

\* Merges of what a key says and of what a file does.
EchoMerges ==
    {"flat" :> MergeOf(list)
     @@ "echo" :> Leaf("echo", Variable("json"))
     @@ Leaves :
        list \in [1 .. 2 -> {RuleOf(path, from, Inherit) :
                                path \in MCPaths, from \in {"echo", "file"}}]}

NestedMerges ==
    "outer" :> MergeOf(<<
        RuleOf(<<"a", "b">>, "inner", Replace(<<"url">> :> <<"x">> \o Variable("a")
                                              @@ <<"b">> :> Variable("{") \o <<"}">>)),
        RuleOf(<<"b">>, "removed", Inherit),
        RuleOf(<<"a">>, "aws", Inherit)>>)
    @@ "inner" :> MergeOf(<<
        RuleOf(<<"b">>, "http", Inherit),
        RuleOf(<<"b", "a">>, "least", Replace(<<"url">> :> Variable("url") \o <<"y">>))>>)
    @@ "least" :> MergeOf(<<
        RuleOf(<<"a">>, "http", Inherit),
        RuleOf(<<"b">>, "http", Replace(<<"a">> :> Variable("url")))>>)
    @@ Leaves

Echo(template) == "echo" :> Leaf("echo", template)
Templates == UNION {[1 .. n -> {"a", "{", "}"}] : n \in 0 .. MaxTemplate}

To(name) == [group \in {"g1"} |-> <<RouteOf({"k1"}, name)>>]

MCRoutes ==
    {RouteOf({"k1", "k2"}, to) : to \in {"aws", "function"}}
        \cup {RouteOf({"k1"}, "aws"), RouteOf({"k2", "k3"}, "function")}
MCGroups == [{"g1", "g2"} -> {<<>>} \cup UNION {[1 .. n -> MCRoutes] : n \in 1 .. 2}]

MCConfigs ==
    {[routes |-> To("outer"), sources |-> NestedMerges]}
        \cup [routes : {To("flat")}, sources : FlatMerges \cup EchoMerges]
        \cup [routes : {To("removed")}, sources : {Leaves}]
        \cup [routes : {To("echo")}, sources : {Echo(t) : t \in Templates}]
        \cup [routes : MCGroups, sources : {Leaves}]

\* Every path as deep as a merge of leaves, and the deepest of the others.
MCPathsSeen ==
    UNION {[1 .. n -> {"a", "b"}] : n \in 0 .. 5}
        \cup {<<"a", "b", "b", "a", "a", "a">>, <<"a", "b", "b", "a", "a", "a", "b">>,
              <<"a", "b", "b", "a", "b", "a">>, <<"a", "b", "b", "a", "b", "a", "b">>,
              <<"a", "b", "b", "a", "a", "b">>, <<"a", "b", "b", "a", "b", "b">>}

\* What the outside may say: text, {}, {"b": 2} and {"a": {"b": 3}}.
Text(n) == [kind |-> "scalar", scalar |-> <<n>>]
Json(fields) == [kind |-> "object", fields |-> fields]
MCAnswers ==
    {Text(1), Json(<<>>), Json("b" :> Text(2)), Json("a" :> Json("b" :> Text(3)))}

\* Of the texts that occur, {} and {"a": 1} are objects.
MCJsonOf(text) ==
    CASE text = <<"{", "}">> -> Json(<<>>)
      [] text = <<"{", "a:1", "}">> -> Json("a" :> Text(1))
      [] OTHER -> [kind |-> "scalar", scalar |-> text]
=============================================================================
