---------------------------------- MODULE Leaf ----------------------------------
(***************************************************************************)
(* The sources that ask nobody else in platypus: source/echo.rs, http.rs,  *)
(* file.rs, aws_secrets_manager.rs and the functions of source/mod.rs.     *)
(* Each expands its template with the request's captures, and all but echo *)
(* then ask the outside, which answers or not.                             *)
(***************************************************************************)
EXTENDS Placeholders

CONSTANTS
    Answers,     \* JSON values that the outside may answer with
    IsUrl(_),    \* whether Url::parse accepts a text
    JsonOf(_)    \* what serde_json makes of a text; if it does not parse, the
                 \* text as a string

\* JSON values are objects, and scalars, which have another kind.
Object(fields) == [kind |-> "object", fields |-> fields]
NoValue == [kind |-> "none"]

VARIABLE asked   \* the call of such a source in progress: the source's kind
                 \* and what it has built from its template, or NoCall

NoCall == [kind |-> "nothing"]

-----------------------------------------------------------------------------
(* What each kind of source may respond with once its text is built.       *)

\* The text itself, which a merge that asked for it parses like any other.
EchoResponses(text) == {JsonOf(text)}

\* A text that is no URL is not asked for.  The body of any response is a
\* value, also that of an error status.
HttpResponses(text) == IF IsUrl(text) THEN Answers \cup {NoValue} ELSE {NoValue}

FileResponses == Answers \cup {NoValue}

\* No connection, a refused request or an empty secret: no value.
AwsResponses == Answers \cup {NoValue}

FunctionResponses == Answers \cup {NoValue}

Responses ==
    CASE asked.kind = "echo" -> EchoResponses(asked.text)
      [] asked.kind = "http" -> HttpResponses(asked.text)
      [] asked.kind = "file" -> FileResponses
      [] asked.kind = "aws" -> AwsResponses
      [] asked.kind = "function" -> FunctionResponses

\* Whether the call is at an await of its own.
Awaiting ==
    /\ asked # NoCall
    /\ asked.kind # "echo"
    /\ asked.kind = "http" => IsUrl(asked.text)

-----------------------------------------------------------------------------
Ask(leaf, captures) ==
    /\ asked = NoCall
    /\ asked' = [kind |-> leaf.kind,
                 text |-> ReplacePlaceholders(leaf.template, captures)]

\* The call returns, or is dropped.
Drop == asked' = NoCall
=============================================================================
