----------------------------- MODULE Placeholders -----------------------------
(***************************************************************************)
(* replace_placeholders of platypus/src/lib.rs, which every source runs    *)
(* over its template, and a merge over the arguments of its rules: one     *)
(* pass with a stack of the placeholders that are open.  A text is a       *)
(* sequence of symbols, of which only the two braces are told apart; the   *)
(* replacements are a function from names to texts.                        *)
(***************************************************************************)
EXTENDS Naturals, Sequences, SequencesExt

\* The pass before the first symbol: what is outside of any placeholder so
\* far, and the names of the open placeholders, innermost last.
Unread == [ret |-> <<>>, placeholders |-> <<>>]

\* push to the innermost open placeholder, or to the result.
Push(pass, symbols) ==
    IF pass.placeholders = <<>>
    THEN [pass EXCEPT !.ret = @ \o symbols]
    ELSE [pass EXCEPT !.placeholders[Len(pass.placeholders)] = @ \o symbols]

Open(pass) == [pass EXCEPT !.placeholders = Append(@, <<>>)]

\* Faulty variant: what replaces a nested placeholder goes to the result.
CloseOutside(pass, replacements) ==
    LET name == Last(pass.placeholders) IN
    IF pass.placeholders = <<>> THEN pass
    ELSE [ret |-> pass.ret \o (IF name \in DOMAIN replacements
                               THEN replacements[name] ELSE <<>>),
          placeholders |-> Front(pass.placeholders)]

\* The innermost placeholder is replaced, an unknown one by nothing; a brace
\* that closes nothing is left out.
Close(pass, replacements) ==
    LET name == Last(pass.placeholders)
        outer == [pass EXCEPT !.placeholders = Front(@)]
    IN  IF pass.placeholders = <<>> THEN pass
        ELSE IF name \notin DOMAIN replacements THEN outer
        ELSE Push(outer, replacements[name])

Read(pass, ch, replacements) ==
    CASE ch = "{" -> Open(pass)
      [] ch = "}" -> Close(pass, replacements)
      [] OTHER    -> Push(pass, <<ch>>)

ReplacePlaceholders(text, replacements) ==
    LET pass[n \in 0 .. Len(text)] ==
            IF n = 0 THEN Unread ELSE Read(pass[n - 1], text[n], replacements)
    IN  pass[Len(text)].ret

-----------------------------------------------------------------------------
\* The reference: rewrite the leftmost innermost placeholder, again and again;
\* of an unclosed one nothing is left.  The braces of what replaces it are
\* quoted, and so never taken for those of the text.
FirstClose(t) == SelectInSeq(t, LAMBDA ch : ch = "}")
FirstOpen(t) == SelectInSeq(t, LAMBDA ch : ch = "{")

Rewrite(t, replacements) ==
    LET close == FirstClose(t)
        open == SelectLastInSubSeq(t, 1, close - 1, LAMBDA ch : ch = "{")
        name == SubSeq(t, open + 1, close - 1)
        rest == SubSeq(t, close + 1, Len(t))
    IN  IF close = 0 THEN t
        ELSE IF open = 0 THEN SubSeq(t, 1, close - 1) \o rest
        ELSE IF name \in DOMAIN replacements
        THEN SubSeq(t, 1, open - 1) \o replacements[name] \o rest
        ELSE SubSeq(t, 1, open - 1) \o rest

Rewritten(t, replacements) ==
    LET rewritten[n \in 0 .. Len(t)] ==
            IF n = 0 THEN t ELSE Rewrite(rewritten[n - 1], replacements)
        last == rewritten[Len(t)]
    IN  IF FirstOpen(last) = 0 THEN last ELSE SubSeq(last, 1, FirstOpen(last) - 1)

\* Two symbols that stand for quoted braces: no character is one of them.
Quotes == {"open", "close"}

QuoteOf(ch) == IF ch = "{" THEN "open" ELSE IF ch = "}" THEN "close" ELSE ch
QuotedBy(ch) == IF ch = "open" THEN "{" ELSE IF ch = "close" THEN "}" ELSE ch

Quote(t) == [i \in DOMAIN t |-> QuoteOf(t[i])]
Unquote(t) == [i \in DOMAIN t |-> QuotedBy(t[i])]

Quoted(replacements) ==
    [name \in {Quote(v) : v \in DOMAIN replacements} |-> Quote(replacements[Unquote(name)])]

Expanded(t, replacements) == Unquote(Rewritten(t, Quoted(replacements)))
=============================================================================
