-------------------------- MODULE GraphqlDocuments ---------------------------
(***************************************************************************)
(* Texts that are parsed, printed and minified (fuel-indexer-graphql/parser):*)
(* parse_query and parse_schema, Document::format and minify_query.         *)
(***************************************************************************)
EXTENDS GraphqlSchemaSyntax

CONSTANT Sources    \* [language : {"query", "schema"}, words]

VARIABLES
    source,     \* the text as it was written
    handled,      \* what was done to it: "written", "parsed", "formatted" or "minified"
    tree,       \* the parsed document, none ({}) or one
    printed,    \* the tokens of the text that format made
    spaces      \* for each token of the minified text whether a space follows

documentVars == <<source, handled, tree, printed, spaces>>

ParsedText(language, tokens) ==
    IF language = "query" THEN ParseDocument(QueryGrammar, tokens, QueryDefinition)
    ELSE ParseDocument(SchemaGrammar, tokens, SchemaDefinition)

FormattedText(language, document) ==
    Joined([i \in DOMAIN document |->
              IF language = "query" THEN Printed(document[i], 0) ELSE PrintSchema(document[i])])

DocumentsInit ==
    /\ source \in Sources
    /\ handled = "written" /\ tree = {} /\ printed = <<>> /\ spaces = <<>>

ParseSource ==
    /\ handled = "written"
    /\ handled' = "parsed"
    /\ tree' = ParsedText(source.language, Tokenized(source.words))
    /\ UNCHANGED <<source, printed, spaces>>

FormatDocument ==
    /\ handled = "parsed"
    /\ handled' = "formatted"
    /\ \E document \in tree : printed' = FormattedText(source.language, document)
    /\ UNCHANGED <<source, tree, spaces>>

\* It fails on what the tokenizer fails on and does not parse the query.
MinifySource ==
    /\ handled = "parsed" /\ source.language = "query"
    /\ \E ts \in {TokenStream(Tokenized(source.words))} :
           /\ \A i \in DOMAIN ts : ts[i].kind # "Error"
           /\ spaces' = Minified(ts)
    /\ handled' = "minified"
    /\ UNCHANGED <<source, tree, printed>>

DocumentsNext == ParseSource \/ FormatDocument \/ MinifySource

DocumentsSpec == DocumentsInit /\ [][DocumentsNext]_documentVars

(***************************************************************************)
(* Properties.                                                              *)
(***************************************************************************)
\* What a document must avoid to be printed as it was: numbers that are printed
\* as other numbers, characters that are escaped in decimal and read in
\* hexadecimal, and texts of several lines that a block string does not keep:
\* without a newline at the end or with a blank last line, with lines of white
\* space, all indented, or with a carriage return before a newline.
KeptString(s) ==
    IF (\A i \in DOMAIN s : s[i] # Newline) \/ \E i \in DOMAIN s : s[i] # Newline /\ ~IsPrintable(s[i])
    THEN \A i \in DOMAIN s : s[i] < 10 \/ s[i] = Newline \/ IsPrintable(s[i])
    ELSE /\ s[Len(s)] = Newline
         /\ \A i \in 2 .. Len(s) : s[i] = Newline => s[i - 1] # Return
         /\ ~IsBlank(LinesOf(s)[Len(LinesOf(s))])
         /\ \A i \in DOMAIN LinesOf(s) : IsBlank(LinesOf(s)[i]) => LinesOf(s)[i] = <<>>
         /\ \E i \in DOMAIN LinesOf(s) : LinesOf(s)[i] # <<>> /\ LinesOf(s)[i][1] \notin White

KeptToken(token) ==
    /\ token.kind = "FloatValue" => token.value = "fraction"
    /\ token.kind \in {"StringValue", "BlockString"} => KeptString(Content(token))

\* The two definitions that lose a part: a subscription without a name its
\* variables, and a directive without locations the `on` that it needs.
KeptDefinition(d) ==
    /\ d.node = "subscription" => d.name # {} \/ d.variables = <<>>
    /\ d.node = "described" => (d.of.node = "directive definition" => d.of.locations # <<>>)

IsKept(document) ==
    /\ \A i \in DOMAIN source.words : KeptToken(TokenOf(source.words[i]))
    /\ \A i \in DOMAIN document : KeptDefinition(document[i])

\* Invariant: printing a document and parsing what was printed gives the document
\* again, whatever it holds but for the numbers, strings and definitions named
\* above. `format` of either language and the grammar were written apart, and the
\* round-trip tests compare a file each with its own text.
RoundTrips ==
    handled = "formatted" => \A document \in tree : IsKept(document) => ParsedText(source.language, printed) = tree

\* Invariant: a minified query is read as the same tokens: where minify_query puts
\* no space between two tokens of a query that parses, the tokenizer does not take
\* them for one.
MinifiedMeansSame ==
    (handled = "minified" /\ tree # {}) =>
        \A i \in DOMAIN spaces : spaces[i] \/ ~Clings(TokenOf(source.words[i]), TokenOf(source.words[i + 1]))
=============================================================================
