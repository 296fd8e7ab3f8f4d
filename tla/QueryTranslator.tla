--------------------------- MODULE QueryTranslator ---------------------------
(***************************************************************************)
(* What the gateway makes of a LogQL or TraceQL query (translateLogQL,     *)
(* translateTraceQL and the metadata lookup of backend/client.go): a SQL   *)
(* SELECT from a table of the tenant under a conjunction of conditions.    *)
(* The translators do not parse; they look for operators and separators in *)
(* the text.  The text is a sequence of symbols: names, values and the     *)
(* punctuation they look for.  White space is left out, and so are the     *)
(* quotes around a name or a value, which are cut off in any case; `and'   *)
(* is the one in lower case, the only one that is found.                   *)
(*                                                                         *)
(* What a query asks for is defined apart from the code, on the structure  *)
(* the text was written from, and what the SELECT returns is defined on    *)
(* rows; the properties compare the two.                                   *)
(***************************************************************************)
EXTENDS Integers, Sequences, FiniteSetsExt, SequencesExt

CONSTANTS
  Symbol,     \* what texts are made of
  Name,       \* labels of log lines, attributes of spans
  Column,     \* columns of the table of traces
  Number,     \* plain values in increasing order, a sequence of symbols
  Stream,     \* trace streams
  Text,       \* what labels and attributes hold: sequences of symbols
  Matches,    \* by operator of SQL, the <<word, value>> such that a message with the word
              \* matches the pattern made of the value: ILIKE ignores case, reads _ and % as
              \* wildcards, and is made of a value without its blanks and quotes at the ends
  Query       \* [lang, text, conds, filters]: a text and what it was written from

VARIABLES
  query,      \* the query and
  own,        \* whether its tenant has tables of its own in the metadata
  stage,      \* where the translator is
  table,      \* the table it selects from
  rest,       \* text not read yet of the selector, or of the conditions
  pipeline,   \* text not read yet behind the selector
  where       \* the conditions so far

vars == <<query, own, stage, table, rest, pipeline, where>>

Plain == ToSet(Number)
Absent == <<"NULL">>

NE == <<"!", "=">>
EQ == <<"=">>
GT == <<">">>
LT == <<"<">>

----------------------------------------------------------------------------
\* Text

\* strings.Contains, strings.Index, strings.SplitN(s, sep, 2)
At(s, sep) == {i \in 1..(Len(s) - Len(sep) + 1) : SubSeq(s, i, i + Len(sep) - 1) = sep}
Has(s, sep) == At(s, sep) # {}
Before(s, sep) == SubSeq(s, 1, Min(At(s, sep)) - 1)
After(s, sep) == SubSeq(s, Min(At(s, sep)) + Len(sep), Len(s))

\* One turn of a loop over strings.Split(s, sep): the next part and what is behind it.
Part(s, sep) == IF Has(s, sep) THEN Before(s, sep) ELSE s
Behind(s, sep) == IF Has(s, sep) THEN After(s, sep) ELSE <<>>

\* strings.Trim(s, "\"`'"), for each of these quotes
Trim(s) ==
  LET kept == {i \in 1..Len(s) : s[i] # "'"}
  IN IF kept = {} THEN <<>> ELSE SubSeq(s, Min(kept), Max(kept))

----------------------------------------------------------------------------
\* Conditions

Condition(of, name, op, value) == [of |-> of, name |-> name, op |-> op, value |-> value]

\* sanitizeSQLIdentifier cuts the quotes off; it has no blanks to replace here.
Sanitize(name) == Trim(name)

\* What SQL reads where escapeSQLValue wrote: the quotes at the ends are cut off, the value's
\* own too; those inside are doubled, and a doubled quote is read as one.
Escape(value) == Trim(value)

\* A condition on a value in quotes, and one on what is behind the separator as it stands
Quoted(of, part, sep, op) ==
  {Condition(of, Sanitize(Before(part, sep)), op, Escape(After(part, sep)))}
Plainly(part, sep, op) ==
  {Condition("column", Sanitize(Before(part, sep)), op, After(part, sep))}

\* A mutant of Matcher: the operators are looked for in the other order.
MatcherEqualsFirst(part) ==
  CASE Has(part, EQ) -> Quoted("label", part, EQ, "=")
    [] OTHER -> {}

\* A matcher of the selector: `!=' is looked for before `='; other operators are not known,
\* so =~ is read as = with a value that starts with a tilde, and !~ is dropped.
Matcher(part) ==
  CASE Has(part, NE) -> Quoted("label", part, NE, "<>")
    [] ~Has(part, NE) /\ Has(part, EQ) -> Quoted("label", part, EQ, "=")
    [] OTHER -> {}

\* A condition of a trace query.  Equality reads the attributes, order reads a column.
TraceCondition(part) ==
  CASE Has(part, NE) -> Quoted("attribute", part, NE, "<>")
    [] ~Has(part, NE) /\ Has(part, EQ) -> Quoted("attribute", part, EQ, "=")
    [] ~Has(part, EQ) /\ Has(part, GT) -> Plainly(part, GT, ">")
    [] ~Has(part, EQ) /\ ~Has(part, GT) /\ Has(part, LT) -> Plainly(part, LT, "<")
    [] OTHER -> {}

\* A mutant of Filters: one symbol only.
FiltersOneSymbol(s) ==
  {<<i, 1>> : i \in {j \in 1..(Len(s) - 2) :
     s[j] = "|" /\ s[j + 1] \in {"=", "!", "~"} /\ s[j + 2] \in Plain}}

\* A match of logPipelineRegex: a bar, one or two of = ! ~, and a value.
Match(s, i, k) ==
  /\ i + k + 1 <= Len(s) /\ s[i] = "|" /\ s[i + k + 1] \in Plain
  /\ \A j \in 1..k : s[i + j] \in {"=", "!", "~"}

Filters(s) == {m \in (1..Len(s)) \X (1..2) : Match(s, m[1], m[2])}

SqlOperator ==
  {<<EQ, "ILIKE">>, <<NE, "NOT ILIKE">>, <<(<<"~">>), "~">>, <<(<<"!", "~">>), "!~">>}

FilterCondition(op, value) ==
  {Condition("message", <<>>, o[2], <<value>>) : o \in {x \in SqlOperator : x[1] = op}}

----------------------------------------------------------------------------
\* The translation

Init ==
  /\ query \in Query
  /\ own \in BOOLEAN
  /\ stage = "lookup"
  /\ table = "shared"
  /\ rest = <<>> /\ pipeline = <<>> /\ where = {}

Fail ==
  /\ stage' = "failed"
  /\ UNCHANGED <<query, own, table, rest, pipeline, where>>

\* resolveTenantMetadata: a tenant without metadata, or with an empty column, gets the
\* default table.
Resolve ==
  /\ stage = "lookup"
  /\ table' = IF own THEN "own" ELSE "shared"
  /\ stage' = "open"
  /\ UNCHANGED <<query, own, rest, pipeline, where>>

\* A mutant of LookupError: the defaults are used.
LookupErrorIgnored ==
  /\ stage' = "open"
  /\ UNCHANGED <<query, own, table, rest, pipeline, where>>

\* Any other error of the lookup ends the query.
LookupError == Fail

LookupFails == stage = "lookup" /\ LookupError

\* An empty query, a selector that is not closed, a trace query without stream.
Malformed(q) ==
  CASE q.lang = "logql" ->
         q.text = <<>> \/ (IsPrefix(<<"{">>, q.text) /\ ~Has(q.text, <<"}">>))
    [] OTHER -> Len(q.text) < 2 \/ ~IsPrefix(<<"from">>, q.text)

Refuse ==
  /\ stage = "open" /\ Malformed(query)
  /\ Fail

\* translateLogQL: cut the selector off at the first closing brace.
OpenSelector ==
  /\ stage = "open" /\ query.lang = "logql" /\ ~Malformed(query)
  /\ IF IsPrefix(<<"{">>, query.text)
     THEN /\ rest' = Tail(Before(query.text, <<"}">>))
          /\ pipeline' = After(query.text, <<"}">>)
     ELSE /\ rest' = <<>>
          /\ pipeline' = query.text
  /\ stage' = "selector"
  /\ UNCHANGED <<query, own, table, where>>

ReadMatcher ==
  /\ stage = "selector" /\ rest # <<>>
  /\ where' = where \cup Matcher(Part(rest, <<",">>))
  /\ rest' = Behind(rest, <<",">>)
  /\ UNCHANGED <<query, own, stage, table, pipeline>>

\* The next match of the regular expression; the text between matches is skipped.
ReadFilter ==
  /\ stage = "selector" /\ rest = <<>> /\ Filters(pipeline) # {}
  /\ LET i == Min({m[1] : m \in Filters(pipeline)})
         k == Max({m[2] : m \in {n \in Filters(pipeline) : n[1] = i}})
     IN /\ where' = where \cup FilterCondition(SubSeq(pipeline, i + 1, i + k), pipeline[i + k + 1])
        /\ pipeline' = SubSeq(pipeline, i + k + 2, Len(pipeline))
  /\ UNCHANGED <<query, own, stage, table, rest>>

\* translateTraceQL: the stream, and the text behind `where'.
OpenTrace ==
  /\ stage = "open" /\ query.lang = "traceql" /\ ~Malformed(query)
  /\ where' = {Condition("stream", <<>>, "=", Escape(<<query.text[2]>>))}
  /\ rest' = Behind(query.text, <<"where">>)
  /\ stage' = "conditions"
  /\ UNCHANGED <<query, own, table, pipeline>>

ReadCondition ==
  /\ stage = "conditions" /\ rest # <<>>
  /\ where' = where \cup TraceCondition(Part(rest, <<"and">>))
  /\ rest' = Behind(rest, <<"and">>)
  /\ UNCHANGED <<query, own, stage, table, pipeline>>

\* The SELECT; with no condition it says 1=1.
Render ==
  /\ stage \in {"selector", "conditions"} /\ rest = <<>> /\ Filters(pipeline) = {}
  /\ stage' = "done"
  /\ UNCHANGED <<query, own, table, rest, pipeline, where>>

Next ==
  \/ Resolve \/ LookupFails \/ Refuse
  \/ OpenSelector \/ ReadMatcher \/ ReadFilter
  \/ OpenTrace \/ ReadCondition
  \/ Render

Spec == Init /\ [][Next]_vars

----------------------------------------------------------------------------
\* What the SELECT returns

Row(lang) ==
  IF lang = "logql"
  THEN [table : {"own", "shared"}, label : [Name -> Text \cup {Absent}], message : SUBSET Plain]
  ELSE [table : {"own", "shared"}, stream : Stream, attribute : [Name -> Text \cup {Absent}],
        column : [Column -> Plain]]

\* What a condition reads of a row; a name the row does not have is NULL.
Read(c, row) ==
  CASE c.of = "stream" -> <<row.stream>>
    [] c.of = "label" /\ (\E n \in Name : c.name = <<n>>) -> row.label[c.name[1]]
    [] c.of = "attribute" /\ (\E n \in Name : c.name = <<n>>) -> row.attribute[c.name[1]]
    [] c.of = "column" /\ (\E n \in Column : c.name = <<n>>) -> <<row.column[c.name[1]]>>
    [] OTHER -> Absent

Rank(v) == CHOOSE i \in 1..Len(Number) : <<Number[i]>> = v
\* A message with a word that matches
Matched(op, value, row) == \E w \in row.message : <<w, value>> \in Matches[op]

Comparable(v, w) == v \in {<<n>> : n \in Plain} /\ w \in {<<n>> : n \in Plain}

Holds(c, row) ==
  LET v == Read(c, row)
  IN CASE c.op = "=" -> v # Absent /\ v = c.value
       [] c.op = "<>" -> v # Absent /\ v # c.value
       [] c.op = ">" -> Comparable(v, c.value) /\ Rank(v) > Rank(c.value)
       [] c.op = "<" -> Comparable(v, c.value) /\ Rank(v) < Rank(c.value)
       [] c.op \in {"ILIKE", "~"} -> Matched(c.op, c.value[1], row)
       [] c.op = "NOT ILIKE" -> ~Matched("ILIKE", c.value[1], row)
       [] OTHER -> ~Matched("~", c.value[1], row)

Selected(row) == row.table = table /\ \A c \in where : Holds(c, row)

----------------------------------------------------------------------------
\* What a query asks for, and the queries the translators can read

TenantTable == IF own THEN "own" ELSE "shared"

FieldOf(name, row) ==
  CASE query.lang = "logql" -> row.label[name]
    [] query.lang # "logql" /\ name \in Column -> <<row.column[name]>>
    [] OTHER -> row.attribute[name]

Means(c, row) ==
  LET v == FieldOf(c.name, row)
  IN CASE c.op \in {EQ, <<"=", "~">>} -> v = c.value
       [] c.op \in {NE, <<"!", "~">>} -> v # c.value
       [] c.op = GT -> Comparable(v, c.value) /\ Rank(v) > Rank(c.value)
       [] c.op = <<">", "=">> -> Comparable(v, c.value) /\ Rank(v) >= Rank(c.value)
       [] OTHER -> Comparable(v, c.value) /\ Rank(v) < Rank(c.value)

\* A regular expression means the same to both languages; |= asks for the value itself.
Pattern(f) == IF "=" \in ToSet(f.op) THEN "ILIKE" ELSE "~"
Names(f, row) ==
  IF Pattern(f) = "~" THEN Matched("~", f.value, row) ELSE f.value \in row.message

Excludes(f) == "!" \in ToSet(f.op)
FilterMeans(f, row) == IF Excludes(f) THEN ~Names(f, row) ELSE Names(f, row)

Asked(row) ==
  /\ row.table = TenantTable
  /\ query.lang = "traceql" => row.stream = query.text[2]
  /\ \A c \in ToSet(query.conds) : Means(c, row)
  /\ \A f \in ToSet(query.filters) : FilterMeans(f, row)

\* A condition whose value does not hold what the translator looks for before its operator,
\* and has no quote of its own at an end.
Legible(c) ==
  /\ ToSet(c.value) \cap {",", "}", "and"} = {}
  /\ c.value = Trim(c.value)
  /\ \/ c.op = EQ /\ c.name \in Name /\ ~Has(c.value, NE)
     \/ c.op = NE /\ c.name \in Name
     \/ c.op = <<"!", "~">> /\ ~Has(c.value, EQ)
     \/ c.op \in {GT, LT} /\ c.name \in Column /\ c.value \in {<<n>> : n \in Plain}

Readable == \A c \in ToSet(query.conds) : Legible(c)

\* A filter that the regular expression finds
Bar(f) == f.op[1] = "|"

\* Besides, nothing that is dropped: no !~ in the selector, no filter without its bar.
Supported ==
  /\ Readable
  /\ \A c \in ToSet(query.conds) : c.op # <<"!", "~">>
  /\ \A f \in ToSet(query.filters) : Bar(f)

\* SQL has no answer for the comparison with a label that a row does not have.
HasLabels(row) ==
  \A c \in ToSet(query.conds) : c.op = NE => FieldOf(c.name, row) # Absent

\* Words of a message that ILIKE takes for the value of a filter
LookAlikes(f, row) ==
  {w \in row.message \ {f.value} : Pattern(f) = "ILIKE" /\ <<w, f.value>> \in Matches["ILIKE"]}

\* No word of the row is mistaken for the value of a filter that asks for it,
NoneIncluded(row) ==
  \A f \in ToSet(query.filters) : ~Excludes(f) => LookAlikes(f, row) = {}

\* or of one that excludes it.
NoneExcluded(row) ==
  \A f \in ToSet(query.filters) : Bar(f) /\ Excludes(f) => LookAlikes(f, row) = {}

----------------------------------------------------------------------------
\* How a query is written

CondText(c) == <<c.name>> \o c.op \o c.value
FilterText(f) == f.op \o <<f.value>>

\* Tails(texts, sep)[j] is the text from the j-th on, with a separator between any two.
Tails(texts, sep) ==
  LET t[j \in 1..(Len(texts) + 1)] ==
        IF j > Len(texts) THEN <<>>
        ELSE texts[j] \o (IF j = Len(texts) THEN <<>> ELSE sep \o t[j + 1])
  IN t

CondTexts(conds) == [j \in 1..Len(conds) |-> CondText(conds[j])]
FilterTexts(filters) == [j \in 1..Len(filters) |-> FilterText(filters[j])]

Separator(lang) == IF lang = "logql" THEN <<",">> ELSE <<"and">>
CondTails(lang, conds) == Tails(CondTexts(conds), Separator(lang))
FilterTails(filters) == Tails(FilterTexts(filters), <<>>)

\* {conditions} filters, or the filters alone
LogText(conds, filters) ==
  <<"{">> \o CondTails("logql", conds)[1] \o <<"}">> \o FilterTails(filters)[1]

\* from stream, or from stream where conditions
TraceText(stream, conds) ==
  <<"from", stream>>
    \o (IF conds = <<>> THEN <<>> ELSE <<"where">> \o CondTails("traceql", conds)[1])

Written(q) ==
  \/ /\ q.lang = "logql"
     /\ \/ q.text = LogText(q.conds, q.filters)
        \/ q.conds = <<>> /\ q.text = FilterTails(q.filters)[1]
  \/ /\ q.lang = "traceql" /\ q.filters = <<>>
     /\ \E st \in Stream : q.text = TraceText(st, q.conds)

Punctuation ==
  {"{", "}", ",", "!", "=", "~", "<", ">", "|", "'", "and", "from", "where", "NULL"}

Conds(names, ops) == [name : names, op : ops, value : Seq(Symbol \ {"NULL"})]
LogConds == Conds(Name, {EQ, NE, <<"=", "~">>, <<"!", "~">>})
TraceConds == Conds(Name \cup Column, {EQ, NE, GT, LT, <<">", "=">>})
LogFilters ==
  [op : {<<"|", "=">>, <<"|", "!", "=">>, <<"|", "~">>, <<"|", "!", "~">>,
         <<"!", "=">>, <<"!", "~">>},
   value : Plain]

\* No name and no plain value is one of the symbols the translators look for.
SymbolAssumption ==
  /\ Punctuation \subseteq Symbol
  /\ Name \cup Column \cup Stream \cup Plain \subseteq Symbol \ Punctuation
  /\ Name \cap Column = {}

\* Every text was written from the conditions and filters it comes with, or is refused.
QueryAssumption ==
  \A q \in Query :
    /\ q.lang \in {"logql", "traceql"}
    /\ q.conds \in Seq(IF q.lang = "logql" THEN LogConds ELSE TraceConds)
    /\ q.filters \in Seq(LogFilters)
    /\ Malformed(q) \/ Written(q)

\* A message that has the value itself matches what is made of it: no value has a backslash,
\* which ILIKE takes for an escape.
MatchAssumption == \A v \in Plain : <<v, v>> \in Matches["ILIKE"]

ASSUME QueriesAreWritten == SymbolAssumption /\ QueryAssumption /\ MatchAssumption

----------------------------------------------------------------------------
\* Properties

\* Of a query written in the supported fragment, the SELECT returns no row the query does not
\* ask for, and none of another tenant's table: no operator is taken for another one, no
\* condition is lost between two separators (client.go:527-562, 600-617).  The exception are
\* rows with a word that ILIKE takes for the one a |= asks for.
SelectsOnlyWhatIsAsked ==
  stage = "done" /\ Supported =>
    \A row \in Row(query.lang) : Selected(row) /\ NoneIncluded(row) => Asked(row)

\* What the translators drop makes the answer larger and never smaller: every row a readable
\* query asks for is selected, whatever its filters, and also when the metadata of its tenant
\* cannot be read, for then there is no SELECT (client.go:181-187, 527-562, 600-617).  The
\* exceptions are rows that lack a label a `!=' names, and rows with a word that ILIKE
\* takes for the one a |!= excludes.
SelectsAllThatIsAsked ==
  stage = "done" /\ Readable =>
    \A row \in Row(query.lang) :
      Asked(row) /\ HasLabels(row) /\ NoneExcluded(row) => Selected(row)
=============================================================================
