-------------------------- MODULE MCQueryTranslator --------------------------
\* Queries of up to two conditions and one or two filters, over two names and two values,
\* with values that hold separators and operators, or a quote at an end.  ILIKE takes "2" for
\* "1", as it takes "Error" for "error", and the regular
\* expression "2" matches both values, "1" none.
EXTENDS QueryTranslator

MCNumber == <<"1", "2">>
MCText == {<<"1">>, <<"2">>, <<"1", "=", "2">>, <<"1", "!", "=", "2">>, <<"1", "'">>}
MCMatches ==
  [op \in {"ILIKE", "~"} |->
     IF op = "~" THEN {<<"1", "2">>, <<"2", "2">>} ELSE {<<"1", "1">>, <<"2", "1">>, <<"2", "2">>}]
MCSymbol == Punctuation \cup Name \cup Column \cup Stream \cup Plain
Tricky == {<<"1", ",", "2">>, <<"1", "}", "2">>}

Some(names, ops, values) == [name : names, op : ops, value : values]
MCLogConds == Some(Name, {EQ, NE, <<"=", "~">>, <<"!", "~">>}, MCText \cup Tricky)
MCTraceConds == Some(Name \cup Column, {EQ, NE, GT, LT, <<">", "=">>},
                     MCText \cup {<<"1", "and", "2">>})

Pairs(S) == {<<>>} \cup {<<x>> : x \in S} \cup (S \X S)

\* Up to two conditions without filters, or up to one with two filters
LogShapes ==
  (Pairs(MCLogConds) \X {<<>>}) \cup
  (({<<>>} \cup {<<c>> : c \in Some(Name, {EQ, NE}, {<<"1">>})}) \X Pairs(LogFilters))

LogQuery ==
  {[lang |-> "logql", conds |-> s[1], filters |-> s[2], text |-> LogText(s[1], s[2])] :
     s \in LogShapes}
FilterQuery ==
  {[lang |-> "logql", conds |-> <<>>, filters |-> <<f>>, text |-> FilterText(f)] :
     f \in LogFilters}
TraceQuery ==
  {[lang |-> "traceql", conds |-> cs, filters |-> <<>>, text |-> TraceText(st, cs)] :
     st \in Stream, cs \in Pairs(MCTraceConds)}
BadQuery ==
  {q \in [lang : {"logql", "traceql"}, conds : {<<>>}, filters : {<<>>},
           text : {<<>>, <<"{", "app", "=", "1">>, <<"from">>}] : Malformed(q)}

\* A LogQL text that does not start with a brace is read as filters.
MCQuery == LogQuery \cup FilterQuery \cup TraceQuery \cup BadQuery
=============================================================================
