----------------------------- MODULE MCQueryRewriting -----------------------------
(* Two columns and a key, two values and NULL; obligations of up to two criteria, one  *)
(* of them a group, with and without conditions and columns; statements of every kind. *)
EXTENDS QueryRewriting

MCColumns     == {"a", "b"}
MCDeployments == {{}, {"sqlalchemy"}, {"django"}, {"mongo"}, {"sqlalchemy", "django"},
                  {"sqlalchemy", "mongo"}}

Leaf(column, op, shape, value) ==
    [kind |-> "leaf", column |-> column, op |-> op, shape |-> shape, value |-> value,
     children |-> <<>>]
Node(kind, children) ==
    [kind |-> kind, column |-> "", op |-> "", shape |-> "none", value |-> {},
     children |-> children]

Good == {Leaf("a", "=", "scalar", {"x"}), Leaf("a", "!=", "scalar", {"x"}),
         Leaf("b", "in", "list", {"x", "y"}), Leaf("b", "isNull", "none", {}),
         Leaf("a", "isNotNull", "none", {}), Leaf("b", "notLike", "scalar", {"y"})}
Bad  == {Leaf("", "=", "scalar", {"x"}), Leaf("a", "", "scalar", {"x"}),
         Leaf("a", "=", "none", {}), Leaf("b", "in", "scalar", {"x"}),
         Leaf("a", "unknown", "scalar", {"x"}), Node("other", <<>>)}

Some == {Leaf("a", "!=", "scalar", {"x"}), Leaf("b", "isNull", "none", {})}

Lists ==
    {<<>>} \cup {<<n>> : n \in Good \cup Bad}
           \cup {<<Node(k, <<m, n>>)>> : k \in {"or", "and"}, m \in Some, n \in Good \cup Bad}
           \cup {<<m, n>> : m \in Some, n \in Bad}
           \cup {<<Node("or", <<>>), Leaf("a", "=", "scalar", {"y"})>>,
                 <<Node("and", <<Leaf("a", "=", "scalar", {"x"}),
                                 Node("or", <<Leaf("b", "=", "scalar", {"x"}),
                                              Leaf("b", "isNull", "none", {})>>)>>)>>}

Parts(nodes) == UNION {{n} \cup Children(n) : n \in nodes}

MCCriteria == Parts(Parts(UNION {ToSet(k) : k \in Lists}))

MCDepth == [n \in MCCriteria |->
              IF n.children = <<>> THEN 0
              ELSE IF \A child \in Children(n) : child.children = <<>> THEN 1 ELSE 2]

Cond(kind, terms) == [kind |-> kind, terms |-> terms]
OnlyWith(c, v) == {row \in Rows : row[c] = v}
Text       == Cond("fragment", <<OnlyWith("b", "y")>>)
Either     == Cond("fragment", <<OnlyWith("b", "y"), OnlyWith("a", "y"), OnlyWith("b", "x")>>)
NoText     == Cond("not_string", <<{}>>)

MCConditions      == {<<>>, <<Text>>, <<NoText>>, <<Text, NoText>>, <<Either>>,
                      <<Either, NoText, Text>>}
MCMongoConditions ==
    MCConditions \cup {<<Cond("unparsable", <<{}>>)>>, <<Cond("not_object", <<{}>>)>>}

Obligation(type, criteria, conditions, columns) ==
    [type |-> type, criteria |-> criteria, conditions |-> conditions, columns |-> columns]

MCObligations ==
    {Obligation("sql:queryRewriting", k, c, {}) : k \in Lists, c \in MCConditions}
    \cup {Obligation("sql:queryRewriting", k, c, p) :
             k \in {<<>>} \cup {<<n>> : n \in Some}, c \in MCConditions,
             p \in {{"a"}, {"b"}, {"a", "id"}, {"c"}}}
    \cup {Obligation("relational:queryRewriting", <<n>>, <<>>, {}) : n \in Good \cup Bad}
    \cup {Obligation("mongo:queryRewriting", k, c, {}) : k \in Lists,
                                                        c \in MCMongoConditions}

Query(store, kind, filter, table, where) ==
    [store |-> store, kind |-> kind, filter |-> filter, table |-> table, where |-> where,
     columns |-> table]

Tables  == {{"id", "a", "b"}, {"id", "b"}}
Filters == {[{"a", "b"} -> {"x", "y", NULL}],
            {row \in [{"a", "b"} -> {"x", "y", NULL}] : row["a"] = "x"}}

MCStatements ==
    {Query("sqlalchemy", k, "given", {"id", "a", "b"}, w) :
        k \in {"select", "entity", "union", "update", "insert", "text", "bypassing"}, w \in Filters}
    \cup {Query("sqlalchemy", "select", "given", t, w) : t \in Tables, w \in Filters}
    \cup {Query("django", k, "given", t, w) :
             k \in {"select", "values", "union", "update", "bypassing"}, t \in Tables \cup {{}},
             w \in Filters}
    \cup {Query("mongo", k, "given", {"id", "a", "b"}, w) :
             k \in {"find", "update", "pipeline", "bypassing"}, w \in Filters}
    \cup {Query("mongo", k, "missing", {"id", "a", "b"},
                    [{"a", "b"} -> {"x", "y", NULL}]) : k \in {"find", "update"}}
=============================================================================
