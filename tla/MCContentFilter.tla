---------------------------- MODULE MCContentFilter ----------------------------
(* Small documents with nested objects and lists, every path of one or two steps, and *)
(* pairs of actions.                                                                  *)
EXTENDS ContentFilter, TLC

Text(text, length) == [kind |-> "text", at |-> <<>>, text |-> text, length |-> length]
Number             == [kind |-> "other", at |-> <<>>, text |-> "", length |-> 0]
Array(items)       == [kind |-> "array", at |-> items, text |-> "", length |-> 0]
Object(at)         == [kind |-> "object", at |-> at, text |-> "", length |-> 0]
AB(a, b)           == Object(("a" :> a) @@ ("b" :> b))
A(a)               == Object("a" :> a)

Flat     == <<AB(2, 3), Text("x", 3), Text("y", 1)>>
Nested   == <<AB(2, 4), A(3), Text("x", 3), Number>>
Lists    == <<AB(2, 6), Array(<<3, 4, 5>>), Text("x", 3), Text("y", 3), Text("x", 1), Text("x", 3)>>
Elements2 == <<Array(<<2, 5>>), AB(3, 4), Text("x", 3), Text("x", 3), AB(6, 7), Text("y", 3), Number>>
Deep     == <<A(2), Array(<<3, 6>>), A(4), Array(<<5>>), Text("x", 3), AB(7, 8), Text("x", 3), Text("y", 3)>>
Chain    == <<A(2), A(3), A(4), Array(<<5, 6>>), Text("x", 3), Text("x", 3)>>
Empty    == <<Array(<<>>)>>

Document(nodes) ==
    [root |-> 1, heap |-> [x \in 0..Len(nodes) |-> IF x = 0 THEN RedactedLeaf ELSE nodes[x]]]

MCDocuments == {Document(nodes) : nodes \in {Flat, Nested, Lists, Elements2, Deep, Chain, Empty}}

Step(kind, name, index) == [kind |-> kind, name |-> name, index |-> index]
Child(name) == Step("child", name, 0)
At(index)   == Step("index", "", index)
Wildcard    == Step("wildcard", "", 0)
Below(name) == Step("descendant", name, 0)
Rejected    == Step("rejected", "", 0)

MCSteps == {Child("a"), Child("b"), At(0), At(-1), Wildcard, Below("a")}
MCPaths == {<<s>> : s \in MCSteps \cup {Rejected}} \cup {<<s, t>> : s, t \in MCSteps}

Action(type, steps, disclose, valid) ==
    [type |-> type, steps |-> steps, disclose |-> disclose, valid |-> valid]

MCActions ==
    {Action(type, steps, 0, TRUE) : type \in {"delete", "blacken", "replace"}, steps \in MCPaths}
        \cup {Action("blacken", <<Child("a")>>, 2, TRUE),
              Action("blacken", <<Child("a"), Wildcard>>, 2, TRUE),
              Action("replace", <<Child("a")>>, 0, FALSE),
              Action("blacken", <<Child("a")>>, 0, FALSE),
              Action("delete", <<Below("a"), Below("a"), At(0)>>, 0, TRUE),
              Action("unknown", <<Child("a")>>, 0, TRUE)}

Second ==
    {<<>>} \cup {<<Action("delete", <<Child("a"), At(0)>>, 0, TRUE)>>,
                 <<Action("blacken", <<Below("a")>>, 0, TRUE)>>}

Condition(steps, operator, value) == [steps |-> steps, operator |-> operator, value |-> value]

MCConditions ==
    {<<>>, <<Condition(<<Child("a")>>, "==", "x")>>, <<Condition(<<Child("b")>>, "!=", "x")>>,
     <<Condition(<<Child("a")>>, "unevaluable", "x")>>,
     <<Condition(<<Below("a"), At(0)>>, "==", "x")>>,
     <<Condition(<<Child("b")>>, "==", "y"), Condition(<<Child("a")>>, "malformed", "x")>>}

MCConstraints ==
    {[type |-> "filterJsonContent", conditions |-> c, actions |-> <<first>> \o second] :
        c \in MCConditions, first \in MCActions, second \in Second}
    \cup {[type |-> "jsonContentFilterPredicate", conditions |-> c, actions |-> <<>>] :
            c \in MCConditions}
=============================================================================
