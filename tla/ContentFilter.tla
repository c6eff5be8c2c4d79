------------------------------ MODULE ContentFilter ------------------------------
(***************************************************************************)
(* The two content filters of sapl_base/pep/filters/content_filter.py: the *)
(* mapper that blackens, replaces and deletes what JSON paths address, and *)
(* the one that drops elements.  A value is a heap of numbered nodes, as   *)
(* _to_native leaves it: a tree of containers of its own, which the        *)
(* handler changes in place through (container, key) slots, so that a slot *)
(* found earlier sees what later actions did to its container.             *)
(***************************************************************************)
EXTENDS Integers, Sequences, SequencesExt, Functions, FiniteSets

CONSTANTS
    Documents,      (* the values considered: [root, heap]                     *)
    Constraints     (* the constraints considered: [type, conditions, actions] *)

\* The leaf that a replaced or blackened value becomes.  (A bound: "replacement" holds no
\* object and no list, in which a later action could find something.)
Redacted     == 0
RedactedLeaf == [kind |-> "text", at |-> <<>>, text |-> "redacted", length |-> 0]

\* An object's "at" maps names to nodes, an array's is a sequence.  A text has a
\* length; what it says matters to conditions only.
IsNode(node) ==
    /\ DOMAIN node = {"kind", "at", "text", "length"}
    /\ node.length \in Nat
    /\ \/ node.kind = "object" /\ IsFiniteSet(DOMAIN node.at)
            /\ node.at = [name \in DOMAIN node.at |-> node.at[name]]
       \/ node.kind = "array" /\ node.at \in Seq(Nat)
       \/ node.kind \in {"text", "other"} /\ node.at = <<>>

\* Nodes are numbered in the order in which _to_native reaches them: a container comes
\* before its parts, and shares none of them.
IsHeap(h) ==
    /\ \E last \in DOMAIN h \cap Nat : DOMAIN h = 0..last
    /\ h[Redacted] = RedactedLeaf
    /\ \A x \in DOMAIN h : IsNode(h[x])
    /\ \A x \in DOMAIN h : \A k \in DOMAIN h[x].at :
         /\ h[x].at[k] \in DOMAIN h
         /\ h[x].at[k] > x \/ h[x].at[k] = Redacted
    /\ \A x, y \in DOMAIN h : \A k \in DOMAIN h[x].at, l \in DOMAIN h[y].at :
         h[x].at[k] = h[y].at[l] => h[x].at[k] = Redacted \/ (x = y /\ k = l)

IsDocument(document) ==
    /\ IsHeap(document.heap)
    /\ document.root \in DOMAIN document.heap \ {Redacted}
    /\ \A x \in DOMAIN document.heap : Redacted \notin Range(document.heap[x].at)

\* A step of a path: [kind, name, index].  A path the parser rejects, for its syntax or a
\* forbidden name, is one with a step of kind "rejected".
IsPath(steps) ==
    /\ steps # <<>>
    /\ steps \in Seq([kind: {"child", "index", "wildcard", "descendant", "rejected"},
                      name: STRING, index: Int])

\* "unevaluable" is an unknown operator, an unsafe pattern or a comparison of unlike types.
\* An action is valid when the replacement is there and its options are numbers in range.
ASSUME ContentFilterAssumption ==
    /\ \A document \in Documents : IsDocument(document)
    /\ \A c \in Constraints :
         /\ c.conditions \in Seq(Range(c.conditions))
         /\ c.actions \in Seq(Range(c.actions))
         /\ \A condition \in Range(c.conditions) :
              /\ IsPath(condition.steps)
              /\ condition.operator \in {"==", "!=", "unevaluable", "malformed"}
         /\ \A action \in Range(c.actions) :
              IsPath(action.steps) /\ action.disclose \in Nat /\ action.valid \in BOOLEAN

VARIABLES
    constraint,
    original,   (* the value the handler was called with                       *)
    heap,       (* the handler's copy of it                                    *)
    phase,      (* "conditions", "actions", "released", "dropped" or "denied"  *)
    position,   (* the element being filtered                                  *)
    applied,    (* the number of actions applied to it                         *)
    kept        (* the elements the predicate kept                             *)

filterVars == <<constraint, original, heap, phase, position, applied, kept>>

FilterInit ==
    /\ constraint \in Constraints
    /\ original \in Documents
    /\ heap = original.heap
    /\ phase = "conditions"
    /\ position = 1
    /\ applied = 0
    /\ kept = <<>>

\* A list is filtered element by element; anything else is the one element.
IsAList  == original.heap[original.root].kind = "array"
Elements == IF IsAList THEN original.heap[original.root].at ELSE <<original.root>>
Element  == Elements[position]
-----------------------------------------------------------------------------
(* Paths                                                                   *)

\* list(node.keys()), or the indices; Python counts from 0.
Keys(node) ==
    IF node.kind = "object" THEN SetToSeq(DOMAIN node.at)
    ELSE IF node.kind = "array" THEN [i \in 1..Len(node.at) |-> i - 1]
    ELSE <<>>

IsDefinite(steps) == \A k \in DOMAIN steps : steps[k].kind \in {"child", "index"}
IsRejected(steps) == \E k \in DOMAIN steps : steps[k].kind = "rejected"

\* Mutant: -1 is the last but one.
PlaceOneOff(node, key) ==
    IF node.kind = "array" THEN (IF key < 0 THEN Len(node.at) + key ELSE key + 1) ELSE key

\* An index below zero counts from the end.
Place(node, key) ==
    IF node.kind = "array" THEN (IF key < 0 THEN Len(node.at) + key ELSE key) + 1 ELSE key

Has(node, key) == Place(node, key) \in DOMAIN node.at

\* What the slot <<container, key>> leads to.
Follow(h, slot) == h[slot[1]].at[Place(h[slot[1]], slot[2])]

\* The keys that one step other than a descent leads to.
Selected(node, step) ==
    IF step.kind = "wildcard" THEN Keys(node)
    ELSE IF step.kind = "child" /\ node.kind = "object" /\ Has(node, step.name)
         THEN <<step.name>>
    ELSE IF step.kind = "index" /\ node.kind = "array" /\ Has(node, step.index)
         THEN <<step.index>>
    ELSE <<>>

\* A descent looks at every key on the way, and goes on below a key that matched.
Descent(h, name) ==
    LET Named(x, key) == IF h[x].kind = "object" /\ key = name THEN << <<x, key>> >> ELSE <<>>
        descent[x \in DOMAIN h] ==
            FlattenSeq([k \in DOMAIN Keys(h[x]) |->
                Named(x, Keys(h[x])[k]) \o descent[Follow(h, <<x, Keys(h[x])[k]>>)]])
    IN  descent

\* The slots below one node that one step leads to.
Matches(h, x, step) ==
    IF step.kind = "descendant" THEN Descent(h, step.name)[x]
    ELSE [k \in DOMAIN Selected(h[x], step) |-> <<x, Selected(h[x], step)[k]>>]

\* The slots a path leads to, depth first: what each step finds below what the steps
\* before it found.
Slots(h, id, steps) ==
    LET slots[k \in DOMAIN steps] ==
            IF k = 1 THEN Matches(h, id, steps[1])
            ELSE FlattenSeq([j \in DOMAIN slots[k - 1] |->
                                Matches(h, Follow(h, slots[k - 1][j]), steps[k])])
    IN  slots[Len(steps)]
-----------------------------------------------------------------------------
(* Conditions                                                              *)

Truth(holds) == IF holds THEN "yes" ELSE "no"

\* "deny" is an AccessDeniedError.
Evaluated(h, id, condition) ==
    LET slots  == Slots(h, id, condition.steps)
        actual == h[Follow(h, Head(slots))].text
    IN  IF condition.operator = "malformed" \/ IsRejected(condition.steps) \/ slots = <<>>
        THEN "deny"
        ELSE IF condition.operator = "==" THEN Truth(actual = condition.value)
        ELSE IF condition.operator = "!=" THEN Truth(actual # condition.value)
        ELSE "no"

\* all() stops at the first condition that does not hold, or cannot be judged.
ConditionsMatch(h, id) ==
    LET stops == {k \in DOMAIN constraint.conditions :
                    Evaluated(h, id, constraint.conditions[k]) # "yes"}
    IN  IF stops = {} THEN "yes" ELSE Evaluated(h, id, constraint.conditions[Min(stops)])
-----------------------------------------------------------------------------
(* Actions                                                                 *)

\* del parent[key] and parent.pop(key, None): what is not there any more is no error.
DeleteSlot(h, slot) ==
    LET node  == h[slot[1]]
        place == Place(node, slot[2])
    IN  IF place \notin DOMAIN node.at THEN h
        ELSE [h EXCEPT ![slot[1]].at =
                IF node.kind = "array" THEN RemoveAt(node.at, place)
                ELSE Restrict(node.at, DOMAIN node.at \ {place})]

\* parent[key] = what every path below it leads to no longer.
RedactSlot(h, slot) ==
    [h EXCEPT ![slot[1]].at =
        [h[slot[1]].at EXCEPT ![Place(h[slot[1]], slot[2])] = Redacted]]

\* A text that is disclosed to its whole length stays as it is.
ChangeSlot(h, slot, action) ==
    IF action.type = "delete" THEN DeleteSlot(h, slot)
    ELSE IF action.type = "blacken" /\ action.disclose >= h[Follow(h, slot)].length THEN h
    ELSE RedactSlot(h, slot)

\* The heap after each of the slots in turn.
Changed(h, slots, action) ==
    LET changed[k \in 0..Len(slots)] ==
            IF k = 0 THEN h ELSE ChangeSlot(changed[k - 1], slots[k], action)
    IN  changed[Len(slots)]

\* An action that is none, a replacement that is missing; what is not text cannot be
\* blackened.
IsUnfit(h, slots, action) ==
    \/ action.type \notin {"delete", "blacken", "replace"}
    \/ action.type = "replace" /\ ~action.valid
    \/ action.type = "blacken" /\ slots # <<>> /\ ~action.valid
    \/ action.type = "blacken" /\ \E k \in DOMAIN slots : h[Follow(h, slots[k])].kind # "text"

\* Mutant: an action whose path leads nowhere is skipped.
CannotApplyWhatIsThere(h, id, action) ==
    \/ IsRejected(action.steps)
    \/ IsUnfit(h, Slots(h, id, action.steps), action)

\* A definite path that leads nowhere denies.
CannotApply(h, id, action) ==
    \/ IsRejected(action.steps)
    \/ IsDefinite(action.steps) /\ Slots(h, id, action.steps) = <<>>
    \/ IsUnfit(h, Slots(h, id, action.steps), action)
-----------------------------------------------------------------------------
(* The handlers                                                            *)

IsFilter == constraint.type = "filterJsonContent"

\* Goes on with the next element; after the last one the value is returned.
NextElement ==
    /\ applied' = 0
    /\ IF position < Len(Elements)
       THEN position' = position + 1 /\ phase' = "conditions"
       ELSE UNCHANGED position /\ phase' = "released"

\* _filter_single: an element that does not match is left as it is.
FiltersElement ==
    /\ phase = "conditions"
    /\ IsFilter
    /\ Elements # <<>>
    /\ LET matches == ConditionsMatch(heap, Element)
       IN  \/ matches = "deny" /\ phase' = "denied" /\ UNCHANGED <<position, applied>>
           \/ matches = "yes"  /\ phase' = "actions" /\ UNCHANGED <<position, applied>>
           \/ matches = "no"   /\ NextElement
    /\ UNCHANGED <<constraint, original, heap, kept>>

\* _apply_action: the slots are found before the first of them is changed.
Applies ==
    /\ phase = "actions"
    /\ applied < Len(constraint.actions)
    /\ LET action == constraint.actions[applied + 1]
       IN  IF CannotApply(heap, Element, action)
           THEN phase' = "denied" /\ UNCHANGED <<heap, applied>>
           ELSE /\ heap' = Changed(heap, Slots(heap, Element, action.steps), action)
                /\ applied' = applied + 1
                /\ UNCHANGED phase
    /\ UNCHANGED <<constraint, original, position, kept>>

LeavesElement ==
    /\ phase = "actions"
    /\ applied = Len(constraint.actions)
    /\ NextElement
    /\ UNCHANGED <<constraint, original, heap, kept>>

ReturnsEmpty ==
    /\ phase = "conditions"
    /\ Elements = <<>>
    /\ phase' = "released"
    /\ UNCHANGED <<constraint, original, heap, position, applied, kept>>

\* _make_predicate_handler: a list keeps its elements that match, any other value is
\* returned or becomes DROP.
JudgesElement ==
    /\ phase = "conditions"
    /\ ~IsFilter
    /\ Elements # <<>>
    /\ LET matches == ConditionsMatch(heap, Element)
       IN  \/ /\ matches = "deny"
              /\ phase' = "denied"
              /\ UNCHANGED <<position, applied, kept>>
           \/ matches = "yes" /\ kept' = Append(kept, Element) /\ NextElement
           \/ /\ matches = "no" /\ ~IsAList
              /\ phase' = "dropped"
              /\ UNCHANGED <<position, applied, kept>>
           \/ matches = "no" /\ IsAList /\ UNCHANGED kept /\ NextElement
    /\ UNCHANGED <<constraint, original, heap>>

FilterNext ==
    \/ FiltersElement
    \/ Applies
    \/ LeavesElement
    \/ ReturnsEmpty
    \/ JudgesElement

FilterSpec == FilterInit /\ [][FilterNext]_filterVars
-----------------------------------------------------------------------------
(* What paths mean, defined over sets of nodes and one step at a time      *)

Parts(h, ids) == UNION {Range(h[id].at) : id \in ids}

\* The nodes that can be reached from some.
Tree(h, ids) ==
    LET below[x \in DOMAIN h] == {x} \cup UNION {below[y] : y \in Range(h[x].at)}
    IN  UNION {below[x] : x \in ids}

Called(h, ids, name) ==
    {h[x].at[name] : x \in {y \in ids : h[y].kind = "object" /\ name \in DOMAIN h[y].at}}

Numbered(h, ids, index) ==
    {h[x].at[IF index < 0 THEN Len(h[x].at) + index + 1 ELSE index + 1] :
        x \in {y \in ids : h[y].kind = "array" /\ -Len(h[y].at) <= index /\ index < Len(h[y].at)}}

Led(h, ids, step) ==
    IF step.kind = "child" THEN Called(h, ids, step.name)
    ELSE IF step.kind = "index" THEN Numbered(h, ids, step.index)
    ELSE IF step.kind = "wildcard" THEN Parts(h, ids)
    ELSE IF step.kind = "descendant" THEN Called(h, Tree(h, ids), step.name)
    ELSE {}

Addressed(h, id, steps) ==
    LET led[k \in 0..Len(steps)] == IF k = 0 THEN {id} ELSE Led(h, led[k - 1], steps[k])
    IN  led[Len(steps)]

\* [*] addresses all elements of a list, and two descents may find one element twice.
DeletesFromOneListTwice(h, id, action) ==
    /\ action.type = "delete"
    /\ LET slots == Slots(h, id, action.steps)
       IN  \E j, k \in DOMAIN slots :
             j < k /\ slots[j][1] = slots[k][1] /\ h[slots[j][1]].kind = "array"

Disclosed(h, action) ==
    {x \in DOMAIN h : action.type = "blacken" /\ action.disclose >= h[x].length}
-----------------------------------------------------------------------------
(* Properties                                                              *)

(* The type invariant: the heap stays a tree, up to the leaves that were   *)
(* redacted.                                                               *)
FilterTypeOK ==
    /\ phase \in {"conditions", "actions", "released", "dropped", "denied"}
    /\ position \in 1..(IF Elements = <<>> THEN 1 ELSE Len(Elements))
    /\ applied \in 0..Len(constraint.actions)
    /\ kept \in Seq(Range(Elements))
    /\ DOMAIN heap = DOMAIN original.heap
    /\ IsHeap(heap)

Applying == heap' # heap \/ applied' > applied

(* An action that is applied makes everything its path addresses           *)
(* unreachable in the element, except a text that is disclosed whole, and  *)
(* takes nothing else with it, in this element or another one, although    *)
(* the slots were resolved before the first of them was changed            *)
(* (_apply_action).  Two deletions from one list are set apart: see        *)
(* WildcardDeletes.                                                        *)
RedactsWhatIsAddressed ==
    [][Applying =>
        LET action == constraint.actions[applied + 1]
            gone   == Addressed(heap, Element, action.steps) \ Disclosed(heap, action)
            before == Tree(heap, {original.root})
            after  == Tree(heap', {original.root})
        IN  ~DeletesFromOneListTwice(heap, Element, action) =>
                /\ gone \cap after \subseteq {Redacted}
                /\ before \ Tree(heap, gone) \subseteq after]_filterVars

(* content_filter.py: "Sensitive data never reaches the caller when the    *)
(* redaction could not be applied."  When a value is released, the first   *)
(* action of its filter found a target in every element whose conditions   *)
(* hold, unless its path may address nothing, and never one it cannot      *)
(* redact.                                                                 *)
UnappliedIsDenied ==
    phase = "released" /\ IsFilter /\ constraint.actions # <<>> =>
        LET action == Head(constraint.actions)
        IN  \A k \in DOMAIN Elements :
              (\A c \in Range(constraint.conditions) :
                 c.operator = "==" /\ ~IsRejected(c.steps) /\
                 \E x \in Addressed(original.heap, Elements[k], c.steps) :
                    IsDefinite(c.steps) /\ original.heap[x].text = c.value) =>
                LET targets == Addressed(original.heap, Elements[k], action.steps)
                IN  /\ action.type \in {"blacken", "replace", "delete"}
                    /\ IsDefinite(action.steps) => targets # {}
                    /\ action.type = "blacken" =>
                         \A x \in targets : original.heap[x].kind = "text"

(* An element is released unredacted, or kept by the predicate, only if    *)
(* what its conditions say was looked at: a condition whose path is not    *)
(* there denies the whole value, in every element.                         *)
MissingConditionDenies ==
    phase \in {"released", "dropped"} =>
        \A k \in DOMAIN Elements :
            constraint.conditions # <<>> =>
                LET condition == Head(constraint.conditions)
                IN  /\ condition.operator # "malformed"
                    /\ Addressed(original.heap, Elements[k], condition.steps) # {}

(* What holds of a handler in every state: the types, and that a value is  *)
(* released only when its actions and conditions could be carried out      *)
(* (_make_filter_handler, _make_predicate_handler).                        *)
HandlerInv == FilterTypeOK /\ UnappliedIsDenied /\ MissingConditionDenies

(* content_filter.py: any redaction that cannot be applied raises; a       *)
(* deletion by [*] leaves none of the elements it addresses.               *)
WildcardDeletes ==
    [][Applying =>
        LET action == constraint.actions[applied + 1]
        IN  action.type = "delete" =>
                Addressed(heap, Element, action.steps) \cap Tree(heap', {original.root}) = {}]_filterVars
=============================================================================
