------------------------------ MODULE McpMiddleware ------------------------------
(***************************************************************************)
(* One request to an MCP server behind SAPLMiddleware                      *)
(* (sapl_fastmcp/middleware.py): a listing, an access (call, read, get),   *)
(* or the check of the auth= path (auth_check.py), while the server's      *)
(* components may be replaced.  The middleware keeps no state between      *)
(* requests, so one request shows everything.  What pre_enforce and        *)
(* post_enforce do inside is module OneShot; here they decide, run the     *)
(* protected function and map its value, or raise.                         *)
(***************************************************************************)
EXTENDS Naturals, Sequences, FiniteSets

CONSTANTS
    Components,     (* the server's tools, resources and prompts               *)
    CompIds,        (* the values of "type:name"                               *)
    Configs,        (* bound: the configurations considered, records of Config *)
    Answers         (* bound: what the PDP may say of a component, of Answer   *)

None == "none"

\* __sapl__ of a component's function; unguarded when it has none.
Config ==
    [guarded : BOOLEAN, mode : {"pre", "post"}, stealth : BOOLEAN, finalize : BOOLEAN]

\* A decision: whether it replaces the resource, and what becomes of its obligations:
\* handled at the decision, handled at the output, or not at all.  A decision that is
\* missing from the PDP's answer is INDETERMINATE for a one-shot request.
Answer ==
    [verb : {"PERMIT", "DENY", "INDETERMINATE", "missing"}, has_resource : BOOLEAN,
     obligations : {"decision", "output", "failing"}]

ASSUME McpAssumption ==
    /\ IsFiniteSet(Components) /\ None \notin Components
    /\ Configs \subseteq Config /\ Answers \subseteq Answer

VARIABLES
    stdio,              (* the transport of the request                         *)
    enforce_listing,
    config,             (* the configuration of each component                  *)
    comp_id,            (* "type:name" of each component: two may share one     *)
    policy,             (* what the PDP says of each component                  *)
    kind,               (* what is requested                                    *)
    registry,           (* the component the server has under the name, or None *)
    stage,              (* where the request is suspended                       *)
    found,              (* the component that was looked up                     *)
    ran,                (* the component whose function ran                     *)
    value,              (* the value of the enforcement, against the function's *)
    exit,               (* how the enforcement ended                            *)
    told,               (* the outcomes the finalize callback was given         *)
    subscribed,         (* listing: the components the PDP is asked about       *)
    kept,               (* listing: component_ids                               *)
    visible,            (* listing: what is returned                            *)
    answer              (* what the client is sent                              *)

setting == <<stdio, enforce_listing, config, comp_id, policy, kind>>
listing == <<subscribed, kept, visible>>
access  == <<found, ran, value, exit, told>>
vars    == <<stdio, enforce_listing, config, comp_id, policy, kind, registry, stage,
             found, ran, value, exit, told, subscribed, kept, visible, answer>>

Kinds    == {"list", "call", "read", "auth"}
Awaiting == {"looking", "template", "deciding", "running", "judging"}
Stages   == Awaiting \cup {"arrived", "authorizing", "listing", "mapping",
                           "leaving", "over"}
Values   == {None, "original", "changed in place", "mapped"}
Exits    == {None, "value", "denied", "error", "cancelled"}
Sent     == Values \cup {"not found", "denied", "error", "cancelled", "allowed",
                         "refused", "list"}

Init ==
    /\ stdio \in BOOLEAN
    /\ enforce_listing \in BOOLEAN
    /\ config \in [Components -> Configs]
    /\ comp_id \in [Components -> CompIds]
    /\ policy \in [Components -> Answers]
    /\ kind \in Kinds
    /\ registry \in Components \cup {None}
    /\ kind = "auth" => registry # None
    /\ stage = "arrived"
    /\ found = None /\ ran = None /\ value = None /\ exit = None /\ told = <<>>
    /\ subscribed = {} /\ kept = {} /\ visible = {}
    /\ answer = None

Answered(what) == stage' = "over" /\ answer' = what

\* enforce_decision_gate: the decision signal is all there is.
Gate(decision) ==
    /\ decision.verb = "PERMIT"
    /\ ~decision.has_resource
    /\ decision.obligations = "decision"

\* pre_enforce and post_enforce know the output signal too.
Permits(decision) == decision.verb = "PERMIT" /\ decision.obligations # "failing"

\* Whether the enforcement changes what the function returned.
Maps(decision) == decision.has_resource \/ decision.obligations = "output"
-----------------------------------------------------------------------------
(* The server                                                              *)

\* A component is added, removed or replaced while the request is suspended.
Replaces(component) ==
    /\ stage \in Awaiting
    /\ component # registry
    /\ registry' = component
    /\ UNCHANGED <<setting, stage, access, listing, answer>>
-----------------------------------------------------------------------------
(* Listing                                                                 *)

Stealth == {c \in Components : config[c].guarded /\ config[c].stealth}

\* STDIO and enforce_listing = False return what the server lists.
ListsAll ==
    /\ stage = "arrived"
    /\ kind = "list"
    /\ stdio \/ ~enforce_listing
    /\ visible' = Components
    /\ Answered("list")
    /\ UNCHANGED <<setting, registry, access, subscribed, kept>>

\* The last of the given components that has its identifier.
LastOfEach(order, components) ==
    {c \in components :
        \A d \in components : comp_id[d] = comp_id[c] => order[d] <= order[c]}

\* Mutant: a component is noted before its subscription is built.
KeptUnbuilt(order, built) == LastOfEach(order, Stealth)

\* component_ids: written only once the subscription of the component is there.
Kept(order, built) == LastOfEach(order, built)

Orders ==
    {o \in [Components -> 1..Cardinality(Components)] :
        \A c, d \in Components : o[c] = o[d] => c = d}

\* The components come in some order; some subscriptions cannot be built.  Of those that
\* share an identifier the last one stands.
BuildsSubscriptions ==
    /\ stage = "arrived"
    /\ kind = "list"
    /\ ~stdio /\ enforce_listing
    /\ \E order \in Orders, built \in SUBSET Stealth :
         /\ subscribed' = LastOfEach(order, built)
         /\ kept' = Kept(order, built)
         /\ IF built = {}
            THEN visible' = Components \ Stealth /\ Answered("list")
            ELSE UNCHANGED <<visible, answer>> /\ stage' = "listing"
    /\ UNCHANGED <<setting, registry, access>>

\* multi_decide_all_once answers for the identifiers.
Hides ==
    /\ stage = "listing"
    /\ visible' = (Components \ Stealth)
           \cup {c \in kept : \E d \in subscribed :
                                comp_id[d] = comp_id[c] /\ Gate(policy[d])}
    /\ Answered("list")
    /\ UNCHANGED <<setting, registry, access, subscribed, kept>>

\* What the server's own listing, the access token or the token provider raises.
ListingFails ==
    /\ kind = "list"
    /\ stage \in {"arrived", "listing"}
    /\ Answered("error")
    /\ UNCHANGED <<setting, registry, access, listing>>
-----------------------------------------------------------------------------
(* The auth= path: sapl() of auth_check.py.                                *)

AuthChecks ==
    /\ stage = "arrived"
    /\ kind = "auth"
    /\ found' = registry
    /\ Answered(IF policy[registry].verb \in {"PERMIT", "DENY"} /\ Gate(policy[registry])
                THEN "allowed" ELSE "refused")
    /\ UNCHANGED <<setting, registry, ran, value, exit, told, listing>>
-----------------------------------------------------------------------------
(* Access: on_call_tool, on_read_resource, on_get_prompt                   *)

IsAccess == kind \in {"call", "read"}

Arrives ==
    /\ stage = "arrived"
    /\ IsAccess
    /\ stage' = IF stdio THEN "running" ELSE "looking"
    /\ UNCHANGED <<setting, registry, access, listing, answer>>

\* A component with a configuration is authorized, unless its access token cannot be read;
\* one without runs as it is.
Proceeds(component) ==
    /\ found' = component
    /\ \/ /\ stage' = IF config[component].guarded THEN "authorizing" ELSE "running"
          /\ UNCHANGED answer
       \/ config[component].guarded /\ Answered("error")

\* The server's getter raises something other than NotFoundError.
LookupFails == UNCHANGED found /\ Answered("error")

LooksUp ==
    /\ stage = "looking"
    /\ \/ registry # None /\ Proceeds(registry)
       \/ /\ registry = None
          /\ UNCHANGED found
          /\ IF kind = "read" THEN stage' = "template" /\ UNCHANGED answer
             ELSE Answered("not found")
       \/ LookupFails
    /\ UNCHANGED <<setting, registry, ran, value, exit, told, listing>>

\* A resource that is not there may be there as a template.
LooksUpTemplate ==
    /\ stage = "template"
    /\ \/ registry # None /\ Proceeds(registry)
       \/ registry = None /\ UNCHANGED found /\ Answered("not found")
       \/ LookupFails
    /\ UNCHANGED <<setting, registry, ran, value, exit, told, listing>>

Conf == config[found]

\* Mutant: the request ends where the enforcement is cancelled.
ExitUnlessCancelled(how, result) ==
    /\ exit' = how
    /\ value' = result
    /\ IF how = "cancelled" THEN Answered(how) ELSE stage' = "leaving" /\ UNCHANGED answer

\* The except clauses of _enforce_component_access.
Exit(how, result) ==
    /\ exit' = how
    /\ value' = result
    /\ stage' = "leaving"
    /\ UNCHANGED answer

\* pre: the subscription is built and the PDP asked before anything runs.
BuildsSubscription ==
    /\ stage = "authorizing"
    /\ Conf.mode = "pre"
    /\ \/ stage' = "deciding" /\ UNCHANGED <<value, exit, answer>>
       \/ Exit("error", None)
    /\ UNCHANGED <<setting, registry, found, ran, told, listing>>

RunsFirst ==
    /\ stage = "authorizing"
    /\ Conf.mode = "post"
    /\ stage' = "running"
    /\ UNCHANGED <<setting, registry, access, listing, answer>>

\* What decide_once raises is no denial.
PreDecides ==
    /\ stage = "deciding"
    /\ \/ Exit("error", None)
       \/ IF Permits(policy[found])
          THEN stage' = "running" /\ UNCHANGED <<value, exit, answer>>
          ELSE Exit("denied", None)
    /\ UNCHANGED <<setting, registry, found, ran, told, listing>>

Unenforced == found = None \/ ~Conf.guarded

\* call_next: the server looks the name up again.  What the function raises leaves as a denial
\* when it is one, and in pre mode also when an obligation of the error fails.
Runs ==
    /\ stage = "running"
    /\ ran' = registry
    /\ IF Unenforced
       THEN /\ \/ registry # None /\ Answered("original")
               \/ Answered("error")
            /\ UNCHANGED <<value, exit>>
       ELSE \/ /\ registry # None
               /\ stage' = IF Conf.mode = "pre" THEN "mapping" ELSE "judging"
               /\ UNCHANGED <<value, exit, answer>>
            \/ \E how \in {"error", "denied"} : Exit(how, None)
    /\ UNCHANGED <<setting, registry, found, told, listing>>

\* Mutant: the value is released when the PDP's answer is no DENY.
PostDecidesUnlessDenied ==
    /\ stage = "judging"
    /\ \/ Exit("error", None)
       \/ IF policy[found].verb # "DENY"
          THEN stage' = "mapping" /\ UNCHANGED <<value, exit, answer>>
          ELSE Exit("denied", None)
    /\ UNCHANGED <<setting, registry, found, ran, told, listing>>

\* post: the subscription is built from the value, which may fail.
PostDecides ==
    /\ stage = "judging"
    /\ \/ Exit("error", None)
       \/ IF Permits(policy[found])
          THEN stage' = "mapping" /\ UNCHANGED <<value, exit, answer>>
          ELSE Exit("denied", None)
    /\ UNCHANGED <<setting, registry, found, ran, told, listing>>

\* The output handlers, or a replacement of the resource.  A handler may return the
\* object it was given, changed; it may also fail.
MapsValue ==
    /\ stage = "mapping"
    /\ IF Maps(policy[found])
       THEN \/ \E result \in {"mapped", "changed in place"} :
                 /\ policy[found].has_resource => result = "mapped"
                 /\ Exit("value", result)
            \/ Exit("denied", None)
       ELSE Exit("value", "original")
    /\ UNCHANGED <<setting, registry, found, ran, told, listing>>

\* CancelledError is no Exception: no except clause sees it, the finally clause does.
Cancelled ==
    /\ stage \in Awaiting
    /\ IF stage \in {"looking", "template"} \/ Unenforced
       THEN UNCHANGED <<value, exit>> /\ Answered("cancelled")
       ELSE Exit("cancelled", None)
    /\ UNCHANGED <<setting, registry, found, ran, told, listing>>

\* outcome: a denial, until the enforcement has returned a value.
Outcome == IF exit = "value" THEN "PERMIT" ELSE "DENY"

\* A value that is the function's object, changed or not, is sent in the wrapper it came in.
Reply ==
    CASE exit = "denied" -> IF Conf.stealth THEN "not found" ELSE "denied"
      [] exit = "value"  -> IF value = "mapped" THEN "mapped" ELSE "original"
      [] OTHER           -> exit

\* The finally clause.  What the callback raises is swallowed, unless it is its
\* cancellation; a value that is another object is wrapped anew, which may fail.
Leaves ==
    /\ stage = "leaving"
    /\ told' = IF Conf.finalize THEN Append(told, Outcome) ELSE told
    /\ \/ Answered(Reply)
       \/ Conf.finalize /\ Answered("cancelled")
       \/ value = "mapped" /\ Answered("error")
    /\ UNCHANGED <<setting, registry, found, ran, value, exit, listing>>

Next ==
    \/ \E component \in Components \cup {None} : Replaces(component)
    \/ ListsAll
    \/ BuildsSubscriptions
    \/ Hides
    \/ ListingFails
    \/ AuthChecks
    \/ Arrives
    \/ LooksUp
    \/ LooksUpTemplate
    \/ BuildsSubscription
    \/ RunsFirst
    \/ PreDecides
    \/ Runs
    \/ PostDecides
    \/ MapsValue
    \/ Cancelled
    \/ Leaves

Spec == Init /\ [][Next]_vars
-----------------------------------------------------------------------------
(* Properties                                                              *)

(* The type invariant of a request.                                        *)
TypeOK ==
    /\ registry \in Components \cup {None}
    /\ stage \in Stages
    /\ found \in Components \cup {None}
    /\ ran \in Components \cup {None}
    /\ value \in Values
    /\ exit \in Exits
    /\ told \in Seq({"PERMIT", "DENY"})
    /\ subscribed \subseteq Stealth /\ kept \subseteq Stealth
    /\ visible \subseteq Components
    /\ answer \in Sent
    /\ stage \in {"authorizing", "deciding", "judging", "mapping", "leaving"} =>
         found # None /\ config[found].guarded

(* What an enforced listing shows of the stealth components, and what the  *)
(* auth= path lets pass, is what the policy lets the client use as it is:  *)
(* although components may share an identifier, only the last of them is   *)
(* asked about, and some subscriptions are never built                     *)
(* (_hide_unauthorized_stealth_components, enforce_decision_gate).         *)
ShownIsAllowed ==
    LET AsItIs(c) == Permits(policy[c]) /\ ~Maps(policy[c])
    IN  /\ answer = "list" /\ ~stdio /\ enforce_listing =>
             \A c \in visible \cap Stealth : AsItIs(c)
        /\ answer = "allowed" => AsItIs(found)

(* A listing hides nothing else: what is not stealth is there, and so is a *)
(* stealth component the client may use as it is, unless its subscription  *)
(* failed or it lost its identifier to another component.                  *)
OthersAreShown ==
    answer = "list" =>
        /\ Components \ Stealth \subseteq visible
        /\ \A c \in subscribed :
             Permits(policy[c]) /\ ~Maps(policy[c]) => c \in visible

(* What holds of a listing in every state: the types, and that it shows of *)
(* the stealth components exactly what the policy lets the client use      *)
(* (_hide_unauthorized_stealth_components).                                *)
ListingInv == TypeOK /\ ShownIsAllowed /\ OthersAreShown

(* A client that the policy does not permit gets no value of the component *)
(* it was found to ask for, in pre mode nothing ran for it, and a stealth  *)
(* component answers as one that is not there: decorators.py, "making      *)
(* hidden components indistinguishable from non-existent ones", save for   *)
(* what its own function or its subscription raises.                       *)
DeniedLearnsNothing ==
    stage = "over" /\ IsAccess /\ found # None =>
        (Conf.guarded /\ ~Permits(policy[found]) =>
            /\ answer \in {IF Conf.stealth THEN "not found" ELSE "denied", "error", "cancelled"}
            /\ Conf.mode = "pre" => ran = None)

(* The finalize callback is called exactly once for every access that came *)
(* to the enforcement, whether it was released, denied, failed or was      *)
(* cancelled, and is told of a PERMIT exactly when a value was released.   *)
FinalizedOnce ==
    stage = "over" /\ exit # None =>
        told = IF Conf.finalize
               THEN <<IF value # None THEN "PERMIT" ELSE "DENY">> ELSE <<>>
=============================================================================
