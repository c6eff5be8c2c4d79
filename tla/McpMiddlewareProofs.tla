--------------------------- MODULE McpMiddlewareProofs ---------------------------
(***************************************************************************)
(* Proofs about McpMiddleware, for any set of components, configurations   *)
(* and answers: what a listing shows, what a denied client learns, and     *)
(* what the finalize callback is told.                                     *)
(*                                                                         *)
(* The invariant that carries the argument says, of every stage, what the  *)
(* request has got so far (Timeline), where a denied access cannot be      *)
(* (DeniedInv), and that the components the PDP is asked about have        *)
(* different identifiers (SubscribedInv).                                  *)
(***************************************************************************)
EXTENDS McpMiddleware, FiniteSetTheorems, TLAPS

SettingOK ==
    /\ stdio \in BOOLEAN
    /\ enforce_listing \in BOOLEAN
    /\ config \in [Components -> Configs]
    /\ comp_id \in [Components -> CompIds]
    /\ policy \in [Components -> Answers]
    /\ kind \in Kinds

Timeline ==
    /\ stage # "over" => answer = None
    /\ stage = "listing" => kind = "list" /\ ~stdio /\ enforce_listing
    /\ stage \notin {"arrived", "listing", "over"} => IsAccess
    /\ stage \in {"arrived", "looking", "template", "listing"} => found = None
    /\ stage \in {"arrived", "looking", "template", "listing", "authorizing", "deciding"} =>
         ran = None
    /\ stage \notin {"leaving", "over"} => exit = None /\ told = <<>>
    /\ stage = "leaving" => exit # None /\ told = <<>>
    /\ exit = "value" <=> value # None
    /\ kind = "auth" /\ stage = "arrived" => registry # None

(* An access the policy does not permit comes to no value, and in pre mode *)
(* its function is out of reach.                                           *)
DeniedInv ==
    IsAccess /\ found # None =>
        (Conf.guarded /\ ~Permits(policy[found]) =>
            /\ stage # "mapping"
            /\ exit # "value"
            /\ Conf.mode = "pre" => ran = None /\ stage # "running"
            /\ stage = "over" =>
                 answer \in {IF Conf.stealth THEN "not found" ELSE "denied",
                             "error", "cancelled"})

(* Of the components that share an identifier only one is asked about, and *)
(* it is the one that may be shown.                                        *)
SubscribedInv ==
    /\ kept = subscribed
    /\ \A c, d \in subscribed : comp_id[c] = comp_id[d] => c = d

IInv ==
    /\ SettingOK
    /\ TypeOK
    /\ Timeline
    /\ DeniedInv
    /\ SubscribedInv
    /\ ShownIsAllowed
    /\ OthersAreShown
    /\ FinalizedOnce

Listings == ListsAll \/ BuildsSubscriptions \/ Hides \/ ListingFails

Accesses ==
    \/ \E component \in Components \cup {None} : Replaces(component)
    \/ AuthChecks \/ Arrives \/ LooksUp \/ LooksUpTemplate \/ BuildsSubscription
    \/ RunsFirst \/ PreDecides \/ Runs \/ PostDecides \/ MapsValue \/ Cancelled
    \/ Leaves
-----------------------------------------------------------------------------
(* Operators                                                               *)

(* LastOfEach keeps some of the components it is given, no two of which    *)
(* share an identifier.                                                    *)
LEMMA LastOfEachFacts ==
    ASSUME NEW order \in Orders, NEW components \in SUBSET Components
    PROVE  /\ LastOfEach(order, components) \subseteq components
           /\ \A c, d \in LastOfEach(order, components) :
                comp_id[c] = comp_id[d] => c = d
<1>1. Cardinality(Components) \in Nat
  BY McpAssumption, FS_CardinalityType
<1>2. /\ \A c \in Components : order[c] \in Int
      /\ \A c, d \in Components : order[c] = order[d] => c = d
  BY <1>1 DEF Orders
<1>3. LastOfEach(order, components) \subseteq components
  BY DEF LastOfEach
<1>4. ASSUME NEW c \in LastOfEach(order, components),
             NEW d \in LastOfEach(order, components), comp_id[c] = comp_id[d]
      PROVE  c = d
  <2>1. c \in Components /\ d \in Components
    BY <1>3
  <2>2. order[d] <= order[c] /\ order[c] <= order[d]
    BY <1>4 DEF LastOfEach
  <2> QED BY <1>2, <2>1, <2>2
<1> QED BY <1>3, <1>4

(* The gate opens exactly for what the enforcement permits and leaves as   *)
(* it is.                                                                  *)
LEMMA GateFacts ==
    ASSUME NEW decision \in Answers
    PROVE  Gate(decision) <=> Permits(decision) /\ ~Maps(decision)
<1>1. decision \in Answer
  BY McpAssumption
<1> QED BY <1>1 DEF Answer, Gate, Permits, Maps
-----------------------------------------------------------------------------
(* A listing                                                               *)

(* What a listing leaves alone: the setting, the registry, and everything  *)
(* an access has.                                                          *)
LEMMA ListingFrame ==
    ASSUME IInv, Listings
    PROVE  /\ UNCHANGED <<setting, registry, access>>
           /\ kind = "list" /\ ~IsAccess /\ ~IsAccess' /\ Stealth' = Stealth
           /\ found = None /\ ran = None /\ exit = None /\ value = None
           /\ SettingOK' /\ DeniedInv' /\ FinalizedOnce'
<1>1. UNCHANGED <<setting, registry, access>>
  BY DEF Listings, ListsAll, BuildsSubscriptions, Hides, ListingFails, listing
<1>2. kind = "list" /\ stage \in {"arrived", "listing"}
  BY DEF Listings, ListsAll, BuildsSubscriptions, Hides, ListingFails, IInv, Timeline
<1>3. found = None /\ ran = None /\ exit = None /\ value = None
  BY <1>2 DEF IInv, Timeline, None
<1>4. ~IsAccess /\ ~IsAccess' /\ Stealth' = Stealth
  BY <1>1, <1>2 DEF IsAccess, setting, Stealth
<1>5. SettingOK' /\ DeniedInv' /\ FinalizedOnce'
  BY <1>1, <1>3, <1>4 DEF IInv, SettingOK, DeniedInv, FinalizedOnce, setting, access
<1> QED BY <1>1, <1>2, <1>3, <1>4, <1>5

(* A listing that is sent is an answer, and nothing else of the request.   *)
LEMMA ListsTimeline ==
    ASSUME IInv, Listings, stage' = "over"
    PROVE  Timeline'
BY ListingFrame DEF IInv, Timeline, access, setting, IsAccess

(* A step of a listing keeps the invariant.                                *)
LEMMA ListingStep ==
    ASSUME IInv, Listings
    PROVE  IInv'
<1>0. /\ UNCHANGED <<setting, registry, access>>
      /\ kind = "list" /\ ~IsAccess /\ ~IsAccess' /\ Stealth' = Stealth
      /\ found = None /\ ran = None /\ exit = None /\ value = None
      /\ SettingOK' /\ DeniedInv' /\ FinalizedOnce'
  BY ListingFrame
<1>1. UNCHANGED <<stdio, enforce_listing, config, comp_id, policy, kind, registry, found, ran, value, exit, told>>
  BY <1>0 DEF setting, access
<1>2. Stealth \subseteq Components
  BY DEF Stealth
<1>3. \A c \in Components : Gate(policy[c]) <=> Permits(policy[c]) /\ ~Maps(policy[c])
  BY GateFacts DEF IInv, SettingOK
<1>4. \A order \in Orders, built \in SUBSET Stealth :
        /\ LastOfEach(order, built) \subseteq built
        /\ \A c, d \in LastOfEach(order, built) : comp_id[c] = comp_id[d] => c = d
  BY <1>2, LastOfEachFacts
<1>5. CASE ListsAll
  <2>1. stage' = "over" /\ answer' = "list" /\ visible' = Components
        /\ UNCHANGED <<subscribed, kept>> /\ (stdio \/ ~enforce_listing)
    BY <1>5 DEF ListsAll, Answered
  <2>2. TypeOK'
    BY <1>0, <1>1, <2>1 DEF IInv, TypeOK, Stages, Sent
  <2>3. ShownIsAllowed' /\ OthersAreShown' /\ SubscribedInv'
    BY <1>0, <1>1, <1>2, <2>1 DEF IInv, TypeOK, ShownIsAllowed, OthersAreShown, SubscribedInv
  <2> QED BY <1>0, <2>1, <2>2, <2>3, ListsTimeline DEF IInv
<1>6. CASE BuildsSubscriptions
  <2>1. PICK order \in Orders, built \in SUBSET Stealth :
          /\ subscribed' = LastOfEach(order, built)
          /\ kept' = Kept(order, built)
          /\ IF built = {}
             THEN visible' = Components \ Stealth /\ Answered("list")
             ELSE UNCHANGED <<visible, answer>> /\ stage' = "listing"
    BY <1>6 DEF BuildsSubscriptions
  <2>2. ~stdio /\ enforce_listing /\ answer = None
    BY <1>6 DEF BuildsSubscriptions, IInv, Timeline
  <2>3. /\ subscribed' \subseteq built /\ kept' = subscribed'
        /\ \A c, d \in subscribed' : comp_id[c] = comp_id[d] => c = d
    BY <1>4, <2>1 DEF Kept
  <2>4. SubscribedInv'
    BY <1>1, <2>3 DEF SubscribedInv
  <2>5. CASE built = {}
    <3>1. stage' = "over" /\ answer' = "list" /\ visible' = Components \ Stealth
          /\ subscribed' = {}
      BY <2>1, <2>3, <2>5 DEF Answered
    <3>2. TypeOK' /\ ShownIsAllowed' /\ OthersAreShown'
      BY <1>0, <1>1, <2>3, <3>1
         DEF IInv, TypeOK, ShownIsAllowed, OthersAreShown, Stages, Sent
    <3> QED BY <1>0, <2>4, <3>1, <3>2, ListsTimeline DEF IInv
  <2>6. CASE built # {}
    <3>1. stage' = "listing" /\ UNCHANGED <<visible, answer>>
      BY <2>1, <2>6
    <3>2. TypeOK' /\ ShownIsAllowed' /\ OthersAreShown'
      BY <1>0, <1>1, <2>2, <2>3, <3>1
         DEF IInv, TypeOK, ShownIsAllowed, OthersAreShown, Stages, None
    <3>3. Timeline'
      BY <1>0, <1>1, <1>6, <2>2, <3>1 DEF IInv, Timeline, BuildsSubscriptions
    <3> QED BY <1>0, <2>4, <3>2, <3>3 DEF IInv
  <2> QED BY <2>5, <2>6
<1>7. CASE Hides
  <2>1. /\ stage' = "over" /\ answer' = "list" /\ UNCHANGED <<subscribed, kept>>
        /\ visible' = (Components \ Stealth)
             \cup {c \in kept : \E d \in subscribed :
                                  comp_id[d] = comp_id[c] /\ Gate(policy[d])}
    BY <1>7 DEF Hides, Answered
  <2>2. kept = subscribed /\ subscribed \subseteq Stealth
        /\ \A c, d \in subscribed : comp_id[c] = comp_id[d] => c = d
    BY DEF IInv, SubscribedInv, TypeOK
  <2>3. visible' = (Components \ Stealth) \cup {c \in subscribed : Gate(policy[c])}
    BY <2>1, <2>2
  <2>4. TypeOK'
    BY <1>0, <1>1, <1>2, <2>1, <2>2, <2>3 DEF IInv, TypeOK, Stages, Sent
  <2>5. ShownIsAllowed' /\ OthersAreShown' /\ SubscribedInv'
    BY <1>0, <1>1, <1>2, <1>3, <2>1, <2>2, <2>3
       DEF ShownIsAllowed, OthersAreShown, SubscribedInv
  <2> QED BY <1>0, <2>1, <2>4, <2>5, ListsTimeline DEF IInv
<1>8. CASE ListingFails
  <2>1. stage' = "over" /\ answer' = "error" /\ UNCHANGED <<subscribed, kept, visible>>
    BY <1>8 DEF ListingFails, Answered, listing
  <2>2. TypeOK' /\ ShownIsAllowed' /\ OthersAreShown' /\ SubscribedInv'
    BY <1>0, <1>1, <2>1
       DEF IInv, TypeOK, ShownIsAllowed, OthersAreShown, SubscribedInv, Stages, Sent
  <2> QED BY <1>0, <2>1, <2>2, ListsTimeline DEF IInv
<1> QED BY <1>5, <1>6, <1>7, <1>8 DEF Listings
-----------------------------------------------------------------------------
(* An access                                                               *)

(* What the steps of an access have to keep.                               *)
AccessInv == TypeOK /\ Timeline /\ DeniedInv /\ FinalizedOnce

(* What an access step leaves alone, and what the request is before it.    *)
LEMMA AccessFrame ==
    ASSUME IInv, Accesses
    PROVE  /\ UNCHANGED <<stdio, enforce_listing, config, comp_id, policy, kind,
                          subscribed, kept, visible>>
           /\ stage # "over" /\ answer = None
           /\ config \in [Components -> Config]
           /\ policy \in [Components -> Answer]
           /\ IsAccess' = IsAccess /\ Stealth' = Stealth
<1>1. UNCHANGED <<setting, listing>> /\ stage # "over"
  BY DEF Accesses, Replaces, AuthChecks, Arrives, LooksUp, LooksUpTemplate,
         BuildsSubscription, RunsFirst, PreDecides, Runs, PostDecides, MapsValue,
         Cancelled, Leaves, Awaiting
<1>2. answer = None
  BY <1>1 DEF IInv, Timeline
<1>3. config \in [Components -> Config] /\ policy \in [Components -> Answer]
  BY McpAssumption DEF IInv, SettingOK
<1>4. UNCHANGED <<stdio, enforce_listing, config, comp_id, policy, kind,
                  subscribed, kept, visible>>
  BY <1>1 DEF setting, listing
<1>5. IsAccess' = IsAccess /\ Stealth' = Stealth
  BY <1>4 DEF IsAccess, Stealth
<1> QED BY <1>1, <1>2, <1>3, <1>4, <1>5

(* Each step of an access keeps what is said of accesses, and sends        *)
(* nothing that only a listing or the auth= path sends.                    *)
LEMMA AccessSteps ==
    ASSUME IInv, Accesses, ~AuthChecks
    PROVE  AccessInv' /\ answer' \notin {"list", "allowed"}
<1>1. /\ UNCHANGED <<stdio, enforce_listing, config, comp_id, policy, kind,
                     subscribed, kept, visible>>
      /\ stage # "over" /\ answer = None
      /\ config \in [Components -> Config]
      /\ policy \in [Components -> Answer]
      /\ IsAccess' = IsAccess /\ Stealth' = Stealth
  BY AccessFrame
<1>2. SettingOK /\ TypeOK /\ Timeline /\ DeniedInv /\ FinalizedOnce
  BY DEF IInv
<1>3. CASE \E component \in Components \cup {None} : Replaces(component)
  <2> USE <1>1, <1>2, <1>3 DEF Replaces, Awaiting, access
  <2>1. TypeOK'
    BY DEF TypeOK, Timeline, Stages, Awaiting
  <2>2. Timeline'
    BY DEF Timeline
  <2>3. DeniedInv'
    BY DEF DeniedInv, Conf, None
  <2>4. FinalizedOnce'
    BY DEF FinalizedOnce
  <2>5. answer' \notin {"list", "allowed"}
    BY DEF None
  <2> QED BY <2>1, <2>2, <2>3, <2>4, <2>5 DEF AccessInv
<1>4. CASE Arrives
  <2> USE <1>1, <1>2, <1>4 DEF Arrives, access
  <2>1. TypeOK'
    BY DEF TypeOK, Timeline, Stages, Awaiting
  <2>2. Timeline'
    BY DEF Timeline
  <2>3. DeniedInv'
    BY DEF Timeline, DeniedInv
  <2>4. FinalizedOnce'
    BY DEF FinalizedOnce
  <2>5. answer' \notin {"list", "allowed"}
    BY DEF None
  <2> QED BY <2>1, <2>2, <2>3, <2>4, <2>5 DEF AccessInv
<1>5. CASE LooksUp
  <2> USE <1>1, <1>2, <1>5 DEF LooksUp, Proceeds, LookupFails, Answered
  <2>1. TypeOK'
    BY DEF TypeOK, Timeline, Stages, Awaiting, Values, Exits, Sent, Conf, None
  <2>2. Timeline'
    BY DEF TypeOK, Timeline, None
  <2>3. DeniedInv'
    BY DEF TypeOK, Timeline, DeniedInv, Conf, None
  <2>4. FinalizedOnce'
    BY DEF Timeline, FinalizedOnce
  <2>5. answer' \notin {"list", "allowed"}
    BY DEF None
  <2> QED BY <2>1, <2>2, <2>3, <2>4, <2>5 DEF AccessInv
<1>6. CASE LooksUpTemplate
  <2> USE <1>1, <1>2, <1>6 DEF LooksUpTemplate, Proceeds, LookupFails, Answered
  <2>1. TypeOK'
    BY DEF TypeOK, Timeline, Stages, Awaiting, Values, Exits, Sent, Conf, None
  <2>2. Timeline'
    BY DEF TypeOK, Timeline, None
  <2>3. DeniedInv'
    BY DEF TypeOK, Timeline, DeniedInv, Conf, None
  <2>4. FinalizedOnce'
    BY DEF Timeline, FinalizedOnce
  <2>5. answer' \notin {"list", "allowed"}
    BY DEF None
  <2> QED BY <2>1, <2>2, <2>3, <2>4, <2>5 DEF AccessInv
<1>7. CASE BuildsSubscription
  <2> USE <1>1, <1>2, <1>7 DEF BuildsSubscription, Exit
  <2>1. TypeOK'
    BY DEF TypeOK, Timeline, Stages, Awaiting, Values, Exits, Sent, Conf, None
  <2>2. Timeline'
    BY DEF Timeline, None
  <2>3. DeniedInv'
    BY DEF TypeOK, Timeline, DeniedInv, Conf, None
  <2>4. FinalizedOnce'
    BY DEF FinalizedOnce
  <2>5. answer' \notin {"list", "allowed"}
    BY DEF None
  <2> QED BY <2>1, <2>2, <2>3, <2>4, <2>5 DEF AccessInv
<1>8. CASE RunsFirst
  <2> USE <1>1, <1>2, <1>8 DEF RunsFirst, access
  <2>1. TypeOK'
    BY DEF TypeOK, Timeline, Stages, Awaiting
  <2>2. Timeline'
    BY DEF Timeline
  <2>3. DeniedInv'
    BY DEF DeniedInv, Conf
  <2>4. FinalizedOnce'
    BY DEF FinalizedOnce
  <2>5. answer' \notin {"list", "allowed"}
    BY DEF None
  <2> QED BY <2>1, <2>2, <2>3, <2>4, <2>5 DEF AccessInv
<1>9. CASE PreDecides
  <2> USE <1>1, <1>2, <1>9 DEF PreDecides, Exit
  <2>1. TypeOK'
    BY DEF TypeOK, Timeline, Stages, Awaiting, Values, Exits, Sent, Conf, None
  <2>2. Timeline'
    BY DEF Timeline, None
  <2>3. DeniedInv'
    BY DEF DeniedInv, Conf
  <2>4. FinalizedOnce'
    BY DEF FinalizedOnce
  <2>5. answer' \notin {"list", "allowed"}
    BY DEF None
  <2> QED BY <2>1, <2>2, <2>3, <2>4, <2>5 DEF AccessInv
<1>10. CASE Runs
  <2> USE <1>1, <1>2, <1>10 DEF Runs, Unenforced, Exit, Answered
  <2>1. TypeOK'
    BY DEF TypeOK, Timeline, Stages, Awaiting, Values, Exits, Sent, Conf, None
  <2>2. Timeline'
    BY DEF Timeline, None
  <2>3. DeniedInv'
    BY DEF TypeOK, Timeline, DeniedInv, Conf, None
  <2>4. FinalizedOnce'
    BY DEF Timeline, FinalizedOnce
  <2>5. answer' \notin {"list", "allowed"}
    BY DEF None
  <2> QED BY <2>1, <2>2, <2>3, <2>4, <2>5 DEF AccessInv
<1>11. CASE PostDecides
  <2> USE <1>1, <1>2, <1>11 DEF PostDecides, Exit
  <2>1. TypeOK'
    BY DEF TypeOK, Timeline, Stages, Awaiting, Values, Exits, Sent, Conf, None
  <2>2. Timeline'
    BY DEF Timeline, None
  <2>3. DeniedInv'
    BY DEF TypeOK, Timeline, DeniedInv, Conf, None
  <2>4. FinalizedOnce'
    BY DEF FinalizedOnce
  <2>5. answer' \notin {"list", "allowed"}
    BY DEF None
  <2> QED BY <2>1, <2>2, <2>3, <2>4, <2>5 DEF AccessInv
<1>12. CASE MapsValue
  <2> USE <1>1, <1>2, <1>12 DEF MapsValue, Exit
  <2>1. TypeOK'
    BY DEF TypeOK, Timeline, Stages, Awaiting, Values, Exits, Sent, Conf, None
  <2>2. Timeline'
    BY DEF TypeOK, Timeline, None
  <2>3. DeniedInv'
    BY DEF TypeOK, Timeline, DeniedInv, Conf, None
  <2>4. FinalizedOnce'
    BY DEF FinalizedOnce
  <2>5. answer' \notin {"list", "allowed"}
    BY DEF None
  <2> QED BY <2>1, <2>2, <2>3, <2>4, <2>5 DEF AccessInv
<1>13. CASE Cancelled
  <2> USE <1>1, <1>2, <1>13 DEF Cancelled, Exit, Answered, Awaiting, Unenforced
  <2>1. TypeOK'
    BY DEF TypeOK, Timeline, Stages, Awaiting, Values, Exits, Sent, Conf, None
  <2>2. Timeline'
    BY DEF Timeline, None
  <2>3. DeniedInv'
    BY DEF TypeOK, Timeline, DeniedInv, Conf, None
  <2>4. FinalizedOnce'
    BY DEF Timeline, FinalizedOnce
  <2>5. answer' \notin {"list", "allowed"}
    BY DEF None
  <2> QED BY <2>1, <2>2, <2>3, <2>4, <2>5 DEF AccessInv
<1>14. CASE Leaves
  <2> USE <1>1, <1>2
  <2>1. /\ stage = "leaving" /\ stage' = "over" /\ told = <<>> /\ exit # None
        /\ UNCHANGED <<registry, found, ran, value, exit>>
        /\ found \in Components /\ Conf.guarded
    BY <1>14 DEF Leaves, Answered, Timeline, TypeOK, Conf, setting, listing, None
  <2>2. told' = IF Conf.finalize THEN <<Outcome>> ELSE <<>>
    BY <1>14, <2>1 DEF Leaves
  <2>3. Outcome = IF value # None THEN "PERMIT" ELSE "DENY"
    BY DEF Outcome, Timeline
  <2>4. /\ exit = "value" => Reply \in {"mapped", "original"}
        /\ exit = "denied" => Reply = IF Conf.stealth THEN "not found" ELSE "denied"
        /\ exit \in {"error", "cancelled"} => Reply = exit
    BY DEF Reply
  <2>5. exit \in {"value", "denied", "error", "cancelled"}
    BY <2>1 DEF TypeOK, Exits
  <2>6. /\ answer' \in {Reply, "cancelled", "error"}
        /\ answer' \in {"mapped", "original", "not found", "denied", "error", "cancelled"}
    BY <1>14, <2>4, <2>5 DEF Leaves, Answered
  <2>7. TypeOK'
    <3>1. \A what \in {"PERMIT", "DENY"} : <<what>> \in Seq({"PERMIT", "DENY"})
      OBVIOUS
    <3>2. Outcome \in {"PERMIT", "DENY"}
      BY <2>3
    <3>3. <<>> \in Seq({"PERMIT", "DENY"})
      OBVIOUS
    <3>4. told' \in Seq({"PERMIT", "DENY"})
      BY <2>2, <3>1, <3>2, <3>3
    <3> QED BY <2>1, <2>6, <3>4 DEF TypeOK, Stages, Sent, Values
  <2>8. Timeline'
    BY <2>1 DEF Timeline
  <2>9. DeniedInv'
    BY <2>1, <2>4, <2>5, <2>6 DEF DeniedInv, Conf
  <2>10. FinalizedOnce'
    BY <2>1, <2>2, <2>3 DEF FinalizedOnce, Conf
  <2> QED BY <2>6, <2>7, <2>8, <2>9, <2>10 DEF AccessInv
<1> QED BY <1>3, <1>4, <1>5, <1>6, <1>7, <1>8, <1>9, <1>10, <1>11, <1>12, <1>13, <1>14 DEF Accesses

(* The auth= path answers at once, from the gate alone.                    *)
LEMMA AuthStep ==
    ASSUME IInv, AuthChecks
    PROVE  AccessInv' /\ ShownIsAllowed' /\ answer' # "list"
<1> USE DEF IInv
<1>1. Accesses
  BY DEF Accesses
<1>2. /\ UNCHANGED <<stdio, enforce_listing, config, comp_id, policy, kind,
                     subscribed, kept, visible>>
      /\ IsAccess' = IsAccess /\ Stealth' = Stealth
  BY <1>1, AccessFrame
<1>3. /\ UNCHANGED <<registry, ran, value, exit, told>>
      /\ stage = "arrived" /\ stage' = "over" /\ ~IsAccess
      /\ registry \in Components /\ found' = registry
      /\ answer' = IF policy[registry].verb \in {"PERMIT", "DENY"} /\ Gate(policy[registry])
                   THEN "allowed" ELSE "refused"
  BY DEF AuthChecks, Answered, IsAccess, Timeline, TypeOK
<1>4. answer' = "allowed" => Permits(policy[registry]) /\ ~Maps(policy[registry])
  BY <1>3, GateFacts DEF SettingOK
<1>5. TypeOK'
  BY <1>2, <1>3 DEF TypeOK, Stages, Sent
<1>6. Timeline' /\ DeniedInv' /\ FinalizedOnce'
  BY <1>2, <1>3 DEF Timeline, DeniedInv, FinalizedOnce
<1>7. ShownIsAllowed' /\ answer' # "list"
  BY <1>2, <1>3, <1>4 DEF ShownIsAllowed
<1> QED BY <1>5, <1>6, <1>7 DEF AccessInv

(* A step of an access keeps the invariant.                                *)
LEMMA AccessStep ==
    ASSUME IInv, Accesses
    PROVE  IInv'
<1>1. /\ UNCHANGED <<stdio, enforce_listing, config, comp_id, policy, kind,
                     subscribed, kept, visible>>
      /\ Stealth' = Stealth
  BY AccessFrame
<1>2. SettingOK' /\ SubscribedInv'
  BY <1>1 DEF IInv, SettingOK, SubscribedInv
<1>3. AccessInv' /\ answer' # "list" /\ ShownIsAllowed'
  <2>1. CASE AuthChecks
    BY <2>1, AuthStep
  <2>2. CASE ~AuthChecks
    <3>1. AccessInv' /\ answer' \notin {"list", "allowed"}
      BY <2>2, AccessSteps
    <3> QED BY <3>1 DEF ShownIsAllowed
  <2> QED BY <2>1, <2>2
<1>4. OthersAreShown'
  BY <1>3 DEF OthersAreShown
<1> QED BY <1>2, <1>3, <1>4 DEF IInv, AccessInv
-----------------------------------------------------------------------------
(* The theorems                                                            *)

(* The invariant holds of a request in every state it can be in.           *)
THEOREM McpInvariant == Spec => []IInv
<1>1. Init => IInv
  <2> SUFFICES ASSUME Init PROVE IInv
    OBVIOUS
  <2>1. SettingOK
    BY DEF Init, SettingOK
  <2>2. TypeOK
    BY DEF Init, TypeOK, Stages, Values, Exits, Sent
  <2>3. Timeline /\ DeniedInv /\ SubscribedInv
    BY DEF Init, Timeline, DeniedInv, SubscribedInv, None
  <2>4. ShownIsAllowed /\ OthersAreShown /\ FinalizedOnce
    BY DEF Init, ShownIsAllowed, OthersAreShown, FinalizedOnce, None
  <2> QED BY <2>1, <2>2, <2>3, <2>4 DEF IInv
<1>2. IInv /\ [Next]_vars => IInv'
  <2> SUFFICES ASSUME IInv, [Next]_vars PROVE IInv'
    OBVIOUS
  <2>1. CASE Listings
    BY <2>1, ListingStep
  <2>2. CASE Accesses
    BY <2>2, AccessStep
  <2>3. CASE UNCHANGED vars
    <3>1. SettingOK' /\ Timeline' /\ DeniedInv'
      BY <2>3 DEF IInv, vars, SettingOK, Timeline, DeniedInv, Conf, IsAccess
    <3>2. TypeOK' /\ SubscribedInv'
      BY <2>3 DEF IInv, vars, TypeOK, SubscribedInv, Stealth
    <3>3. ShownIsAllowed' /\ OthersAreShown' /\ FinalizedOnce'
      BY <2>3 DEF IInv, vars, ShownIsAllowed, OthersAreShown, FinalizedOnce, Stealth, Conf
    <3> QED BY <3>1, <3>2, <3>3 DEF IInv
  <2>4. Next => Listings \/ Accesses
    BY DEF Next, Listings, Accesses
  <2> QED BY <2>1, <2>2, <2>3, <2>4
<1> QED BY <1>1, <1>2, PTL DEF Spec

(* An enforced listing shows of the stealth components exactly those the   *)
(* policy lets the client use as they are, however many components share   *)
(* an identifier and whichever subscriptions fail, and the auth= path lets *)
(* nothing else pass.                                                      *)
THEOREM ListingCorrect == Spec => []ListingInv
<1>1. IInv => ListingInv
  BY DEF IInv, ListingInv
<1> QED BY <1>1, McpInvariant, PTL

(* A client the policy does not permit gets no value of the component it   *)
(* was found to ask for, whatever replaces the component meanwhile.        *)
THEOREM DeniedIsDenied == Spec => []DeniedLearnsNothing
<1>1. IInv => DeniedLearnsNothing
  BY DEF IInv, DeniedInv, DeniedLearnsNothing
<1> QED BY <1>1, McpInvariant, PTL

(* The finalize callback is called once for every enforced access, and is  *)
(* told of a PERMIT exactly when a value was released.                     *)
THEOREM FinalizeCalledOnce == Spec => []FinalizedOnce
<1>1. IInv => FinalizedOnce
  BY DEF IInv
<1> QED BY <1>1, McpInvariant, PTL
=============================================================================
