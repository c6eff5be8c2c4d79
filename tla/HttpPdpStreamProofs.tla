--------------------------- MODULE HttpPdpStreamProofs ---------------------------
(***************************************************************************)
(* Proofs about HttpPdpStream: type correctness, what a consumer holds     *)
(* while it is connected, and the refinement of PdpFeed.                   *)
(***************************************************************************)
EXTENDS HttpPdpStream, SequenceTheorems, TLAPS

-----------------------------------------------------------------------------
(* Emissions                                                               *)

\* A frame speaks of subscriptions and gives them decisions.
LEMMA FrameFacts ==
    ASSUME NEW f \in ValidFrames \cup {Garbled}
    PROVE  /\ DOMAIN f \subseteq Ids
           /\ \A i \in DOMAIN f : f[i] \in Decisions /\ f[i] # None
<1>1. None \notin Decisions
  BY HttpStreamAssumption DEF Decisions
<1>2. CASE f = Garbled
  BY <1>2 DEF Garbled, Nobody
<1>3. CASE f \in ValidFrames /\ route = "multi_decide_all"
  BY <1>1, <1>3 DEF ValidFrames
<1>4. CASE f \in ValidFrames /\ route # "multi_decide_all"
  <2>1. PICK i \in Ids : f \in [{i} -> Decisions]
    BY <1>4 DEF ValidFrames
  <2> QED BY <1>1, <2>1
<1> QED BY <1>2, <1>3, <1>4

\* Writing an emission over what a consumer holds.
LEMMA MergeFacts ==
    ASSUME NEW f \in ValidFrames \cup {Garbled},
           NEW held \in [Ids -> Decisions \cup {None}]
    PROVE  /\ Merged(f, held) \in [Ids -> Decisions \cup {None}]
           /\ \A i \in Ids :
                /\ Merged(f, held)[i] = IF i \in DOMAIN f THEN f[i] ELSE held[i]
                /\ i \in DOMAIN f => Merged(f, held)[i] # None
BY FrameFacts DEF Merged

\* The seeds are valid emissions of INDETERMINATE, and together speak of everyone.
LEMMA SeedsFacts ==
    ASSUME route \in Routes
    PROVE  /\ Len(Seeds) \in Nat
           /\ \A k \in 1..Len(Seeds) :
                /\ Seeds[k] \in ValidFrames
                /\ \A i \in DOMAIN Seeds[k] : Seeds[k][i] = INDETERMINATE
           /\ \A i \in Ids : \E k \in 1..Len(Seeds) : i \in DOMAIN Seeds[k]
<1>1. INDETERMINATE \in Decisions
  BY DEF Decisions
<1>2. CASE route = "multi_decide_all"
  <2>1. Seeds = <<[i \in Ids |-> INDETERMINATE]>>
    BY <1>2 DEF Seeds
  <2>2. Len(Seeds) = 1 /\ Seeds[1] = [i \in Ids |-> INDETERMINATE]
    BY <2>1
  <2>3. ValidFrames = [Ids -> Decisions]
    BY <1>2 DEF ValidFrames
  <2> QED BY <1>1, <2>2, <2>3
<1>3. CASE route = "multi_decide"
  <2>1. SeedOrder \in Seq(Ids) /\ DOMAIN SeedOrder = 1..Len(SeedOrder)
        /\ Len(SeedOrder) \in Nat
    BY HttpStreamAssumption
  <2>2. Seeds = [k \in 1..Len(SeedOrder) |-> [i \in {SeedOrder[k]} |-> INDETERMINATE]]
    BY <1>3, <2>1 DEF Seeds
  <2>3. Len(Seeds) = Len(SeedOrder)
    BY <2>1, <2>2
  <2>4. \A k \in 1..Len(Seeds) : Seeds[k] = [i \in {SeedOrder[k]} |-> INDETERMINATE]
    BY <2>2, <2>3
  <2>5. \A k \in 1..Len(Seeds) : SeedOrder[k] \in Ids
    BY <2>1, <2>3
  <2>6. ValidFrames = UNION {[{i} -> Decisions] : i \in Ids}
    BY <1>3 DEF ValidFrames
  <2>7. \A i \in Ids : \E k \in 1..Len(Seeds) : SeedOrder[k] = i
    BY <2>1, <2>3, HttpStreamAssumption
  <2>8. \A k \in 1..Len(Seeds) : Seeds[k] \in ValidFrames
    <3> TAKE k \in 1..Len(Seeds)
    <3>1. Seeds[k] \in [{SeedOrder[k]} -> Decisions]
      BY <1>1, <2>4
    <3> QED BY <3>1, <2>5, <2>6
  <2>9. \A k \in 1..Len(Seeds) : \A i \in DOMAIN Seeds[k] : Seeds[k][i] = INDETERMINATE
    BY <2>4
  <2>10. \A i \in Ids : \E k \in 1..Len(Seeds) : i \in DOMAIN Seeds[k]
    BY <2>4, <2>7
  <2>11. Len(Seeds) \in Nat
    BY <2>1, <2>3
  <2> QED BY <2>8, <2>9, <2>10, <2>11
<1> QED BY <1>2, <1>3 DEF Routes

LEMMA RouteKept ==
    ASSUME route' = route
    PROVE  ValidFrames' = ValidFrames /\ Seeds' = Seeds
BY DEF ValidFrames, Seeds

-----------------------------------------------------------------------------
(* The inductive invariant                                                 *)

\* What the stage says about the other variables.
Phases ==
    /\ stage = "requested" => wire = <<>>
    /\ stage \in {"connecting", "requested", "sleeping"} => NoVerdict
    /\ stage = "seeding" => attempt > 0
    /\ stage = "yielding" /\ attempt > 0 => link = "none" /\ wire = <<>>
    /\ attempt > FloatExponent => stage = "raised"

\* Nothing is emitted behind the back of the suppression of repeats.
LastIsShown == \A i \in DOMAIN last_emitted : shown[i] = last_emitted[i]

\* The seeds that are done have withdrawn their verdicts.
SeedsAreShown ==
    stage = "seeding" \/ (stage = "yielding" /\ attempt > 0) =>
        \A k \in 1..seeded : \A i \in DOMAIN Seeds[k] : shown[i] = INDETERMINATE

\* For a subscription, the consumer has what the server said last ...
Current(i) ==
    IF told[i] = None THEN shown[i] \in {None, INDETERMINATE} ELSE shown[i] = told[i]

\* ... or that is on the wire, and nothing about the subscription is behind it.
Coming(i) ==
    \E k \in DOMAIN wire :
        /\ i \in DOMAIN wire[k] /\ wire[k][i] = told[i]
        /\ \A h \in DOMAIN wire : h > k => i \notin DOMAIN wire[h]

Unmentioned(i) == \A k \in DOMAIN wire : i \notin DOMAIN wire[k]

InTransit ==
    Connected /\ link \in {"alive", "silent"} =>
        \A i \in Ids : Coming(i) \/ (Unmentioned(i) /\ Current(i))

IInv == TypeOK /\ Phases /\ LastIsShown /\ SeedsAreShown /\ InTransit

\* The invariant is about the variables alone.
LEMMA StutterIInv == ASSUME IInv, UNCHANGED vars PROVE IInv'
<1>1. ValidFrames' = ValidFrames /\ Seeds' = Seeds
  BY RouteKept DEF vars
<1> QED
  BY <1>1 DEF IInv, TypeOK, Phases, LastIsShown, SeedsAreShown, InTransit, vars, NoVerdict,
              Connected, Coming, Unmentioned, Current

LEMMA InitIInv == ASSUME Init PROVE IInv
<1>1. TypeOK
  <2>1. route \in Routes /\ Len(Seeds) \in Nat
    BY SeedsFacts DEF Init
  <2>2. <<>> \in Seq(ValidFrames \cup {Garbled}) /\ Len(<<>>) <= MaxWire
    BY HttpStreamAssumption
  <2> QED
    BY <2>1, <2>2, HttpStreamAssumption DEF Init, TypeOK, Stages, Links, Nothing
<1>2. Phases /\ LastIsShown /\ SeedsAreShown /\ InTransit
  BY HttpStreamAssumption
     DEF Init, Phases, LastIsShown, SeedsAreShown, InTransit, Connected, NoVerdict,
         Nothing, Nobody
<1> QED BY <1>1, <1>2 DEF IInv

\* Emitting, suppressed or not, leaves the consumer with the emission.
LEMMA EmitFacts ==
    ASSUME TypeOK, LastIsShown, NEW e \in ValidFrames, NEW s, Emit(e, s)
    PROVE  /\ shown' = Merged(e, shown)
           /\ last_emitted' = e
           /\ stage' \in {s, "yielding"}
           /\ shown' \in [Ids -> Decisions \cup {None}]
           /\ LastIsShown'
<1>1. CASE e = last_emitted
  <2>1. Merged(e, shown) = [i \in Ids |-> shown[i]]
    BY <1>1 DEF Merged, LastIsShown
  <2>2. shown = [i \in Ids |-> shown[i]]
    BY DEF TypeOK
  <2> QED BY <1>1, <2>1, <2>2 DEF Emit, TypeOK, LastIsShown
<1>2. CASE e # last_emitted
  <2>1. shown' = Merged(e, shown) /\ last_emitted' = e /\ stage' = "yielding"
    BY <1>2 DEF Emit
  <2>2. shown \in [Ids -> Decisions \cup {None}]
    BY DEF TypeOK
  <2> QED BY <2>1, <2>2, MergeFacts, FrameFacts DEF LastIsShown
<1> QED BY <1>1, <1>2

LEMMA BreaksIInv ==
    ASSUME IInv, Breaks, stage # "raised"
    PROVE  IInv'
<1>1. ValidFrames' = ValidFrames /\ Seeds' = Seeds
  BY RouteKept DEF Breaks
<1>2. attempt \in 0..FloatExponent /\ FloatExponent \in Nat
  BY HttpStreamAssumption DEF IInv, TypeOK, Phases
<1>3. TypeOK'
  <2>1. <<>> \in Seq(ValidFrames \cup {Garbled}) /\ Len(<<>>) <= MaxWire
    BY HttpStreamAssumption
  <2>2. route \in Routes /\ Len(Seeds) \in Nat
    BY SeedsFacts DEF IInv, TypeOK
  <2> QED BY <1>1, <1>2, <2>1, <2>2 DEF IInv, TypeOK, Breaks, Stages, Links
<1>4. Phases' /\ LastIsShown' /\ SeedsAreShown' /\ InTransit'
  BY <1>2 DEF IInv, Breaks, BackoffOverflows, Phases, LastIsShown, SeedsAreShown, InTransit,
              Connected
<1> QED BY <1>3, <1>4 DEF IInv

-----------------------------------------------------------------------------
(* The steps of the server                                                 *)

LEMMA SendsIInv ==
    ASSUME IInv, NEW frame \in ValidFrames \cup {Garbled}, Sends(frame)
    PROVE  IInv'
<1>1. ValidFrames' = ValidFrames /\ Seeds' = Seeds
  BY RouteKept DEF Sends
<1>2. wire \in Seq(ValidFrames \cup {Garbled}) /\ told \in [Ids -> Decisions \cup {None}]
  BY DEF IInv, TypeOK
<1>3. /\ wire' \in Seq(ValidFrames \cup {Garbled})
      /\ Len(wire') = Len(wire) + 1 /\ Len(wire) \in Nat
      /\ DOMAIN wire = 1..Len(wire) /\ DOMAIN wire' = 1..(Len(wire) + 1)
      /\ wire'[Len(wire) + 1] = frame
      /\ \A k \in 1..Len(wire) : wire'[k] = wire[k]
  BY <1>2 DEF Sends
<1>4. /\ told' \in [Ids -> Decisions \cup {None}]
      /\ \A i \in Ids : told'[i] = IF i \in DOMAIN frame THEN frame[i] ELSE told[i]
  BY <1>2, MergeFacts DEF Sends
<1>5. TypeOK'
  BY <1>1, <1>3, <1>4, HttpStreamAssumption DEF IInv, TypeOK, Sends
<1>6. Phases' /\ LastIsShown' /\ SeedsAreShown'
  BY <1>1 DEF IInv, Sends, Phases, LastIsShown, SeedsAreShown, NoVerdict
<1>7. InTransit'
  <2> SUFFICES ASSUME Connected', NEW i \in Ids
               PROVE  Coming(i)' \/ (Unmentioned(i)' /\ Current(i)')
    BY DEF InTransit
  <2>1. Coming(i) \/ (Unmentioned(i) /\ Current(i))
    BY DEF IInv, InTransit, Sends, Connected
  <2>2. CASE i \in DOMAIN frame
    <3>1. told'[i] = frame[i]
      BY <1>4, <2>2
    <3>2. Len(wire) + 1 \in DOMAIN wire'
      BY <1>3
    <3>3. \A h \in DOMAIN wire' : ~(h > Len(wire) + 1)
      BY <1>3
    <3> QED BY <1>3, <2>2, <3>1, <3>2, <3>3 DEF Coming
  <2>3. CASE i \notin DOMAIN frame /\ Coming(i)
    <3>1. PICK k \in DOMAIN wire :
            /\ i \in DOMAIN wire[k] /\ wire[k][i] = told[i]
            /\ \A h \in DOMAIN wire : h > k => i \notin DOMAIN wire[h]
      BY <2>3 DEF Coming
    <3>2. k \in DOMAIN wire' /\ wire'[k] = wire[k] /\ told'[i] = told[i]
      BY <1>3, <1>4, <2>3
    <3>3. \A h \in DOMAIN wire' : h > k => i \notin DOMAIN wire'[h]
      BY <1>3, <2>3, <3>1
    <3> QED BY <3>1, <3>2, <3>3 DEF Coming
  <2>4. CASE i \notin DOMAIN frame /\ Unmentioned(i) /\ Current(i)
    <3>1. told'[i] = told[i] /\ shown' = shown
      BY <1>4, <2>4 DEF Sends
    <3>2. \A h \in DOMAIN wire' : i \notin DOMAIN wire'[h]
      BY <1>3, <2>4 DEF Unmentioned
    <3> QED BY <2>4, <3>1, <3>2 DEF Unmentioned, Current
  <2> QED BY <2>1, <2>2, <2>3, <2>4
<1> QED BY <1>5, <1>6, <1>7 DEF IInv

LEMMA GoesSilentIInv == ASSUME IInv, GoesSilent PROVE IInv'
<1>1. ValidFrames' = ValidFrames /\ Seeds' = Seeds
  BY RouteKept DEF GoesSilent
<1>2. TypeOK'
  BY <1>1 DEF IInv, TypeOK, GoesSilent, Links
<1>3. Phases' /\ LastIsShown' /\ SeedsAreShown'
  BY <1>1 DEF IInv, GoesSilent, Phases, LastIsShown, SeedsAreShown, NoVerdict
<1>4. InTransit'
  BY DEF IInv, GoesSilent, InTransit, Connected, Coming, Unmentioned, Current
<1> QED BY <1>2, <1>3, <1>4 DEF IInv

LEMMA EndsIInv == ASSUME IInv, Ends PROVE IInv'
<1>1. ValidFrames' = ValidFrames /\ Seeds' = Seeds
  BY RouteKept DEF Ends
<1>2. PICK n \in 0..Len(wire) : wire' = SubSeq(wire, 1, n)
  BY DEF Ends
<1>3. wire \in Seq(ValidFrames \cup {Garbled}) /\ Len(wire) \in Nat
  BY DEF IInv, TypeOK
<1>4. wire' \in Seq(ValidFrames \cup {Garbled}) /\ Len(wire') <= MaxWire
  <2>1. SubSeq(wire, 1, n) \in Seq(ValidFrames \cup {Garbled}) /\ Len(SubSeq(wire, 1, n)) = n
    BY <1>2, <1>3
  <2> QED BY <1>2, <1>3, <2>1, HttpStreamAssumption DEF IInv, TypeOK
<1>5. TypeOK'
  BY <1>1, <1>4 DEF IInv, TypeOK, Ends, Links
<1>6. Phases' /\ LastIsShown' /\ SeedsAreShown' /\ InTransit'
  BY <1>1 DEF IInv, Ends, Phases, LastIsShown, SeedsAreShown, InTransit, NoVerdict
<1> QED BY <1>5, <1>6 DEF IInv

-----------------------------------------------------------------------------
(* The steps of the client                                                 *)

\* The steps outside a connection, and those that leave the stream.
LEMMA OutsideIInv ==
    ASSUME IInv, Requests \/ AuthorizationRaises \/ Wakes \/ ConsumerLeaves
    PROVE  IInv'
<1>1. ValidFrames' = ValidFrames /\ Seeds' = Seeds
  BY RouteKept DEF Requests, AuthorizationRaises, Wakes, ConsumerLeaves
<1>2. <<>> \in Seq(ValidFrames \cup {Garbled}) /\ Len(<<>>) <= MaxWire
  BY HttpStreamAssumption
<1>3. TypeOK'
  BY <1>1, <1>2
     DEF IInv, TypeOK, Stages, Links, Requests, AuthorizationRaises, Wakes, ConsumerLeaves
<1>4. Phases' /\ LastIsShown' /\ SeedsAreShown' /\ InTransit'
  <2>1. attempt <= FloatExponent
    BY HttpStreamAssumption
       DEF IInv, TypeOK, Phases, Requests, AuthorizationRaises, Wakes, ConsumerLeaves, Over
  <2>2. Phases'
    BY <2>1, HttpStreamAssumption
       DEF IInv, TypeOK, Phases, NoVerdict, Requests, AuthorizationRaises, Wakes, ConsumerLeaves
  <2>3. LastIsShown' /\ SeedsAreShown' /\ InTransit'
    BY DEF IInv, LastIsShown, SeedsAreShown, InTransit, Connected, Requests,
           AuthorizationRaises, Wakes, ConsumerLeaves
  <2> QED BY <2>2, <2>3
<1> QED BY <1>3, <1>4 DEF IInv

LEMMA RespondsIInv == ASSUME IInv, Responds PROVE IInv'
<1>1. ValidFrames' = ValidFrames /\ Seeds' = Seeds
  BY RouteKept DEF Responds
<1>2. TypeOK'
  BY <1>1 DEF IInv, TypeOK, Responds, Stages, Nothing
<1>3. Phases' /\ LastIsShown' /\ SeedsAreShown'
  BY HttpStreamAssumption DEF IInv, TypeOK, Responds, Phases, LastIsShown, SeedsAreShown
<1>4. wire' = <<>> /\ NoVerdict
  BY DEF IInv, Phases, Responds
<1>5. InTransit'
  BY <1>4 DEF InTransit, Unmentioned, Current, NoVerdict, Nothing, Responds
<1> QED BY <1>2, <1>3, <1>5 DEF IInv

\* When every seed is done the consumer holds no verdict.
LEMMA SeededNoVerdict ==
    ASSUME IInv, stage = "seeding", seeded = Len(Seeds)
    PROVE  NoVerdict
<1> SUFFICES ASSUME NEW i \in Ids PROVE shown[i] = INDETERMINATE
  BY DEF NoVerdict
<1>1. PICK k \in 1..Len(Seeds) : i \in DOMAIN Seeds[k]
  BY SeedsFacts DEF IInv, TypeOK
<1> QED BY <1>1 DEF IInv, SeedsAreShown

LEMMA BacksOffIInv == ASSUME IInv, BacksOff PROVE IInv'
<1>1. ValidFrames' = ValidFrames /\ Seeds' = Seeds
  BY RouteKept DEF BacksOff
<1>2. TypeOK'
  BY <1>1 DEF IInv, TypeOK, BacksOff, Stages
<1>3. NoVerdict'
  BY SeededNoVerdict DEF BacksOff, NoVerdict
<1>4. Phases' /\ LastIsShown' /\ SeedsAreShown' /\ InTransit'
  BY <1>3 DEF IInv, BacksOff, Phases, LastIsShown, SeedsAreShown, InTransit, Connected
<1> QED BY <1>2, <1>4 DEF IInv

LEMMA ConsumerResumesIInv == ASSUME IInv, ConsumerResumes PROVE IInv'
<1>1. ValidFrames' = ValidFrames /\ Seeds' = Seeds
  BY RouteKept DEF ConsumerResumes
<1>2. attempt \in Nat
  BY HttpStreamAssumption DEF IInv, TypeOK
<1>3. TypeOK'
  BY <1>1, <1>2 DEF IInv, TypeOK, ConsumerResumes, Stages, Phases
<1>4. Phases' /\ LastIsShown'
  BY <1>2 DEF IInv, ConsumerResumes, Phases, LastIsShown
<1>5. SeedsAreShown'
  BY <1>1, <1>2 DEF IInv, ConsumerResumes, SeedsAreShown
<1>6. InTransit'
  BY <1>2 DEF IInv, ConsumerResumes, InTransit, Connected, Coming, Unmentioned, Current
<1> QED BY <1>3, <1>4, <1>5, <1>6 DEF IInv

LEMMA SeedIInv == ASSUME IInv, Seed PROVE IInv'
<1>1. ValidFrames' = ValidFrames /\ Seeds' = Seeds
  BY RouteKept DEF Seed
<1>2. /\ Len(Seeds) \in Nat /\ seeded \in Nat /\ seeded' = seeded + 1
      /\ seeded + 1 \in 1..Len(Seeds)
      /\ Seeds[seeded + 1] \in ValidFrames
      /\ \A i \in DOMAIN Seeds[seeded + 1] : Seeds[seeded + 1][i] = INDETERMINATE
  BY SeedsFacts DEF IInv, TypeOK, Seed
<1> DEFINE e == Seeds[seeded + 1]
<1>3. /\ shown' = Merged(e, shown) /\ last_emitted' = e
      /\ stage' \in {"seeding", "yielding"}
      /\ shown' \in [Ids -> Decisions \cup {None}]
      /\ LastIsShown'
  BY <1>2, EmitFacts DEF IInv, Seed
<1>4. link = "none" /\ wire = <<>> /\ attempt > 0 /\ attempt \in Nat
  BY HttpStreamAssumption DEF IInv, TypeOK, Phases, Seed
<1>5. TypeOK'
  BY <1>1, <1>2, <1>3, <1>4 DEF IInv, TypeOK, Seed, Stages
<1>6. Phases'
  BY <1>3, <1>4, HttpStreamAssumption DEF IInv, Phases, Seed
<1>7. SeedsAreShown'
  <2> SUFFICES ASSUME NEW k \in 1..(seeded + 1), NEW i \in DOMAIN Seeds[k]
               PROVE  shown'[i] = INDETERMINATE
    BY <1>1, <1>2 DEF SeedsAreShown
  <2>1. k \in 1..Len(Seeds) /\ i \in Ids
    <3>1. k \in 1..Len(Seeds)
      BY <1>2
    <3> QED BY <3>1, SeedsFacts, FrameFacts DEF IInv, TypeOK
  <2>2. shown'[i] = IF i \in DOMAIN e THEN e[i] ELSE shown[i]
    BY <1>3, <2>1 DEF Merged
  <2>3. CASE i \in DOMAIN e
    BY <1>2, <2>2, <2>3
  <2>4. CASE i \notin DOMAIN e
    <3>1. k \in 1..seeded
      BY <1>2, <2>4
    <3>2. shown[i] = INDETERMINATE
      BY <3>1 DEF IInv, SeedsAreShown, Seed
    <3> QED BY <2>2, <2>4, <3>2
  <2> QED BY <2>3, <2>4
<1>8. InTransit'
  BY <1>3, <1>4 DEF InTransit, Connected, Seed
<1> QED BY <1>3, <1>5, <1>6, <1>7, <1>8 DEF IInv

\* A frame that is read is merged into what the consumer holds, whatever it says.
LEMMA ReadsFacts ==
    ASSUME IInv, Reads
    PROVE  /\ wire \in Seq(ValidFrames \cup {Garbled}) /\ wire # <<>>
           /\ wire[1] \in ValidFrames \cup {Garbled}
           /\ shown' = Merged(wire[1], shown)
           /\ shown' \in [Ids -> Decisions \cup {None}]
           /\ stage' \in {"reading", "yielding"}
           /\ attempt' \in {0, attempt}
           /\ stage' = "yielding" => attempt' = 0
           /\ last_emitted' \in ValidFrames \cup {Nobody}
           /\ LastIsShown'
<1>1. wire \in Seq(ValidFrames \cup {Garbled}) /\ wire # <<>> /\ Head(wire) = wire[1]
  BY DEF IInv, TypeOK, Reads
<1>2. wire[1] \in ValidFrames \cup {Garbled}
  BY <1>1
<1>3. CASE wire[1] = Garbled
  <2>1. UNCHANGED <<attempt, stage, last_emitted, shown>>
    BY <1>1, <1>3 DEF Reads
  <2>2. Merged(wire[1], shown) = [i \in Ids |-> shown[i]]
    BY <1>3 DEF Merged, Garbled, Nobody
  <2>3. shown = [i \in Ids |-> shown[i]]
    BY DEF IInv, TypeOK
  <2> QED
    BY <1>1, <1>2, <2>1, <2>2, <2>3 DEF IInv, TypeOK, LastIsShown, Reads
<1>4. CASE wire[1] # Garbled
  <2>1. wire[1] \in ValidFrames /\ attempt' = 0 /\ Emit(wire[1], "reading")
    BY <1>1, <1>2, <1>4 DEF Reads
  <2> QED BY <1>1, <2>1, EmitFacts DEF IInv
<1> QED BY <1>3, <1>4

LEMMA ReadsIInv == ASSUME IInv, Reads PROVE IInv'
<1>1. ValidFrames' = ValidFrames /\ Seeds' = Seeds
  BY RouteKept DEF Reads
<1>2. wire \in Seq(ValidFrames \cup {Garbled}) /\ wire # <<>>
  BY ReadsFacts
<1>3. /\ wire' \in Seq(ValidFrames \cup {Garbled})
      /\ Len(wire) \in Nat \ {0} /\ Len(wire') = Len(wire) - 1
      /\ DOMAIN wire = 1..Len(wire) /\ DOMAIN wire' = 1..(Len(wire) - 1)
      /\ \A k \in 1..(Len(wire) - 1) : wire'[k] = wire[k + 1]
  BY <1>2 DEF Reads
<1>4. TypeOK'
  <2>1. wire' \in Seq(ValidFrames \cup {Garbled}) /\ Len(wire') <= MaxWire
    BY <1>3, HttpStreamAssumption DEF IInv, TypeOK
  <2>2. attempt' \in 0..(FloatExponent + 1)
    BY ReadsFacts, HttpStreamAssumption DEF IInv, TypeOK
  <2> QED BY <1>1, <2>1, <2>2, ReadsFacts DEF IInv, TypeOK, Stages, Reads
<1>5. Phases' /\ LastIsShown' /\ SeedsAreShown'
  <2>1. attempt \in Nat /\ attempt <= FloatExponent
    BY HttpStreamAssumption DEF IInv, TypeOK, Phases, Reads
  <2> QED BY <2>1, ReadsFacts, HttpStreamAssumption DEF Phases, SeedsAreShown
<1>6. InTransit'
  <2> SUFFICES ASSUME link' \in {"alive", "silent"}, NEW i \in Ids
               PROVE  Coming(i)' \/ (Unmentioned(i)' /\ Current(i)')
    BY DEF InTransit
  <2>1. Coming(i) \/ (Unmentioned(i) /\ Current(i))
    BY DEF IInv, InTransit, Reads, Connected
  <2>2. shown'[i] = IF i \in DOMAIN wire[1] THEN wire[1][i] ELSE shown[i]
    BY ReadsFacts DEF Merged
  <2>3. told' = told
    BY DEF Reads
  <2>4. CASE Coming(i)
    <3>1. PICK k \in DOMAIN wire :
            /\ i \in DOMAIN wire[k] /\ wire[k][i] = told[i]
            /\ \A h \in DOMAIN wire : h > k => i \notin DOMAIN wire[h]
      BY <2>4 DEF Coming
    <3>2. CASE k = 1
      <4>1. shown'[i] = told[i] /\ told[i] # None
        BY <2>2, <3>1, <3>2, ReadsFacts, FrameFacts
      <4>2. \A h \in DOMAIN wire' : i \notin DOMAIN wire'[h]
        BY <1>3, <3>1, <3>2
      <4> QED BY <2>3, <4>1, <4>2 DEF Unmentioned, Current
    <3>3. CASE k # 1
      <4>1. k - 1 \in DOMAIN wire' /\ wire'[k - 1] = wire[k]
        BY <1>3, <3>3
      <4>2. \A h \in DOMAIN wire' : h > k - 1 => i \notin DOMAIN wire'[h]
        <5> TAKE h \in DOMAIN wire'
        <5> HAVE h > k - 1
        <5>1. h + 1 \in DOMAIN wire /\ h + 1 > k /\ wire'[h] = wire[h + 1]
          BY <1>3
        <5> QED BY <3>1, <5>1
      <4> QED BY <2>3, <3>1, <4>1, <4>2 DEF Coming
    <3> QED BY <3>2, <3>3
  <2>5. CASE Unmentioned(i) /\ Current(i)
    <3>1. 1 \in DOMAIN wire
      BY <1>3
    <3>2. shown'[i] = shown[i]
      BY <2>2, <2>5, <3>1 DEF Unmentioned
    <3>3. \A h \in DOMAIN wire' : i \notin DOMAIN wire'[h]
      BY <1>3, <2>5 DEF Unmentioned
    <3> QED BY <2>3, <2>5, <3>2, <3>3 DEF Unmentioned, Current
  <2> QED BY <2>1, <2>4, <2>5
<1> QED BY <1>4, <1>5, <1>6 DEF IInv

LEMMA NextIInv == ASSUME IInv, [Next]_vars PROVE IInv'
<1>1. CASE UNCHANGED vars
  BY <1>1, StutterIInv
<1>2. CASE \E frame \in ValidFrames \cup {Garbled} : Sends(frame)
  BY <1>2, SendsIInv
<1>3. CASE GoesSilent \/ Ends
  BY <1>3, GoesSilentIInv, EndsIInv
<1>4. CASE Requests \/ AuthorizationRaises \/ Wakes \/ ConsumerLeaves
  BY <1>4, OutsideIInv
<1>5. CASE ConnectFails \/ RespondsWithError \/ TimesOut \/ SeesTheEnd \/ Overflows
  BY <1>5, BreaksIInv
     DEF ConnectFails, RespondsWithError, TimesOut, SeesTheEnd, Overflows
<1>6. CASE Responds \/ Reads \/ Seed \/ BacksOff \/ ConsumerResumes
  BY <1>6, RespondsIInv, ReadsIInv, SeedIInv, BacksOffIInv, ConsumerResumesIInv
<1> QED BY <1>1, <1>2, <1>3, <1>4, <1>5, <1>6 DEF Next

(* Every reachable state of the stream satisfies the inductive invariant.  *)
THEOREM HttpStreamInvariant == Spec => []IInv
<1>1. Init => IInv
  BY InitIInv
<1>2. IInv /\ [Next]_vars => IInv'
  BY NextIInv
<1> QED BY <1>1, <1>2, PTL DEF Spec

(* The types of the stream's variables, for any subscriptions and any      *)
(* bound: TypeOK of the feed run.                                          *)
THEOREM HttpStreamTypeOK == Spec => []TypeOK
<1>1. IInv => TypeOK
  BY DEF IInv
<1> QED BY <1>1, HttpStreamInvariant, PTL

(* A consumer that has caught up with _stream_sse's connection holds the   *)
(* last decision sent on it, for every subscription, whatever was          *)
(* suppressed or seeded before.                                            *)
THEOREM HttpStreamFollowsServer == Spec => []FollowsServer
<1>1. IInv => FollowsServer
  <2> SUFFICES ASSUME IInv, stage = "reading", wire = <<>>, link \in {"alive", "silent"},
                      NEW i \in Ids
               PROVE  Current(i)
    BY DEF FollowsServer, Current
  <2>1. Coming(i) \/ (Unmentioned(i) /\ Current(i))
    BY DEF IInv, InTransit, Connected
  <2> QED BY <2>1 DEF Coming
<1> QED BY <1>1, HttpStreamInvariant, PTL

-----------------------------------------------------------------------------
(* The refinement                                                          *)

LEMMA StepsKeepThePromise ==
    ASSUME IInv, IInv', [Next]_vars
    PROVE  [Feed!Next]_(Feed!vars)
<1> DEFINE Same == shown' = shown /\ (Connected' <=> Connected)
<1>1. ASSUME Same PROVE UNCHANGED Feed!vars
  BY <1>1 DEF Feed!vars
<1>2. CASE UNCHANGED vars
  BY <1>1, <1>2 DEF vars, Connected
<1>3. CASE (\E frame \in ValidFrames \cup {Garbled} : Sends(frame)) \/ GoesSilent \/ Ends
  BY <1>1, <1>3 DEF Sends, GoesSilent, Ends, Connected
<1>4. CASE Requests \/ AuthorizationRaises \/ Wakes \/ BacksOff
  BY <1>1, <1>4 DEF Requests, AuthorizationRaises, Wakes, BacksOff, Connected
<1>5. CASE Responds
  <2>1. NoVerdict /\ ~Connected /\ Connected' /\ shown' = shown
    BY <1>5 DEF IInv, Phases, Responds, Connected
  <2> QED BY <2>1 DEF Feed!Next, Feed!Connects, Feed!NoVerdict, NoVerdict
<1>6. CASE Reads
  <2>1. Connected /\ Connected'
    BY <1>6, ReadsFacts DEF Reads, Connected
  <2>2. /\ shown' \in [Ids -> Decisions \cup {None}]
        /\ \A i \in Ids : shown'[i] = None => shown[i] = None
    <3>1. wire[1] \in ValidFrames \cup {Garbled} /\ shown' = Merged(wire[1], shown)
          /\ shown \in [Ids -> Decisions \cup {None}]
      BY <1>6, ReadsFacts DEF IInv, TypeOK
    <3> QED BY <3>1, MergeFacts
  <2> QED BY <2>1, <2>2 DEF Feed!Next, Feed!Delivers
<1>7. CASE ConnectFails \/ RespondsWithError \/ TimesOut \/ SeesTheEnd \/ Overflows
  <2>1. Breaks /\ shown' = shown /\ ~Connected'
    BY <1>7 DEF ConnectFails, RespondsWithError, TimesOut, SeesTheEnd, Overflows, Breaks,
                Connected
  <2>2. CASE Connected
    BY <2>1, <2>2 DEF Feed!Next, Feed!Breaks
  <2>3. CASE ~Connected
    BY <1>1, <2>1, <2>3
  <2> QED BY <2>2, <2>3
<1>8. CASE Seed
  <2>1. /\ Seeds[seeded + 1] \in ValidFrames
        /\ \A i \in DOMAIN Seeds[seeded + 1] : Seeds[seeded + 1][i] = INDETERMINATE
    BY <1>8, SeedsFacts DEF IInv, TypeOK, Seed
  <2>2. shown' = Merged(Seeds[seeded + 1], shown) /\ stage' \in {"seeding", "yielding"}
    BY <1>8, <2>1, EmitFacts DEF IInv, Seed
  <2>3. ~Connected /\ ~Connected'
    BY <1>8, <2>2, HttpStreamAssumption DEF IInv, TypeOK, Phases, Seed, Connected
  <2>4. DOMAIN Seeds[seeded + 1] \in SUBSET Ids
    BY <2>1, FrameFacts
  <2>5. shown' = [i \in Ids |->
                    IF i \in DOMAIN Seeds[seeded + 1] THEN INDETERMINATE ELSE shown[i]]
    BY <2>1, <2>2 DEF Merged
  <2> QED BY <2>3, <2>4, <2>5 DEF Feed!Next, Feed!Seeds
<1>9. CASE ConsumerResumes
  BY <1>1, <1>9 DEF ConsumerResumes, Connected
<1>10. CASE ConsumerLeaves
  <2>1. shown' = shown /\ ~Connected'
    BY <1>10 DEF ConsumerLeaves, Connected
  <2>2. CASE Connected
    BY <2>1, <2>2 DEF Feed!Next, Feed!Breaks
  <2>3. CASE ~Connected
    BY <1>1, <2>1, <2>3
  <2> QED BY <2>2, <2>3
<1> QED
  BY <1>2, <1>3, <1>4, <1>5, <1>6, <1>7, <1>8, <1>9, <1>10 DEF Next

(* _stream_sse keeps the contract of a PDP client's stream: a new          *)
(* connection only after INDETERMINATE took the place of every verdict the *)
(* old one had left with the consumer.                                     *)
THEOREM HttpStreamKeepsThePromise == Spec => KeepsThePromise
<1>1. Init => Feed!Init
  BY DEF Init, Feed!Init, Nothing, Connected
<1>2. IInv /\ IInv' /\ [Next]_vars => [Feed!Next]_(Feed!vars)
  BY StepsKeepThePromise
<1> QED
  BY <1>1, <1>2, HttpStreamInvariant, PTL DEF Spec, KeepsThePromise, Feed!Spec

=============================================================================
