---------------------------- MODULE ObjectProofs ----------------------------
(***************************************************************************)
(* Theorems about ObjectCall for every set of callers, of scenes and of    *)
(* services.  First what Bedrock's fallbacks leave behind when callers     *)
(* share one model instance and its mutex is held for one read or write at *)
(* a time.  Then the object a call returns: the parse is a fold over the   *)
(* characters, and what it keeps is shown by induction over a prefix; the  *)
(* chunks of a stream are pieces of the answer; so a text that parses is   *)
(* the model's document and all of it.                                     *)
(***************************************************************************)
EXTENDS ObjectCall, WellFoundedInduction, TLAPS

-----------------------------------------------------------------------------
\* The model instance that the callers share: it moves once, id and region
\* together, and only its id comes back.
Placement ==
    /\ mid \in {Bare, Profile} /\ attempted \in BOOLEAN /\ moved \in BOOLEAN
    /\ attempted <=> moved
    /\ IF moved THEN region = US ELSE mid = Bare /\ region = Home

Here == <<mid, region>>
Served(place) == place \in scene.service.serves \ scene.service.provisioned
Looking == {"cross", "crossRead", "crossOnce", "bare", "revert", "limit", "tools", "cache"}

\* What a call knows that no other has moved the instance under.
Unmoved(c) ==
    /\ stage[c] \in Looking \cup {"sent"} => at[c] = Here
    /\ stage[c] \in Looking =>
          /\ err[c] = "unknown" => at[c] \in tried[c]
          /\ err[c] \in {"limit", "tools", "cache"} => Served(at[c])
    /\ stage[c] = "crossRead" => ~moved
    /\ stage[c] = "revert" \/ (stage[c] = "bare" /\ err[c] = "unknown") => moved
    /\ stage[c] \in {"limit", "tools", "cache", "back"} /\ err[c] = "unknown" => <<Bare, US>> \in tried[c]
    /\ stage[c] \in {"send", "sent"} =>
          /\ then[c] = "bare" => moved
          /\ then[c] = "limit" => Here = <<Bare, US>>
          /\ then[c] \in {"tools", "cache", "back"} => Served(Here)

\* Only Bedrock's service says that an identifier is unknown.
Chain(c) ==
    /\ Plan(c).codec # "converse" => err[c] # "unknown"
    /\ Plan(c).codec = "converse" /\ ~met[c] => Unmoved(c)

ChainTypes ==
    /\ DOMAIN stage = Callers /\ DOMAIN err = Callers /\ DOMAIN at = Callers /\ DOMAIN tried = Callers
    /\ then \in [Callers -> {"cross", "bare", "limit", "tools", "cache", "back"}]
    /\ met \in [Callers -> BOOLEAN]

ChainInv == ChainTypes /\ Placement /\ \A c \in Callers : Chain(c)

LEMMA ChainStart == Init => ChainInv
<1> SUFFICES ASSUME Init PROVE ChainInv
  OBVIOUS
<1>1. ChainTypes
  BY DEF Init, ChainInit, ChainTypes
<1>2. Placement
  BY DEF Init, ChainInit, Placement
<1>3. \A c \in Callers : stage[c] = "idle" /\ err[c] = ""
  BY DEF Init, ChainInit
<1>4. \A c \in Callers : Chain(c)
  BY <1>3 DEF Chain, Unmoved, Looking
<1> QED
  BY <1>1, <1>2, <1>4 DEF ChainInv

\* What a caller's step leaves to the others.
OthersStay(c) ==
    /\ scene' = scene
    /\ \A d \in Callers : d # c =>
          /\ stage'[d] = stage[d] /\ then'[d] = then[d] /\ err'[d] = err[d] /\ at'[d] = at[d]
          /\ tried'[d] = tried[d] /\ (met'[d] = met[d] \/ met'[d])

\* A step of c that keeps what c knows, and moves the instance only for all.
LEMMA OwnStep ==
    ASSUME ChainInv, NEW c \in Callers, ChainTypes', OthersStay(c), Placement', Chain(c)',
           UNCHANGED instance \/ \A d \in Callers : d # c => met'[d]
    PROVE  ChainInv'
<1>1. ASSUME NEW d \in Callers, d # c PROVE Chain(d)'
  <2>1. Chain(d) /\ Plan(d)' = Plan(d)
    BY DEF ChainInv, OthersStay, Plan
  <2>2. CASE met'[d]
    BY <1>1, <2>1, <2>2 DEF Chain, OthersStay
  <2>3. CASE UNCHANGED instance /\ met'[d] = met[d]
    BY <1>1, <2>1, <2>3 DEF Chain, Unmoved, OthersStay, Here, Served, instance
  <2> QED
    BY <1>1, <2>2, <2>3 DEF OthersStay
<1> QED
  BY <1>1 DEF ChainInv

\* The service's answers.
LEMMA RefusalsTell ==
    ASSUME NEW c \in Callers, NEW r \in Refuses(scene.service, c)
    PROVE  r \in {"limit", "tools", "cache"} => Served(at[c])
<1>1. r \in {"limit", "tools", "cache"} => /\ at[c] \notin scene.service.provisioned
                                           /\ at[c] \in scene.service.serves \cup scene.service.provisioned
  BY DEF Refuses
<1> QED
  BY <1>1 DEF Served

LEMMA ServedIsKnown ==
    ASSUME NEW c \in Callers, Served(at[c])
    PROVE  Refuses(scene.service, c) \cap Misplaced = {}
<1>1. at[c] \notin scene.service.provisioned /\ at[c] \in scene.service.serves \cup scene.service.provisioned
  BY DEF Served
<1>2. \A r \in Refuses(scene.service, c) : r \in {"limit", "tools", "frame", "cache"}
  BY <1>1 DEF Refuses
<1> QED
  BY <1>2 DEF Misplaced

\* The call is over, or goes on without the instance.
LEMMA Leaves ==
    ASSUME ChainInv, NEW c \in Callers, NEW s \in {"idle", "read"},
           stage' = [stage EXCEPT ![c] = s], scene' = scene,
           UNCHANGED <<instance, then, err, at, tried, met>>
    PROVE  ChainInv'
<1>1. ChainTypes' /\ Placement'
  BY DEF ChainInv, ChainTypes, Placement, instance
<1>2. OthersStay(c) /\ stage'[c] = s /\ UNCHANGED instance
  BY DEF ChainInv, ChainTypes, OthersStay
<1>3. Chain(c)'
  BY <1>2 DEF ChainInv, Chain, Unmoved, Looking, Plan
<1> QED
  BY <1>1, <1>2, <1>3, OwnStep

\* Nothing of the chain changes.
LEMMA Aside ==
    ASSUME ChainInv, scene' = scene, UNCHANGED <<instance, stage, then, err, at, tried, met>>
    PROVE  ChainInv'
BY DEF ChainInv, ChainTypes, Placement, Chain, Unmoved, Looking, Plan, Here, Served, instance

\* doRequest begins, or begins again.
LEMMA RequestBegins ==
    ASSUME ChainInv, NEW c \in Callers,
           stage' = [stage EXCEPT ![c] = "send"], then' = [then EXCEPT ![c] = "cross"],
           tried' = [tried EXCEPT ![c] = {}], met' = [met EXCEPT ![c] = FALSE],
           err' = err \/ err' = [err EXCEPT ![c] = ""], scene' = scene,
           UNCHANGED <<instance, at>>
    PROVE  ChainInv'
<1>1. ChainTypes' /\ Placement'
  BY DEF ChainInv, ChainTypes, Placement, instance
<1>2. /\ OthersStay(c) /\ UNCHANGED instance
      /\ stage'[c] = "send" /\ then'[c] = "cross" /\ err'[c] \in {"", err[c]}
  BY DEF ChainInv, ChainTypes, OthersStay
<1>3. Chain(c)'
  BY <1>2 DEF ChainInv, Chain, Unmoved, Looking, Plan
<1> QED
  BY <1>1, <1>2, <1>3, OwnStep

\* A step within doRequest that leaves the instance.
LEMMA Within ==
    ASSUME ChainInv, NEW c \in Callers, ChainTypes', OthersStay(c), UNCHANGED instance,
           Plan(c).codec = "converse", ~met'[c] => Unmoved(c)'
    PROVE  ChainInv'
<1>1. Placement'
  BY DEF ChainInv, Placement, instance
<1>2. Chain(c)'
  BY DEF ChainInv, Chain, OthersStay, Plan
<1> QED
  BY <1>1, <1>2, OwnStep

LEMMA ChainSteps ==
    ASSUME ChainInv, NEW c \in Callers, Plan(c).codec = "converse", ChainStep(c, scene.service),
           scene' = scene
    PROVE  ChainInv'
<1>1. /\ ChainTypes /\ Placement /\ (~met[c] => Unmoved(c))
  BY DEF ChainInv, Chain
<1>2. CASE Send(c)
  <2>1. ChainTypes' /\ OthersStay(c) /\ met' = met /\ then' = then /\ UNCHANGED instance
    BY <1>1, <1>2 DEF Send, ChainTypes, OthersStay
  <2>2. stage[c] = "send" /\ stage'[c] = "sent" /\ at'[c] = Here
    BY <1>1, <1>2 DEF Send, ChainTypes, Here
  <2>3. ~met'[c] => Unmoved(c)'
    BY <1>1, <2>1, <2>2 DEF Unmoved, Looking, Here, Served, instance
  <2> QED
    BY <2>1, <2>3, Within
<1>3. CASE Refused(c, scene.service)
  <2>1. ChainTypes' /\ OthersStay(c) /\ met' = met /\ at' = at /\ UNCHANGED instance
    BY <1>1, <1>3 DEF Refused, ChainTypes, OthersStay
  <2>2. PICK r \in Refuses(scene.service, c) : err' = [err EXCEPT ![c] = r]
    BY <1>3 DEF Refused
  <2>3. /\ stage[c] = "sent" /\ stage'[c] = then[c] /\ err'[c] = r
        /\ then[c] \in {"cross", "bare", "limit", "tools", "cache", "back"}
        /\ r = "unknown" => at[c] \in tried'[c]
    BY <1>1, <1>3, <2>2 DEF Refused, ChainTypes, Misplaced
  <2>4. /\ r \in {"limit", "tools", "cache"} => Served(at[c])
        /\ Served(at[c]) => r # "unknown"
    BY <2>2, RefusalsTell, ServedIsKnown DEF Misplaced
  <2>5. ~met'[c] => Unmoved(c)'
    <3> SUFFICES ASSUME ~met'[c] PROVE Unmoved(c)'
      OBVIOUS
    <3>1. Unmoved(c) /\ at[c] = Here
      BY <1>1, <2>1, <2>3 DEF Unmoved
    <3> QED
      BY <2>1, <2>3, <2>4, <3>1 DEF Unmoved, Looking, Here, Served, instance
  <2> QED
    BY <2>1, <2>5, Within
<1>4. CASE Accepted(c, scene.service)
  <2>1. ChainTypes' /\ OthersStay(c) /\ UNCHANGED instance /\ stage'[c] = "back" /\ err'[c] = ""
    BY <1>1, <1>4 DEF Accepted, ChainTypes, OthersStay
  <2>2. Unmoved(c)'
    BY <2>1 DEF Unmoved, Looking
  <2> QED
    BY <2>1, <2>2, Within
<1>5. CASE CrossRegion(c)
  <2>1. ChainTypes' /\ OthersStay(c) /\ UNCHANGED <<instance, at, tried, err>> /\ met' = met
    BY <1>1, <1>5 DEF CrossRegion, Again, Skip, ChainTypes, OthersStay
  <2>2. /\ stage[c] = "cross"
        /\ \/ moved /\ stage'[c] = "send" /\ then'[c] = "bare"
           \/ err[c] \notin Misplaced /\ stage'[c] = "bare"
           \/ ~moved /\ stage'[c] = "crossRead"
    BY <1>1, <1>5 DEF CrossRegion, Again, Skip, ChainTypes
  <2>3. ~met'[c] => Unmoved(c)'
    BY <1>1, <2>1, <2>2 DEF Unmoved, Looking, Misplaced, Here, Served, instance
  <2> QED
    BY <2>1, <2>3, Within
<1>6. CASE CrossRegionReadsId(c)
  <2>1. ChainTypes' /\ OthersStay(c) /\ UNCHANGED <<instance, then, at, tried, err>> /\ met' = met
    BY <1>1, <1>6 DEF CrossRegionReadsId, Skip, ChainTypes, OthersStay
  <2>2. /\ stage[c] = "crossRead"
        /\ stage'[c] = IF mid = Bare /\ err[c] \in Misplaced THEN "crossOnce" ELSE "bare"
    BY <1>1, <1>6 DEF CrossRegionReadsId, Skip, ChainTypes
  <2>3. ~met'[c] => Unmoved(c)'
    BY <1>1, <2>1, <2>2 DEF Unmoved, Looking, Misplaced, Here, Served, instance, Placement
  <2> QED
    BY <2>1, <2>3, Within
<1>7. CASE CrossRegionOnce(c)
  <2>1. ChainTypes' /\ OthersStay(c) /\ stage'[c] = "send" /\ then'[c] = "bare"
    BY <1>1, <1>7 DEF CrossRegionOnce, Again, ChainTypes, OthersStay
  <2>2. Placement' /\ moved' /\ (UNCHANGED instance \/ \A d \in Callers : d # c => met'[d])
    <3>1. Profile \o Bare = Profile
      BY DEF Profile, Bare
    <3> QED
      BY <1>1, <1>7, <3>1 DEF CrossRegionOnce, Placement, instance
  <2>3. Chain(c)'
    BY <2>1, <2>2 DEF Chain, Unmoved, Looking, Plan, OthersStay
  <2> QED
    BY <2>1, <2>2, <2>3, OwnStep
<1>8. CASE BareUS(c)
  <2>1. ChainTypes' /\ OthersStay(c) /\ UNCHANGED <<instance, then, at, tried, err>> /\ met' = met
    BY <1>1, <1>8 DEF BareUS, Skip, ChainTypes, OthersStay
  <2>2. /\ stage[c] = "bare"
        /\ stage'[c] = IF moved /\ mid # Bare /\ err[c] = "unknown" THEN "revert" ELSE "limit"
    BY <1>1, <1>8 DEF BareUS, Skip, ChainTypes
  <2>3. ~met'[c] => Unmoved(c)'
    BY <1>1, <2>1, <2>2 DEF Unmoved, Looking, Misplaced, Here, Served, instance, Placement
  <2> QED
    BY <2>1, <2>3, Within
<1>9. CASE BareUSReverts(c)
  <2>1. /\ ChainTypes' /\ OthersStay(c) /\ stage[c] = "revert" /\ stage'[c] = "send" /\ then'[c] = "limit"
        /\ mid' = Bare /\ met'[c] = met[c] /\ UNCHANGED <<region, attempted, moved>>
        /\ (\A d \in Callers : d # c => met'[d])
    BY <1>1, <1>9 DEF BareUSReverts, Again, ChainTypes, OthersStay
  <2>2. Placement'
    BY <1>1, <2>1 DEF Placement
  <2>3. ~met'[c] => Here' = <<Bare, US>>
    BY <1>1, <2>1 DEF Unmoved, Here, Placement
  <2>4. Chain(c)'
    BY <2>1, <2>3 DEF Chain, Unmoved, Looking, Plan, OthersStay
  <2> QED
    BY <2>1, <2>2, <2>4, OwnStep
<1>10. CASE DropLimit(c) \/ DropTools(c) \/ DropCaching(c)
  <2>1. ChainTypes' /\ OthersStay(c) /\ UNCHANGED <<instance, at, tried, err>> /\ met' = met
    BY <1>1, <1>10 DEF DropLimit, DropTools, DropCaching, Again, Skip, ChainTypes, OthersStay
  <2>2. /\ stage[c] \in {"limit", "tools", "cache"}
        /\ \/ /\ stage'[c] = "send" /\ then'[c] \in {"tools", "cache", "back"}
              /\ err[c] \in {"limit", "tools", "cache"}
           \/ stage'[c] \in {"tools", "cache", "back"}
    BY <1>1, <1>10 DEF DropLimit, DropTools, DropCaching, Again, Skip, ChainTypes
  <2>3. ~met'[c] => Unmoved(c)'
    BY <1>1, <2>1, <2>2 DEF Unmoved, Looking, Here, Served, instance
  <2> QED
    BY <2>1, <2>3, Within
<1> QED
  BY <1>2, <1>3, <1>4, <1>5, <1>6, <1>7, <1>8, <1>9, <1>10 DEF ChainStep

\* The callers' other steps.
LEMMA StepKeeps ==
    ASSUME ChainInv, NEW c \in Callers, Step(c) \/ Cancel(c)
    PROVE  ChainInv'
<1>1. CASE Call(c)
  BY <1>1, RequestBegins DEF Call, doRequest
<1>2. CASE DoHTTP(c)
  <2>1. /\ ChainTypes' /\ Placement' /\ OthersStay(c) /\ UNCHANGED instance
        /\ stage'[c] = "back" /\ err' = err /\ Plan(c).codec # "converse"
    BY <1>2 DEF DoHTTP, ChainInv, ChainTypes, Placement, OthersStay, instance
  <2>2. Chain(c)'
    BY <2>1 DEF ChainInv, Chain, OthersStay, Plan
  <2> QED
    BY <2>1, <2>2, OwnStep
<1>3. CASE Converses(c)
  BY <1>3, ChainSteps DEF Converses
<1>4. CASE GivesUp(c)
  <2>1. /\ ChainTypes' /\ Placement' /\ OthersStay(c) /\ UNCHANGED <<instance, at, met>>
        /\ err'[c] = "canceled"
        /\ \/ /\ stage[c] = "sent" /\ stage'[c] = then[c]
              /\ then[c] \in {"cross", "bare", "limit", "tools", "cache", "back"}
           \/ Plan(c).codec # "converse"
    BY <1>4 DEF GivesUp, ChainInv, ChainTypes, Placement, OthersStay, instance
  <2>2. Chain(c)'
    BY <2>1 DEF ChainInv, Chain, OthersStay, Plan, Unmoved, Looking, Here, Served, instance
  <2> QED
    BY <2>1, <2>2, OwnStep
<1>5. CASE Cancel(c)
  BY <1>5, Aside DEF Cancel, chainVars, instance
<1>6. CASE Refusal(c)
  BY <1>6, Leaves DEF Refusal, Returns
<1>7. CASE Answered(c)
  <2>1. stage' = [stage EXCEPT ![c] = "idle"]
    BY <1>7 DEF Answered, Returns, Parses
  <2> QED
    BY <1>7, <2>1, Leaves DEF Answered
<1>8. CASE Exhausted(c)
  BY <1>8, Leaves DEF Exhausted, Returns
<1>9. CASE AsksAgain(c)
  BY <1>9, RequestBegins DEF AsksAgain
<1>10. CASE Opens(c)
  <2>1. \E s \in {"idle", "read"} : stage' = [stage EXCEPT ![c] = s]
    BY <1>10 DEF Opens, Returns
  <2> QED
    BY <1>10, <2>1, Leaves DEF Opens
<1>11. CASE ChunkText(c)
  <2>1. stage' = stage \/ stage' = [stage EXCEPT ![c] = "idle"]
    BY <1>11 DEF ChunkText, Returns
  <2> QED
    BY <1>11, <2>1, Leaves, Aside DEF ChunkText
<1>12. CASE StreamCut(c)
  BY <1>12, Aside DEF StreamCut, chainVars, instance
<1>13. CASE Consumed(c)
  <2>1. stage' = [stage EXCEPT ![c] = "idle"]
    BY <1>13 DEF Consumed, Returns, Parses
  <2> QED
    BY <1>13, <2>1, Leaves DEF Consumed
<1> QED
  BY <1>1, <1>2, <1>3, <1>4, <1>5, <1>6, <1>7, <1>8, <1>9, <1>10, <1>11, <1>12, <1>13 DEF Step

LEMMA ChainInvariance == Spec => []ChainInv
<1>1. ChainInv /\ [Next]_vars => ChainInv'
  <2> SUFFICES ASSUME ChainInv, [Next]_vars PROVE ChainInv'
    OBVIOUS
  <2>1. CASE Next
    BY <2>1, StepKeeps DEF Next
  <2>2. CASE UNCHANGED vars
    BY <2>2, Aside DEF vars, chainVars, instance
  <2> QED
    BY <2>1, <2>2
<1> QED
  BY ChainStart, <1>1, PTL DEF Spec

-----------------------------------------------------------------------------
\* bedrock.go:564, 607, doRequest: the id the callers share takes the us. prefix
\* once at most, and a call that no other moved it under comes back "invalid
\* identifier" only after the bare id was tried in us-east-1 too.
THEOREM UnknownEverywhere == Spec => []RefusedEverywhere
<1>1. ChainInv => RefusedEverywhere
  BY DEF ChainInv, Placement, Chain, Unmoved, RefusedEverywhere
<1> QED
  BY ChainInvariance, <1>1, PTL

-----------------------------------------------------------------------------
\* Induction over the naturals.
LEMMA LeastNatural ==
    ASSUME NEW T, T \subseteq Nat, T # {}
    PROVE  \E x \in T : \A y \in T : x <= y
<1> DEFINE R == {p \in Nat \X Nat : p[1] < p[2]}
<1>1. IsWellFoundedOn(R, Nat)
  BY NatLessThanWellFounded DEF OpToRel
<1>2. \A x, y \in Nat : <<y, x>> \in R <=> y < x
  OBVIOUS
<1> HIDE DEF R
<1>3. PICK x \in T : \A y \in T : ~ (<<y, x>> \in R)
  BY <1>1, WFMin
<1>4. \A y \in T : ~(y < x)
  BY <1>2, <1>3
<1> QED
  BY <1>4

\* Induction without an operator as its parameter: what holds is a set.
LEMMA Induction ==
    ASSUME NEW S, 0 \in S, \A n \in Nat : n \in S => n + 1 \in S
    PROVE  \A n \in Nat : n \in S
<1> DEFINE T == Nat \ S
<1>1. SUFFICES ASSUME T # {} PROVE FALSE
  OBVIOUS
<1>2. PICK x \in T : \A y \in T : x <= y
  BY <1>1, LeastNatural
<1>3. x # 0 /\ x - 1 \in Nat
  OBVIOUS
<1>4. x - 1 \in S
  BY <1>2, <1>3
<1> QED
  BY <1>3, <1>4

-----------------------------------------------------------------------------
\* The fold of Unmarshal, character by character.
LEMMA LargestOf ==
    ASSUME NEW n \in Nat, NEW t \in SUBSET (1..n), t # {}
    PROVE  Max(t) \in t /\ \A x \in t : x <= Max(t)
<1> DEFINE T == {n - x : x \in t}
<1>0. \A x \in t : x \in Nat /\ x <= n /\ n - x \in Nat
  <2> SUFFICES ASSUME NEW x \in t PROVE x \in Nat /\ x <= n /\ n - x \in Nat
    OBVIOUS
  <2>1. x \in 1..n
    OBVIOUS
  <2> QED
    BY <2>1
<1>1. T \subseteq Nat /\ T # {}
  BY <1>0
<1>2. PICK m \in T : \A y \in T : m <= y
  BY <1>1, LeastNatural
<1>3. PICK z \in t : m = n - z
  BY <1>2
<1>4. \A x \in t : x \in Int /\ n - x \in T
  BY <1>0
<1> HIDE DEF T
<1>5. \A x \in t : x <= z
  BY <1>2, <1>3, <1>4
<1>6. \E x \in t : \A y \in t : x >= y
  BY <1>4, <1>5
<1>7. Max(t) \in t /\ \A y \in t : Max(t) >= y
  BY <1>6 DEF Max
<1> QED
  BY <1>4, <1>7

Fresh == [ok |-> TRUE, next |-> "value", lex |-> "", literal |-> <<>>, open |-> <<>>, path |-> <<>>, fields |-> {}]
Parsed(s) == FoldLeft(ParseChar, Fresh, s)

\* The function FoldLeft recurses by, over the sets of places.
Iterates(h, s, n) ==
    h = [t \in SUBSET (1..n) |-> IF t = {} THEN Fresh ELSE ParseChar(h[t \ {Max(t)}], s[Max(t)])]

\* There is such a function, and its values are the parser's.
LEMMA IteratesExists ==
    ASSUME NEW s
    PROVE  \A n \in Nat : \E h : Iterates(h, s, n)
<1> DEFINE S == {n \in Nat : \E h : Iterates(h, s, n)}
<1>1. 0 \in S
  <2> DEFINE h == [t \in SUBSET (1..0) |-> Fresh]
  <2>1. \A t \in SUBSET (1..0) : t = {}
    OBVIOUS
  <2>2. Iterates(h, s, 0)
    BY <2>1 DEF Iterates
  <2> QED
    BY <2>2
<1>2. ASSUME NEW n \in Nat, n \in S PROVE n + 1 \in S
  <2>1. PICK h : Iterates(h, s, n)
    BY <1>2
  <2> DEFINE g == [t \in SUBSET (1..(n + 1)) |->
                     IF n + 1 \in t THEN ParseChar(h[t \ {n + 1}], s[n + 1]) ELSE h[t]]
  <2>2. ASSUME NEW t \in SUBSET (1..(n + 1))
        PROVE  g[t] = IF t = {} THEN Fresh ELSE ParseChar(g[t \ {Max(t)}], s[Max(t)])
    <3>1. CASE t = {}
      BY <2>1, <3>1 DEF Iterates
    <3>2. CASE n + 1 \in t
      <4>1. Max(t) \in t /\ \A x \in t : x <= Max(t)
        <5>1. n + 1 \in Nat /\ t # {}
          BY <3>2
        <5> QED
          BY <5>1, LargestOf
      <4>2. Max(t) = n + 1
        <5>1. Max(t) \in 1..(n + 1) /\ n + 1 <= Max(t)
          BY <3>2, <4>1
        <5> QED
          BY <5>1
      <4>3. t \ {n + 1} \in SUBSET (1..(n + 1)) /\ n + 1 \notin t \ {n + 1}
        OBVIOUS
      <4>4. g[t \ {n + 1}] = h[t \ {n + 1}] /\ g[t] = ParseChar(h[t \ {n + 1}], s[n + 1])
        BY <3>2, <4>3
      <4> HIDE DEF g
      <4> QED
        BY <3>2, <4>2, <4>4
    <3>3. CASE n + 1 \notin t /\ t # {}
      <4>1. t \in SUBSET (1..n)
        BY <3>3
      <4>2. h[t] = ParseChar(h[t \ {Max(t)}], s[Max(t)])
        BY <2>1, <3>3, <4>1 DEF Iterates
      <4>3. t \ {Max(t)} \in SUBSET (1..(n + 1)) /\ n + 1 \notin t \ {Max(t)}
        BY <3>3
      <4>4. g[t] = h[t] /\ g[t \ {Max(t)}] = h[t \ {Max(t)}]
        BY <3>3, <4>3
      <4> HIDE DEF g
      <4> QED
        BY <3>3, <4>2, <4>4
    <3> QED
      BY <3>1, <3>2, <3>3
  <2>3. Iterates(g, s, n + 1)
    BY <2>2 DEF Iterates
  <2> QED
    BY <2>3
<1> HIDE DEF S
<1>3. \A n \in Nat : n \in S
  BY <1>1, <1>2, Induction
<1> QED
  BY <1>3 DEF S

LEMMA IteratesIn ==
    ASSUME NEW s, NEW n \in Nat, NEW h, Iterates(h, s, n), NEW k \in 0..n
    PROVE  h[1..k] = IF k = 0 THEN Fresh ELSE ParseChar(h[1..(k - 1)], s[k])
<1>1. 1..k \in SUBSET (1..n) /\ (k = 0 <=> 1..k = {})
  OBVIOUS
<1>2. k # 0 => Max(1..k) = k /\ (1..k) \ {k} = 1..(k - 1)
  <2> SUFFICES ASSUME k # 0 PROVE Max(1..k) = k /\ (1..k) \ {k} = 1..(k - 1)
    OBVIOUS
  <2>1. Max(1..k) \in 1..k /\ \A x \in 1..k : x <= Max(1..k)
    BY <1>1, LargestOf
  <2> QED
    BY <2>1
<1>3. h[1..k] = IF 1..k = {} THEN Fresh ELSE ParseChar(h[(1..k) \ {Max(1..k)}], s[Max(1..k)])
  BY <1>1 DEF Iterates
<1> QED
  BY <1>1, <1>2, <1>3

LEMMA ParsedIs ==
    ASSUME NEW X, NEW s \in Seq(X)
    PROVE  \E h : Iterates(h, s, Len(s)) /\ Parsed(s) = h[1..Len(s)]
<1> DEFINE h == CHOOSE f : Iterates(f, s, Len(s))
<1>1. Len(s) \in Nat /\ DOMAIN s = 1..Len(s)
  OBVIOUS
<1>2. Iterates(h, s, Len(s))
  BY <1>1, IteratesExists
<1>3. Parsed(s) = h[1..Len(s)]
  BY <1>1 DEF Parsed, FoldLeft, MapThenFoldSet, Iterates
<1> QED
  BY <1>2, <1>3

LEMMA ParsedStart == Parsed(<<>>) = Fresh
<1>1. <<>> \in Seq(STRING) /\ Len(<<>>) = 0
  OBVIOUS
<1>2. PICK h : Iterates(h, <<>>, 0) /\ Parsed(<<>>) = h[1..0]
  BY <1>1, ParsedIs
<1> QED
  BY <1>2, IteratesIn

\* One character more is one step more.
LEMMA ParsedNext ==
    ASSUME NEW X, NEW s \in Seq(X), NEW c \in X
    PROVE  Parsed(Append(s, c)) = ParseChar(Parsed(s), c)
<1> DEFINE n == Len(s)
           w == Append(s, c)
           S == {k \in Nat : k <= n => \A g, h : Iterates(g, s, n) /\ Iterates(h, w, n + 1) => g[1..k] = h[1..k]}
<1>1. n \in Nat /\ w \in Seq(X) /\ Len(w) = n + 1 /\ w[n + 1] = c /\ \A k \in 1..n : w[k] = s[k]
  <2>1. w \in Seq(X) /\ Len(w) = n + 1
    OBVIOUS
  <2>2. w[n + 1] = c
    OBVIOUS
  <2>3. \A k \in 1..n : w[k] = s[k]
    OBVIOUS
  <2> QED
    BY <2>1, <2>2, <2>3
<1>2. PICK g : Iterates(g, s, n) /\ Parsed(s) = g[1..n]
  BY ParsedIs
<1>3. PICK h : Iterates(h, w, n + 1) /\ Parsed(w) = h[1..(n + 1)]
  BY <1>1, ParsedIs
<1> HIDE DEF n, w
<1>4. 0 \in S
  BY <1>1, IteratesIn
<1>5. ASSUME NEW k \in Nat, k \in S PROVE k + 1 \in S
  <2>1. SUFFICES ASSUME k + 1 <= n, NEW a, NEW b, Iterates(a, s, n), Iterates(b, w, n + 1)
                 PROVE  a[1..(k + 1)] = b[1..(k + 1)]
    OBVIOUS
  <2>2. a[1..k] = b[1..k] /\ k + 1 \in 0..n /\ k + 1 \in 0..(n + 1) /\ k + 1 \in 1..n /\ k + 1 # 0 /\ k + 1 - 1 = k
    BY <1>1, <1>5, <2>1
  <2>3. a[1..(k + 1)] = ParseChar(a[1..k], s[k + 1])
    BY <1>1, <2>1, <2>2, IteratesIn
  <2>4. b[1..(k + 1)] = ParseChar(b[1..k], w[k + 1])
    <3>1. n + 1 \in Nat
      BY <1>1
    <3>2. \A j \in 0..(n + 1) : b[1..j] = IF j = 0 THEN Fresh ELSE ParseChar(b[1..(j - 1)], w[j])
      BY <2>1, <3>1, IteratesIn
    <3> QED
      BY <2>2, <3>2
  <2> QED
    BY <1>1, <2>2, <2>3, <2>4
<1>6. g[1..n] = h[1..n]
  <2> HIDE DEF S
  <2>1. \A k \in Nat : k \in S
    BY <1>4, <1>5, Induction
  <2>2. n \in S
    BY <1>1, <2>1
  <2> QED
    BY <1>1, <1>2, <1>3, <2>2 DEF S
<1>7. h[1..(n + 1)] = ParseChar(h[1..n], w[n + 1])
  <2>1. n + 1 \in 0..(n + 1) /\ n + 1 # 0 /\ n + 1 - 1 = n /\ n + 1 \in Nat
    BY <1>1
  <2>2. \A k \in 0..(n + 1) : h[1..k] = IF k = 0 THEN Fresh ELSE ParseChar(h[1..(k - 1)], w[k])
    BY <1>3, <2>1, IteratesIn
  <2> QED
    BY <1>1, <2>1, <2>2
<1> QED
  BY <1>1, <1>2, <1>3, <1>6, <1>7 DEF w

\* The text of an object: until its last bracket it is open, and nothing may follow.
ParserFields == {"ok", "next", "lex", "literal", "open", "path", "fields"}
IsParser(p) ==
    /\ DOMAIN p = ParserFields
    /\ p.ok \in BOOLEAN /\ p.open \in Seq(STRING) /\ p.lex \in {"", "key", "string", "word"}

Ended(p) == p.open = <<>> /\ p.lex = "" /\ p.next = "end"
Bracketed(p) == p.ok => (p.open # <<>> /\ p.next # "end") \/ Ended(p)

LEMMA FrontOf ==
    ASSUME NEW X, NEW s \in Seq(X), s # <<>>
    PROVE  Front(s) \in Seq(X)
<1>1. Len(s) \in Nat /\ Len(s) >= 1
  OBVIOUS
<1>2. Front(s) = [j \in 1..(Len(s) - 1) |-> s[j]]
  BY <1>1 DEF Front
<1> QED
  BY <1>1, <1>2

LEMMA AppendOf ==
    ASSUME NEW X, NEW s \in Seq(X), NEW x \in X
    PROVE  Append(s, x) \in Seq(X) /\ Append(s, x) # <<>>
<1>1. Append(s, x) \in Seq(X) /\ Len(Append(s, x)) = Len(s) + 1 /\ Len(s) \in Nat
  OBVIOUS
<1>2. Len(<<>>) = 0
  OBVIOUS
<1> QED
  BY <1>1, <1>2

LEMMA AppendFirst ==
    ASSUME NEW X, NEW s \in Seq(X), s # <<>>, NEW x \in X
    PROVE  Append(s, x)[1] = s[1]
<1>1. Len(s) \in Nat /\ 1 \in 1..Len(s)
  OBVIOUS
<1> QED
  BY <1>1

LEMMA SingleOf ==
    ASSUME NEW X, NEW x \in X
    PROVE  <<x>> \in Seq(X) /\ <<x>> # <<>> /\ <<x>>[1] = x
<1>1. <<x>> \in Seq(X) /\ Len(<<x>>) = 1 /\ <<x>>[1] = x
  OBVIOUS
<1>2. Len(<<>>) = 0
  OBVIOUS
<1> QED
  BY <1>1, <1>2

\* A value ends inside of what is open, or is the whole text.
LEMMA ValueKeeps ==
    ASSUME NEW p, IsParser(p), NEW b \in BOOLEAN
    PROVE  /\ IsParser(ValueEnds(p, b)) /\ ValueEnds(p, b).ok = p.ok
           /\ ValueEnds(p, b).open = p.open /\ ValueEnds(p, b).lex = ""
           /\ ValueEnds(p, b).next = IF p.open = <<>> THEN "end" ELSE "comma"
<1> DEFINE f == IF b THEN [p EXCEPT !.fields = @ \cup {p.path}] ELSE p
           path == IF p.open # <<>> /\ Last(p.open) = "{" THEN Front(f.path) ELSE f.path
           next == IF p.open = <<>> THEN "end" ELSE "comma"
<1>1. DOMAIN f = ParserFields /\ f.ok = p.ok /\ f.open = p.open
  BY DEF IsParser, ParserFields
<1>2. ValueEnds(p, b) = [f EXCEPT !.literal = <<>>, !.lex = "", !.next = next, !.path = path]
  BY DEF ValueEnds
<1> HIDE DEF f, path, next
<1>3. /\ DOMAIN ValueEnds(p, b) = ParserFields /\ ValueEnds(p, b).ok = p.ok /\ ValueEnds(p, b).open = p.open
      /\ ValueEnds(p, b).lex = "" /\ ValueEnds(p, b).next = next
  BY <1>1, <1>2 DEF ParserFields
<1> QED
  BY <1>3 DEF IsParser, next

LEMMA LiteralKeeps ==
    ASSUME NEW p, IsParser(p)
    PROVE  /\ IsParser(LiteralEnds(p)) /\ LiteralEnds(p).open = p.open
           /\ LiteralEnds(p).ok => p.ok
           /\ p.open # <<>> /\ p.next # "end" => LiteralEnds(p).next # "end"
           /\ p.lex = "word" /\ LiteralEnds(p).ok => LiteralEnds(p).lex = ""
<1>1. IsParser(Wrong(p)) /\ ~Wrong(p).ok /\ Wrong(p).open = p.open /\ Wrong(p).next = p.next
  BY DEF IsParser, Wrong, ParserFields
<1> DEFINE v == ValueEnds(p, p.literal[1] # "n")
<1>2. /\ IsParser(v) /\ v.ok = p.ok /\ v.open = p.open /\ v.lex = ""
      /\ v.next = IF p.open = <<>> THEN "end" ELSE "comma"
  <2>1. (p.literal[1] # "n") \in BOOLEAN
    OBVIOUS
  <2> QED
    BY <2>1, ValueKeeps
<1> HIDE DEF v
<1>3. p.lex = "word" => LiteralEnds(p) = Wrong(p) \/ LiteralEnds(p) = v
  BY DEF LiteralEnds, v
<1>4. p.lex # "word" => LiteralEnds(p) = p
  BY DEF LiteralEnds
<1>5. CASE LiteralEnds(p) = Wrong(p)
  BY <1>1, <1>5
<1>6. CASE LiteralEnds(p) = v
  BY <1>2, <1>6
<1>7. CASE LiteralEnds(p) = p /\ p.lex # "word"
  BY <1>7
<1> QED
  BY <1>3, <1>4, <1>5, <1>6, <1>7

LEMMA WrongKeeps ==
    ASSUME NEW p, IsParser(p)
    PROVE  IsParser(Wrong(p)) /\ ~Wrong(p).ok
BY DEF IsParser, Wrong, ParserFields

\* Within a string nothing is opened or closed.
LEMMA StringKeeps ==
    ASSUME NEW p, IsParser(p), NEW c
    PROVE  /\ IsParser(InString(p, c)) /\ InString(p, c).open = p.open /\ InString(p, c).ok = p.ok
           /\ p.open # <<>> /\ p.next # "end" => InString(p, c).next # "end"
<1>1. CASE InString(p, c) = [p EXCEPT !.literal = Append(Front(@), "x")]
  BY <1>1 DEF IsParser, ParserFields
<1>2. CASE InString(p, c) = [p EXCEPT !.literal = Append(@, c)]
  BY <1>2 DEF IsParser, ParserFields
<1>3. CASE InString(p, c) = [p EXCEPT !.lex = "", !.next = "colon", !.path = Append(@, p.literal), !.literal = <<>>]
  BY <1>3 DEF IsParser, ParserFields
<1>4. CASE InString(p, c) = ValueEnds(p, TRUE)
  BY <1>4, ValueKeeps
<1> QED
  <2> DEFINE escaped == p.literal # <<>> /\ Last(p.literal) = Backslash
             keyed == c = Quote /\ p.lex = "key"
             valued == c = Quote /\ p.lex = "string"
  <2>1. InString(p, c) =
          CASE escaped -> [p EXCEPT !.literal = Append(Front(@), "x")]
            [] keyed -> [p EXCEPT !.lex = "", !.next = "colon", !.path = Append(@, p.literal), !.literal = <<>>]
            [] valued -> ValueEnds(p, TRUE)
            [] OTHER -> [p EXCEPT !.literal = Append(@, c)]
    BY Zenon DEF InString
  <2> HIDE DEF escaped, keyed, valued
  <2> QED
    BY <1>1, <1>2, <1>3, <1>4, <2>1

\* A closing bracket closes what is open, to the end at the outermost one.
LEMMA ClosesKeeps ==
    ASSUME NEW p, IsParser(p), NEW c
    PROVE  /\ IsParser(Closes(p, c)) /\ Bracketed(Closes(p, c)) /\ (Closes(p, c).ok => p.ok)
           /\ Ended(p) => ~Closes(p, c).ok
<1>1. CASE p.next \in {"comma", "first"} /\ p.open # <<>> /\ Last(p.open) = Opener(c)
  <2> DEFINE r == [p EXCEPT !.open = Front(@), !.path = IF c = "]" THEN Front(@) ELSE @]
             v == ValueEnds(r, TRUE)
  <2>1. Front(p.open) \in Seq(STRING)
    BY <1>1, FrontOf DEF IsParser
  <2>2. IsParser(r) /\ r.ok = p.ok
    BY <2>1 DEF IsParser, ParserFields
  <2>3. Closes(p, c) = v
    BY <1>1 DEF Closes
  <2> HIDE DEF r
  <2>4. /\ IsParser(v) /\ v.ok = r.ok /\ v.open = r.open /\ v.lex = ""
        /\ v.next = IF r.open = <<>> THEN "end" ELSE "comma"
    BY <2>2, ValueKeeps
  <2> QED
    BY <1>1, <2>2, <2>3, <2>4 DEF Bracketed, Ended
<1>2. CASE ~(p.next \in {"comma", "first"} /\ p.open # <<>> /\ Last(p.open) = Opener(c))
  <2>1. Closes(p, c) = Wrong(p)
    BY <1>2 DEF Closes
  <2> QED
    BY <2>1, WrongKeeps DEF Bracketed
<1> QED
  BY <1>1, <1>2

\* What begins is within what is open, or opens a bracket.
LEMMA BeginsKeeps ==
    ASSUME NEW p, IsParser(p), p.lex = "", NEW c \in STRING
    PROVE  /\ IsParser(Begins(p, c)) /\ (Begins(p, c).ok => p.ok)
           /\ Begins(p, c).ok /\ p.open # <<>> /\ p.next # "end" =>
                 Begins(p, c).open # <<>> /\ Begins(p, c).next # "end"
           /\ Ended(p) => ~Begins(p, c).ok
<1>1. Ended(p) => Begins(p, c) = Wrong(p)
  BY DEF Ended, Begins
<1>2. CASE Begins(p, c) = Wrong(p)
  BY <1>2, WrongKeeps
<1>3. CASE Begins(p, c) = [p EXCEPT !.lex = "key"] \/ Begins(p, c) = [p EXCEPT !.lex = "string"]
  BY <1>1, <1>3, WrongKeeps DEF IsParser, ParserFields
<1>4. CASE Begins(p, c) = [p EXCEPT !.lex = "word", !.literal = <<c>>]
  BY <1>1, <1>4, WrongKeeps DEF IsParser, ParserFields
<1>5. CASE \/ Begins(p, c) = [p EXCEPT !.open = Append(@, c), !.next = "first"]
           \/ Begins(p, c) = [p EXCEPT !.open = Append(@, c), !.next = "first", !.path = Append(@, <<"item">>)]
  <2>1. Append(p.open, c) \in Seq(STRING) /\ Append(p.open, c) # <<>>
    BY AppendOf DEF IsParser
  <2>2. /\ DOMAIN Begins(p, c) = ParserFields /\ Begins(p, c).open = Append(p.open, c)
        /\ Begins(p, c).next = "first" /\ Begins(p, c).ok = p.ok /\ Begins(p, c).lex = p.lex
    BY <1>5 DEF IsParser, ParserFields
  <2> QED
    BY <1>1, <2>1, <2>2, WrongKeeps DEF IsParser
<1> QED
  <2> DEFINE key == p.open # <<>> /\ Last(p.open) = "{" /\ p.next \in {"first", "entry"}
             value == p.next \in {"value", "entry"} \/ (p.next = "first" /\ Last(p.open) = "[")
  <2>1. Begins(p, c) =
          CASE key -> IF c = Quote THEN [p EXCEPT !.lex = "key"] ELSE Wrong(p)
            [] ~key /\ value ->
              CASE c = Quote -> [p EXCEPT !.lex = "string"]
                [] c = "{" -> [p EXCEPT !.open = Append(@, c), !.next = "first"]
                [] c = "[" -> [p EXCEPT !.open = Append(@, c), !.next = "first", !.path = Append(@, <<"item">>)]
                [] c \in {"]", "}", ",", ":"} -> Wrong(p)
                [] OTHER -> [p EXCEPT !.lex = "word", !.literal = <<c>>]
            [] OTHER -> Wrong(p)
    BY Zenon DEF Begins
  <2> HIDE DEF key, value
  <2> QED
    BY <1>2, <1>3, <1>4, <1>5, <2>1

\* One character: it stays a parser's state, what is wrong stays wrong, what is
\* bracketed stays so, and nothing follows the end.
LEMMA CharKeeps ==
    ASSUME NEW p, IsParser(p), NEW c \in STRING
    PROVE  /\ IsParser(ParseChar(p, c)) /\ (ParseChar(p, c).ok => p.ok)
           /\ Bracketed(p) => Bracketed(ParseChar(p, c))
           /\ Ended(p) => ~ParseChar(p, c).ok
<1> DEFINE q == IF p.lex = "word" /\ c \in {",", "]", "}"} THEN LiteralEnds(p) ELSE p
           r == ParseChar(p, c)
<1>1. /\ IsParser(q) /\ q.open = p.open /\ (q.ok => p.ok)
      /\ p.open # <<>> /\ p.next # "end" => q.next # "end"
      /\ Ended(p) => q = p
  BY LiteralKeeps DEF Ended
<1>2. Bracketed(p) => Bracketed(q)
  BY <1>1 DEF Bracketed, Ended
<1>3. r = CASE ~q.ok -> q
         [] q.ok /\ q.lex \in {"key", "string"} -> InString(q, c)
         [] q.ok /\ q.lex = "word" -> [q EXCEPT !.literal = Append(@, c)]
         [] q.ok /\ q.lex = "" ->
              CASE c \in {"}", "]"} -> Closes(q, c)
                [] c = ":" -> IF q.next = "colon" THEN [q EXCEPT !.next = "value"] ELSE Wrong(q)
                [] c = "," -> IF q.next # "comma" THEN Wrong(q)
                              ELSE [q EXCEPT !.next = "entry",
                                             !.path = IF Last(q.open) = "[" THEN Append(Front(@), Append(Last(@), "item")) ELSE @]
                [] OTHER -> Begins(q, c)
  BY Zenon DEF ParseChar
<1> HIDE DEF q, r
<1> SUFFICES /\ IsParser(r) /\ (r.ok => p.ok)
             /\ Bracketed(p) => Bracketed(r)
             /\ Ended(p) => ~r.ok
  BY DEF r
<1>4. CASE ~q.ok
  BY <1>1, <1>3, <1>4 DEF Bracketed
<1>5. CASE q.ok /\ q.lex \in {"key", "string"}
  <2>1. r = InString(q, c)
    BY <1>3, <1>5
  <2>2. /\ IsParser(r) /\ r.open = q.open /\ r.ok = q.ok
        /\ q.open # <<>> /\ q.next # "end" => r.next # "end"
    BY <1>1, <2>1, StringKeeps
  <2> QED
    BY <1>1, <1>2, <1>5, <2>2 DEF Bracketed, Ended
<1>6. CASE q.ok /\ q.lex = "word"
  <2>1. r = [q EXCEPT !.literal = Append(@, c)]
    BY <1>3, <1>6
  <2>2. IsParser(r) /\ r.open = q.open /\ r.ok = q.ok /\ r.next = q.next
    BY <1>1, <2>1 DEF IsParser, ParserFields
  <2> QED
    BY <1>1, <1>2, <1>6, <2>2 DEF Bracketed, Ended
<1>7. CASE q.ok /\ q.lex = "" /\ c \in {"}", "]"}
  <2>1. r = Closes(q, c)
    BY <1>3, <1>7
  <2> QED
    BY <1>1, <2>1, ClosesKeeps
<1>8. CASE q.ok /\ q.lex = "" /\ c \in {":", ","} /\ r # Wrong(q)
  <2>1. \/ q.next = "colon" /\ r = [q EXCEPT !.next = "value"]
        \/ /\ q.next = "comma"
           /\ r = [q EXCEPT !.next = "entry",
                            !.path = IF Last(q.open) = "[" THEN Append(Front(@), Append(Last(@), "item")) ELSE @]
    BY <1>3, <1>8
  <2>2. /\ IsParser(r) /\ r.open = q.open /\ r.ok = q.ok /\ r.next # "end" /\ q.next # "end"
    BY <1>1, <2>1 DEF IsParser, ParserFields
  <2> QED
    BY <1>1, <1>2, <1>8, <2>2 DEF Bracketed, Ended
<1>9. CASE r = Wrong(q)
  BY <1>1, <1>9, WrongKeeps DEF Bracketed
<1>10. CASE q.ok /\ q.lex = "" /\ c \notin {"}", "]", ":", ","}
  <2>1. r = Begins(q, c)
    BY <1>3, <1>10
  <2>2. /\ IsParser(r) /\ (r.ok => q.ok)
        /\ r.ok /\ q.open # <<>> /\ q.next # "end" => r.open # <<>> /\ r.next # "end"
        /\ Ended(q) => ~r.ok
    BY <1>1, <1>10, <2>1, BeginsKeeps
  <2> QED
    BY <1>1, <1>2, <1>10, <2>2 DEF Bracketed
<1> QED
  BY <1>1, <1>4, <1>5, <1>6, <1>7, <1>8, <1>9, <1>10 DEF IsParser

-----------------------------------------------------------------------------
\* A text, prefix by prefix.
LEMMA PrefixIn ==
    ASSUME NEW X, NEW w \in Seq(X), NEW n \in 0..Len(w)
    PROVE  SubSeq(w, 1, n) \in Seq(X) /\ Len(SubSeq(w, 1, n)) = n
<1>1. Len(w) \in Nat /\ n \in Nat /\ n <= Len(w)
  OBVIOUS
<1>2. SubSeq(w, 1, n) = [i \in 1..n |-> w[i]]
  BY <1>1
<1> QED
  BY <1>1, <1>2

LEMMA PrefixAt ==
    ASSUME NEW X, NEW w \in Seq(X), NEW n \in 0..Len(w)
    PROVE  \A i \in 1..n : SubSeq(w, 1, n)[i] = w[i] /\ i \in 1..Len(w)
<1>1. Len(w) \in Nat /\ n \in Nat /\ n <= Len(w)
  OBVIOUS
<1>2. SubSeq(w, 1, n) = [i \in 1..n |-> w[i]]
  BY <1>1
<1> QED
  BY <1>1, <1>2

LEMMA PrefixGrows ==
    ASSUME NEW X, NEW w \in Seq(X), NEW n \in Nat, n < Len(w)
    PROVE  SubSeq(w, 1, n + 1) = Append(SubSeq(w, 1, n), w[n + 1]) /\ w[n + 1] \in X
<1>1. Len(w) \in Nat /\ n + 1 \in 1..Len(w)
  OBVIOUS
<1>2. SubSeq(w, 1, n) = [i \in 1..n |-> w[i]] /\ SubSeq(w, 1, n + 1) = [i \in 1..(n + 1) |-> w[i]]
  BY <1>1
<1>3. SubSeq(w, 1, n) \in Seq(X) /\ Len(SubSeq(w, 1, n)) = n
  BY <1>1, PrefixIn
<1>4. Append(SubSeq(w, 1, n), w[n + 1]) = [i \in 1..(n + 1) |-> IF i <= n THEN SubSeq(w, 1, n)[i] ELSE w[n + 1]]
  BY <1>3
<1> QED
  BY <1>1, <1>2, <1>4

LEMMA PrefixNone ==
    ASSUME NEW X, NEW w \in Seq(X)
    PROVE  SubSeq(w, 1, 0) = <<>> /\ SubSeq(w, 1, Len(w)) = w
<1>1. Len(w) \in Nat /\ SubSeq(w, 1, 0) = [i \in 1..0 |-> w[i]] /\ SubSeq(w, 1, Len(w)) = [i \in 1..Len(w) |-> w[i]]
  OBVIOUS
<1> QED
  BY <1>1

\* The parser behind n characters.
At(w, n) == Parsed(SubSeq(w, 1, n))

LEMMA AtStart == ASSUME NEW w \in Seq(STRING) PROVE At(w, 0) = Fresh
BY PrefixNone, ParsedStart DEF At

LEMMA AtNext ==
    ASSUME NEW w \in Seq(STRING), NEW n \in Nat, n < Len(w)
    PROVE  At(w, n + 1) = ParseChar(At(w, n), w[n + 1]) /\ w[n + 1] \in STRING
<1>1. Len(w) \in Nat /\ n \in 0..Len(w)
  OBVIOUS
<1>2. SubSeq(w, 1, n) \in Seq(STRING)
  BY <1>1, PrefixIn
<1>3. SubSeq(w, 1, n + 1) = Append(SubSeq(w, 1, n), w[n + 1]) /\ w[n + 1] \in STRING
  BY PrefixGrows
<1> QED
  BY <1>2, <1>3, ParsedNext DEF At

LEMMA FreshParser == IsParser(Fresh)
BY DEF Fresh, IsParser, ParserFields

LEMMA AtIsParser ==
    ASSUME NEW w \in Seq(STRING), NEW n \in 0..Len(w)
    PROVE  IsParser(At(w, n))
<1> DEFINE S == {k \in Nat : k <= Len(w) => IsParser(At(w, k))}
<1>1. 0 \in S
  BY AtStart, FreshParser
<1>2. ASSUME NEW k \in Nat, k \in S PROVE k + 1 \in S
  <2> SUFFICES ASSUME k + 1 <= Len(w) PROVE IsParser(At(w, k + 1))
    OBVIOUS
  <2>1. Len(w) \in Nat /\ k < Len(w)
    OBVIOUS
  <2>2. IsParser(At(w, k))
    BY <1>2, <2>1
  <2>3. At(w, k + 1) = ParseChar(At(w, k), w[k + 1]) /\ w[k + 1] \in STRING
    BY <2>1, AtNext
  <2>4. IsParser(ParseChar(At(w, k), w[k + 1]))
    BY <2>2, <2>3, CharKeeps
  <2> QED
    BY <2>3, <2>4
<1> HIDE DEF S
<1>3. \A k \in Nat : k \in S
  BY <1>1, <1>2, Induction
<1>4. n \in Nat /\ n <= Len(w)
  OBVIOUS
<1> QED
  BY <1>3, <1>4 DEF S

\* What is wrong once stays wrong.
LEMMA StaysWrong ==
    ASSUME NEW w \in Seq(STRING), NEW m \in 0..Len(w), ~At(w, m).ok, NEW n \in m..Len(w)
    PROVE  ~At(w, n).ok
<1> DEFINE S == {k \in Nat : m + k <= Len(w) => ~At(w, m + k).ok}
<1>1. Len(w) \in Nat /\ m \in Nat
  OBVIOUS
<1>2. 0 \in S
  BY <1>1
<1>3. ASSUME NEW k \in Nat, k \in S PROVE k + 1 \in S
  <2> SUFFICES ASSUME m + (k + 1) <= Len(w) PROVE ~At(w, m + (k + 1)).ok
    OBVIOUS
  <2>1. m + k \in Nat /\ m + k < Len(w) /\ m + k \in 0..Len(w) /\ m + (k + 1) = (m + k) + 1
    BY <1>1
  <2>2. ~At(w, m + k).ok /\ IsParser(At(w, m + k))
    BY <1>1, <1>3, <2>1, AtIsParser
  <2>3. At(w, m + k + 1) = ParseChar(At(w, m + k), w[m + k + 1]) /\ w[m + k + 1] \in STRING
    BY <2>1, AtNext
  <2>4. ~ParseChar(At(w, m + k), w[m + k + 1]).ok
    BY <2>2, <2>3, CharKeeps
  <2> QED
    BY <2>1, <2>3, <2>4
<1> HIDE DEF S
<1>4. \A k \in Nat : k \in S
  BY <1>2, <1>3, Induction
<1>5. n - m \in Nat /\ m + (n - m) = n /\ n <= Len(w)
  BY <1>1
<1> QED
  BY <1>4, <1>5 DEF S

\* Unmarshal, by the parser behind the last character.
LEMMA UnmarshalIs ==
    ASSUME NEW s, Unmarshal(s) # Unparsed
    PROVE  LiteralEnds(Parsed(s)).ok /\ LiteralEnds(Parsed(s)).next = "end"
BY DEF Unmarshal, Parsed, Fresh

LEMMA NothingUnparsed == ASSUME NEW w \in Seq(STRING) PROVE Unmarshal(SubSeq(w, 1, 0)) = Unparsed
<1> SUFFICES ASSUME Unmarshal(SubSeq(w, 1, 0)) # Unparsed PROVE FALSE
  OBVIOUS
<1>1. LiteralEnds(At(w, 0)).next = "end"
  BY UnmarshalIs DEF At
<1>2. LiteralEnds(Fresh) = Fresh /\ Fresh.next = "value"
  BY DEF LiteralEnds, Fresh
<1> QED
  BY <1>1, <1>2, AtStart

\* Behind its first character an object is bracketed.
LEMMA OpensBracketed ==
    ASSUME NEW w \in Seq(STRING), NEW n \in 1..Len(w), OpensObject(w)
    PROVE  Bracketed(At(w, n))
<1> DEFINE S == {k \in Nat : k + 1 <= Len(w) => Bracketed(At(w, k + 1))}
<1>1. 0 \in S
  <2> SUFFICES ASSUME 1 <= Len(w) PROVE Bracketed(At(w, 1))
    <3>1. 0 + 1 = 1 /\ 0 \in Nat
      OBVIOUS
    <3> QED
      BY <3>1
  <2>1. At(w, 1) = ParseChar(Fresh, "{")
    <3>1. Len(w) \in Nat /\ 0 < Len(w) /\ 0 + 1 = 1
      OBVIOUS
    <3>2. At(w, 0 + 1) = ParseChar(At(w, 0), w[0 + 1])
      BY <3>1, AtNext
    <3>3. At(w, 1) = ParseChar(Fresh, w[1])
      BY <3>1, <3>2, AtStart
    <3> QED
      BY <3>3 DEF OpensObject
  <2>2. ParseChar(Fresh, "{") = Begins(Fresh, "{")
    BY DEF ParseChar, Fresh
  <2>3. Begins(Fresh, "{") = [Fresh EXCEPT !.open = Append(@, "{"), !.next = "first"]
    BY DEF Begins, Fresh, Quote
  <2>4. Begins(Fresh, "{").open = Append(<<>>, "{") /\ Begins(Fresh, "{").next = "first"
    BY <2>3 DEF Fresh
  <2>5. Append(<<>>, "{") # <<>>
    <3>1. \A x \in STRING : Append(<<>>, x) # <<>>
      <4>1. <<>> \in Seq(STRING)
        OBVIOUS
      <4> QED
        BY <4>1, AppendOf
    <3> QED
      BY <3>1
  <2> QED
    BY <2>1, <2>2, <2>4, <2>5 DEF Bracketed
<1>2. ASSUME NEW k \in Nat, k \in S PROVE k + 1 \in S
  <2> SUFFICES ASSUME k + 1 + 1 <= Len(w) PROVE Bracketed(At(w, k + 1 + 1))
    OBVIOUS
  <2>1. Len(w) \in Nat /\ k + 1 \in Nat /\ k + 1 < Len(w) /\ k + 1 \in 0..Len(w)
    OBVIOUS
  <2>2. IsParser(At(w, k + 1)) /\ Bracketed(At(w, k + 1))
    BY <1>2, <2>1, AtIsParser
  <2>3. At(w, k + 1 + 1) = ParseChar(At(w, k + 1), w[k + 1 + 1]) /\ w[k + 1 + 1] \in STRING
    BY <2>1, AtNext
  <2>4. Bracketed(ParseChar(At(w, k + 1), w[k + 1 + 1]))
    BY <2>2, <2>3, CharKeeps
  <2> QED
    BY <2>3, <2>4
<1> HIDE DEF S
<1>3. \A k \in Nat : k \in S
  BY <1>1, <1>2, Induction
<1>4. n - 1 \in Nat /\ n - 1 + 1 = n /\ n <= Len(w)
  OBVIOUS
<1> QED
  BY <1>3, <1>4 DEF S

\* No text of an object that was cut off unmarshals.
LEMMA CutUnparsed ==
    ASSUME NEW w \in Seq(STRING), OpensObject(w), Unmarshal(w) # Unparsed,
           NEW n \in Nat, n < Len(w)
    PROVE  Unmarshal(SubSeq(w, 1, n)) = Unparsed
<1> SUFFICES ASSUME Unmarshal(SubSeq(w, 1, n)) # Unparsed PROVE FALSE
  OBVIOUS
<1>1. n # 0
  BY NothingUnparsed
<1>2. Len(w) \in Nat /\ n \in 0..Len(w) /\ n \in 1..Len(w) /\ n + 1 \in 0..Len(w) /\ Len(w) \in (n + 1)..Len(w) /\ Len(w) \in 0..Len(w)
  BY <1>1
<1>3. IsParser(At(w, n)) /\ Bracketed(At(w, n)) /\ IsParser(At(w, Len(w)))
  BY <1>2, AtIsParser, OpensBracketed
<1>4. LiteralEnds(At(w, n)).ok /\ LiteralEnds(At(w, n)).next = "end"
  BY UnmarshalIs DEF At
<1>5. Ended(At(w, n))
  BY <1>3, <1>4, LiteralKeeps DEF Bracketed
<1>6. ~At(w, n + 1).ok
  <2>1. At(w, n + 1) = ParseChar(At(w, n), w[n + 1]) /\ w[n + 1] \in STRING
    BY AtNext
  <2>2. ~ParseChar(At(w, n), w[n + 1]).ok
    BY <1>3, <1>5, <2>1, CharKeeps
  <2> QED
    BY <2>1, <2>2
<1>7. ~At(w, Len(w)).ok
  BY <1>2, <1>6, StaysWrong
<1>8. LiteralEnds(At(w, Len(w))).ok
  BY PrefixNone, UnmarshalIs DEF At
<1> QED
  BY <1>3, <1>7, <1>8, LiteralKeeps

\* Prose: it stays one word that is none, or is wrong already.
Stray(p) == p.ok => p.lex = "word" /\ p.literal \in Seq(STRING) /\ p.literal # <<>> /\ p.literal[1] \notin ValueStarts

LEMMA StrayIsNoLiteral ==
    ASSUME NEW p, IsParser(p), Stray(p)
    PROVE  ~LiteralEnds(p).ok
<1>1. CASE ~p.ok
  BY <1>1, LiteralKeeps
<1>2. CASE p.ok
  <2>1. p.literal \notin Keywords
    <3>1. \A k \in Keywords : k[1] \in ValueStarts
      <4>1. \A k \in Keywords : k[1] \in {"t", "f", "n"}
        BY DEF Keywords
      <4> QED
        BY <4>1 DEF ValueStarts
    <3> QED
      BY <1>2, <3>1 DEF Stray
  <2>2. ~Number(p.literal)
    <3>1. 1 \in DOMAIN p.literal
      BY <1>2 DEF Stray
    <3>2. p.literal[1] \notin Digits \cup {".", "-", "+", "e", "E"}
      BY <1>2 DEF Stray, ValueStarts
    <3> QED
      BY <3>1, <3>2 DEF Number
  <2>3. LiteralEnds(p) = Wrong(p)
    BY <1>2, <2>1, <2>2 DEF LiteralEnds, Stray
  <2> QED
    BY <2>3, WrongKeeps
<1> QED
  BY <1>1, <1>2

LEMMA StrayKeeps ==
    ASSUME NEW p, IsParser(p), Stray(p), NEW c \in STRING
    PROVE  Stray(ParseChar(p, c))
<1>1. CASE ~p.ok
  BY <1>1, CharKeeps DEF Stray
<1>2. CASE p.ok /\ c \in {",", "]", "}"}
  <2>1. ~LiteralEnds(p).ok
    BY StrayIsNoLiteral
  <2>2. ParseChar(p, c) = LiteralEnds(p)
    BY <1>2, <2>1 DEF ParseChar, Stray
  <2> QED
    BY <2>1, <2>2 DEF Stray
<1>3. CASE p.ok /\ c \notin {",", "]", "}"}
  <2>1. ParseChar(p, c) = [p EXCEPT !.literal = Append(@, c)]
    BY <1>3 DEF ParseChar, Stray
  <2>2. ParseChar(p, c).literal = Append(p.literal, c) /\ ParseChar(p, c).lex = p.lex
    BY <2>1 DEF IsParser, ParserFields
  <2>3. p.literal \in Seq(STRING) /\ p.literal # <<>> /\ p.literal[1] \notin ValueStarts /\ p.lex = "word"
    BY <1>3 DEF Stray
  <2>4. Append(p.literal, c) \in Seq(STRING) /\ Append(p.literal, c) # <<>>
    BY <2>3, AppendOf
  <2>5. Append(p.literal, c)[1] = p.literal[1]
    BY <2>3, AppendFirst
  <2> QED
    BY <2>2, <2>3, <2>4, <2>5 DEF Stray
<1> QED
  BY <1>1, <1>2, <1>3

\* No text that begins as prose does unmarshals.
LEMMA ProseUnparsed ==
    ASSUME NEW w \in Seq(STRING), w # <<>>, w[1] \notin ValueStarts, NEW n \in 0..Len(w)
    PROVE  Unmarshal(SubSeq(w, 1, n)) = Unparsed
<1> DEFINE S == {k \in Nat : k + 1 <= Len(w) => Stray(At(w, k + 1))}
<1>1. 0 \in S
  <2>1. Len(w) \in Nat /\ 0 < Len(w) /\ 0 + 1 = 1
    OBVIOUS
  <2>2. At(w, 0 + 1) = ParseChar(At(w, 0), w[0 + 1]) /\ w[0 + 1] \in STRING
    BY <2>1, AtNext
  <2>3. At(w, 1) = ParseChar(Fresh, w[1]) /\ w[1] \in STRING
    BY <2>1, <2>2, AtStart
  <2> DEFINE c == w[1]
             r == ParseChar(Fresh, c)
  <2>4. c \in STRING /\ c \notin ValueStarts
    BY <2>3
  <2> HIDE DEF c
  <2>5. Stray(r)
    <3>1. CASE c \in {"}", "]"}
      <4>1. r = Closes(Fresh, c)
        BY <3>1 DEF ParseChar, Fresh
      <4>2. Closes(Fresh, c) = Wrong(Fresh)
        BY DEF Closes, Fresh
      <4> QED
        BY <4>1, <4>2, FreshParser, WrongKeeps DEF Stray
    <3>2. CASE c \in {":", ","}
      <4>1. r = Wrong(Fresh)
        BY <3>2 DEF ParseChar, Fresh
      <4> QED
        BY <4>1, FreshParser, WrongKeeps DEF Stray
    <3>3. CASE c \notin {"}", "]", ":", ","}
      <4>1. r = Begins(Fresh, c)
        BY <3>3 DEF ParseChar, Fresh
      <4>2. c # Quote /\ c # "{" /\ c # "["
        BY <2>4 DEF ValueStarts
      <4>3. Begins(Fresh, c) = [Fresh EXCEPT !.lex = "word", !.literal = <<c>>]
        BY <3>3, <4>2 DEF Begins, Fresh
      <4>4. r.lex = "word" /\ r.literal = <<c>>
        BY <4>1, <4>3 DEF Fresh
      <4>5. <<c>> \in Seq(STRING) /\ <<c>> # <<>> /\ <<c>>[1] = c
        BY <2>4, SingleOf
      <4> QED
        BY <2>4, <4>4, <4>5 DEF Stray
    <3> QED
      BY <3>1, <3>2, <3>3
  <2>6. Stray(At(w, 0 + 1))
    BY <2>1, <2>3, <2>5 DEF c
  <2> QED
    BY <2>6
<1>2. ASSUME NEW k \in Nat, k \in S PROVE k + 1 \in S
  <2> SUFFICES ASSUME k + 1 + 1 <= Len(w) PROVE Stray(At(w, k + 1 + 1))
    OBVIOUS
  <2>1. Len(w) \in Nat /\ k + 1 \in Nat /\ k + 1 < Len(w) /\ k + 1 \in 0..Len(w)
    OBVIOUS
  <2>2. IsParser(At(w, k + 1)) /\ Stray(At(w, k + 1))
    BY <1>2, <2>1, AtIsParser
  <2>3. At(w, k + 1 + 1) = ParseChar(At(w, k + 1), w[k + 1 + 1]) /\ w[k + 1 + 1] \in STRING
    BY <2>1, AtNext
  <2>4. Stray(ParseChar(At(w, k + 1), w[k + 1 + 1]))
    BY <2>2, <2>3, StrayKeeps
  <2> QED
    BY <2>3, <2>4
<1> HIDE DEF S
<1>3. \A k \in Nat : k \in S
  BY <1>1, <1>2, Induction
<1>4. CASE n = 0
  BY <1>4, NothingUnparsed
<1>5. CASE n # 0
  <2>1. n - 1 \in Nat /\ n - 1 + 1 = n /\ n <= Len(w)
    BY <1>5
  <2>2. Stray(At(w, n)) /\ IsParser(At(w, n))
    BY <1>3, <2>1, AtIsParser DEF S
  <2>3. ~LiteralEnds(At(w, n)).ok
    BY <2>2, StrayIsNoLiteral
  <2> QED
    BY <2>3, UnmarshalIs DEF At
<1> QED
  BY <1>4, <1>5

LEMMA JoinOf ==
    ASSUME NEW X, NEW s \in Seq(X), NEW t \in Seq(X)
    PROVE  /\ s \o t \in Seq(X) /\ Len(s \o t) = Len(s) + Len(t)
           /\ s # <<>> => s \o t # <<>> /\ (s \o t)[1] = s[1]
           /\ s = <<>> => s \o t = t
<1>1. s \o t \in Seq(X) /\ Len(s \o t) = Len(s) + Len(t) /\ Len(s) \in Nat /\ Len(t) \in Nat
  OBVIOUS
<1>2. ASSUME s # <<>> PROVE s \o t # <<>> /\ (s \o t)[1] = s[1]
  <2>1. 1 \in 1..Len(s)
    BY <1>1, <1>2
  <2>2. (s \o t)[1] = s[1]
    BY <2>1
  <2>3. Len(s \o t) # 0 /\ Len(<<>>) = 0
    BY <1>1, <2>1
  <2> QED
    BY <2>2, <2>3
<1>3. ASSUME s = <<>> PROVE s \o t = t
  <2>1. Len(s) = 0 /\ s \o t = [i \in 1..(Len(s) + Len(t)) |-> IF i <= Len(s) THEN s[i] ELSE t[i - Len(s)]]
    BY <1>1, <1>3
  <2>2. t = [i \in 1..Len(t) |-> t[i]]
    OBVIOUS
  <2> QED
    BY <1>1, <2>1, <2>2
<1> QED
  BY <1>1, <1>2, <1>3

LEMMA JoinAt ==
    ASSUME NEW X, NEW s \in Seq(X), NEW t \in Seq(X), NEW u, u = s \o t
    PROVE  /\ u \in Seq(X)
           /\ Len(u) = Len(s) + Len(t)
           /\ \A i \in 1..Len(s) : u[i] = s[i]
           /\ \A i \in 1..Len(t) : u[Len(s) + i] = t[i]
<1>1. Len(s) \in Nat /\ Len(t) \in Nat /\ u \in Seq(X) /\ Len(u) = Len(s) + Len(t)
  OBVIOUS
<1>2. ASSUME NEW i \in 1..Len(s) PROVE u[i] = s[i]
  BY <1>1
<1>3. ASSUME NEW i \in 1..Len(t) PROVE u[Len(s) + i] = t[i]
  BY <1>1
<1> QED
  BY <1>1, <1>2, <1>3

LEMMA JoinParts ==
    ASSUME NEW X, NEW s, NEW t, s \in Seq(X), t \in Seq(X)
    PROVE  /\ s \o t \in Seq(X) /\ Len(s \o t) = Len(s) + Len(t)
           /\ \A i \in 1..Len(s) : (s \o t)[i] = s[i]
           /\ \A i \in 1..Len(t) : (s \o t)[Len(s) + i] = t[i]
<1>1. PICK u : u = s \o t
  OBVIOUS
<1> QED
  BY <1>1, JoinAt

LEMMA PieceOne ==
    ASSUME NEW X, NEW w \in Seq(X), NEW i \in 1..Len(w)
    PROVE  SubSeq(w, i, i) = <<w[i]>>
<1>1. Len(w) \in Nat /\ i \in Nat /\ i <= Len(w) /\ i >= 1
  OBVIOUS
<1>2. SubSeq(w, i, i) = [j \in 1..1 |-> w[i + j - 1]]
  BY <1>1
<1>3. \A j \in 1..1 : j = 1 /\ i + j - 1 = i
  BY <1>1
<1>4. <<w[i]>> = [j \in 1..1 |-> w[i]]
  OBVIOUS
<1> QED
  BY <1>2, <1>3, <1>4

\* An answer of the model, as far as it was read: it unmarshals only when it is
\* the document, and all of it.
Prose(say) == say # <<>> => say[1] \notin ValueStarts
Document(doc) == doc # <<>> => OpensObject(doc) /\ Unmarshal(doc) # Unparsed

LEMMA WholeOrNothing ==
    ASSUME NEW say \in Seq(STRING), NEW doc \in Seq(STRING), Prose(say), Document(doc),
           NEW n \in 0..Len(say \o doc), Unmarshal(SubSeq(say \o doc, 1, n)) # Unparsed
    PROVE  SubSeq(say \o doc, 1, n) = doc /\ doc # <<>>
<1> DEFINE w == say \o doc
<1>1. /\ w \in Seq(STRING)
      /\ say # <<>> => w # <<>> /\ w[1] = say[1]
      /\ say = <<>> => w = doc
  BY JoinOf
<1> HIDE DEF w
<1>2. n \in 0..Len(w) /\ Unmarshal(SubSeq(w, 1, n)) # Unparsed
  BY DEF w
<1>3. say = <<>>
  <2> SUFFICES ASSUME say # <<>> PROVE FALSE
    OBVIOUS
  <2>1. w[1] \notin ValueStarts
    BY <1>1 DEF Prose
  <2> QED
    BY <1>1, <1>2, <2>1, ProseUnparsed
<1>4. w = doc
  BY <1>1, <1>3
<1>5. n # 0
  BY <1>1, <1>2, NothingUnparsed
<1>6. doc # <<>>
  BY <1>2, <1>4, <1>5
<1>7. n = Len(w)
  <2> SUFFICES ASSUME n # Len(w) PROVE FALSE
    OBVIOUS
  <2>1. n \in Nat /\ n < Len(w)
    BY <1>1, <1>2
  <2> QED
    BY <1>1, <1>2, <1>4, <1>6, <2>1, CutUnparsed DEF Document
<1>8. SubSeq(w, 1, n) = w
  BY <1>1, <1>7, PrefixNone
<1> QED
  BY <1>4, <1>6, <1>8 DEF w

-----------------------------------------------------------------------------
\* The chunks l that are still to come are the pieces of w behind the text t.
Marks(f, l, w) ==
    /\ f \in [0..Len(l) -> 0..Len(w)]
    /\ \A i \in 1..Len(l) : f[i - 1] <= f[i] /\ l[i] = SubSeq(w, f[i - 1] + 1, f[i])
Pieces(l, t, w) == \E f : Marks(f, l, w) /\ t = SubSeq(w, 1, f[0])

\* The text is a prefix, and stays one when the chunks to come are dropped.
LEMMA PiecesText ==
    ASSUME NEW X, NEW w \in Seq(X), NEW l \in Seq(Seq(X)), NEW t, Pieces(l, t, w)
    PROVE  /\ \E n \in 0..Len(w) : t = SubSeq(w, 1, n)
           /\ Pieces(<<>>, t, w)
<1>1. PICK f : Marks(f, l, w) /\ t = SubSeq(w, 1, f[0])
  BY DEF Pieces
<1>2. Len(l) \in Nat /\ f[0] \in 0..Len(w)
  <2>1. Len(l) \in Nat /\ 0 \in 0..Len(l)
    OBVIOUS
  <2> QED
    BY <1>1, <2>1 DEF Marks
<1> DEFINE g == [i \in 0..0 |-> f[0]]
<1>3. g \in [0..0 -> 0..Len(w)] /\ g[0] = f[0]
  BY <1>2
<1>4. Len(<<>>) = 0 /\ \A i \in 1..0 : FALSE
  OBVIOUS
<1> HIDE DEF g
<1>5. Marks(g, <<>>, w)
  BY <1>3, <1>4 DEF Marks
<1> QED
  BY <1>1, <1>2, <1>3, <1>5 DEF Pieces

LEMMA FunctionOf ==
    ASSUME NEW X, NEW n \in Nat, NEW l \in [1..n -> X]
    PROVE  l \in Seq(X) /\ Len(l) = n
OBVIOUS

LEMMA JoinIs ==
    ASSUME NEW X, NEW p \in Seq(X), NEW r \in Seq(X), NEW w, NEW n \in Nat, n = Len(p) + Len(r),
           \A i \in 1..Len(p) : p[i] = w[i], \A i \in 1..Len(r) : r[i] = w[Len(p) + i]
    PROVE  p \o r = [i \in 1..n |-> w[i]]
<1>1. PICK u : u = p \o r
  OBVIOUS
<1>2. /\ u \in Seq(X) /\ Len(u) = n /\ Len(p) \in Nat /\ Len(r) \in Nat
      /\ \A i \in 1..Len(p) : u[i] = p[i]
      /\ \A i \in 1..Len(r) : u[Len(p) + i] = r[i]
  BY <1>1, JoinAt
<1>3. ASSUME NEW i \in 1..n PROVE u[i] = w[i]
  <2>1. CASE i <= Len(p)
    <3>1. i \in 1..Len(p)
      BY <1>2, <2>1
    <3> QED
      BY <1>2, <3>1
  <2>2. CASE i > Len(p)
    <3>1. PICK j \in 1..Len(r) : Len(p) + j = i
      <4>1. i - Len(p) \in 1..Len(r) /\ Len(p) + (i - Len(p)) = i
        BY <1>2, <2>2
      <4> QED
        BY <4>1
    <3> QED
      BY <1>2, <3>1
  <2> QED
    BY <1>2, <2>1, <2>2
<1>4. u = [i \in 1..n |-> u[i]]
  BY <1>2
<1> QED
  BY <1>1, <1>3, <1>4

\* A prefix and the piece behind it are a longer prefix.
LEMMA SplitOf ==
    ASSUME NEW X, NEW w \in Seq(X), NEW m \in 0..Len(w), NEW n \in m..Len(w)
    PROVE  SubSeq(w, 1, m) \o SubSeq(w, m + 1, n) = SubSeq(w, 1, n)
<1>1. Len(w) \in Nat /\ m \in Nat /\ n \in Nat /\ m <= n /\ n <= Len(w)
  OBVIOUS
<1>2. SubSeq(w, 1, m) = [i \in 1..m |-> w[i]] /\ SubSeq(w, 1, n) = [i \in 1..n |-> w[i]]
  BY <1>1
<1>3. SubSeq(w, m + 1, n) = [i \in 1..(n - m) |-> w[m + i]]
  BY <1>1
<1>4. /\ SubSeq(w, 1, m) \in Seq(X) /\ Len(SubSeq(w, 1, m)) = m
      /\ SubSeq(w, m + 1, n) \in Seq(X) /\ Len(SubSeq(w, m + 1, n)) = n - m
  BY <1>1, <1>2, <1>3
<1> PICK p : p = SubSeq(w, 1, m)
  OBVIOUS
<1> PICK r : r = SubSeq(w, m + 1, n)
  OBVIOUS
<1>5. (\A i \in 1..m : p[i] = w[i]) /\ (\A i \in 1..(n - m) : r[i] = w[m + i])
  BY <1>1, <1>2, <1>3
<1>6. p \in Seq(X) /\ Len(p) = m /\ r \in Seq(X) /\ Len(r) = n - m
  BY <1>4
<1>7. p \o r = [i \in 1..n |-> w[i]]
  <2>1. /\ n \in Nat /\ n = Len(p) + Len(r) /\ \A i \in 1..Len(p) : p[i] = w[i]
        /\ \A i \in 1..Len(r) : r[i] = w[Len(p) + i]
    BY <1>1, <1>5, <1>6
  <2>2. p \in Seq(X) /\ r \in Seq(X)
    BY <1>6
  <2> QED
    BY <2>1, <2>2, JoinIs
<1> QED
  BY <1>2, <1>7

\* The next chunk goes from the ones to come to the text.
LEMMA PiecesNext ==
    ASSUME NEW X, NEW w \in Seq(X), NEW l \in Seq(Seq(X)), l # <<>>, NEW t, Pieces(l, t, w)
    PROVE  Pieces(Tail(l), t \o Head(l), w) /\ Tail(l) \in Seq(Seq(X))
<1>1. PICK f : Marks(f, l, w) /\ t = SubSeq(w, 1, f[0])
  BY DEF Pieces
<1>2. /\ Len(l) \in Nat /\ Len(l) >= 1 /\ Head(l) = l[1]
      /\ Tail(l) \in Seq(Seq(X)) /\ Len(Tail(l)) = Len(l) - 1
      /\ \A i \in 1..(Len(l) - 1) : Tail(l)[i] = l[i + 1]
  OBVIOUS
<1>3. f[0] \in 0..Len(w) /\ f[1] \in f[0]..Len(w) /\ Head(l) = SubSeq(w, f[0] + 1, f[1])
  <2>1. 1 \in 1..Len(l) /\ 0 \in 0..Len(l) /\ 1 \in 0..Len(l) /\ 1 - 1 = 0
    BY <1>2
  <2>2. f[1 - 1] <= f[1] /\ l[1] = SubSeq(w, f[1 - 1] + 1, f[1])
    BY <1>1, <2>1 DEF Marks
  <2>3. f[0] \in 0..Len(w) /\ f[1] \in 0..Len(w)
    BY <1>1, <2>1 DEF Marks
  <2> QED
    BY <1>2, <2>1, <2>2, <2>3
<1>4. t \o Head(l) = SubSeq(w, 1, f[1])
  BY <1>1, <1>3, SplitOf
<1> DEFINE g == [i \in 0..(Len(l) - 1) |-> f[i + 1]]
<1>5. g \in [0..(Len(l) - 1) -> 0..Len(w)] /\ g[0] = f[1]
  <2>1. \A i \in 0..(Len(l) - 1) : i + 1 \in 0..Len(l)
    BY <1>2
  <2>2. f \in [0..Len(l) -> 0..Len(w)]
    BY <1>1 DEF Marks
  <2> QED
    BY <1>2, <2>1, <2>2
<1>6. ASSUME NEW i \in 1..(Len(l) - 1)
      PROVE  g[i - 1] <= g[i] /\ Tail(l)[i] = SubSeq(w, g[i - 1] + 1, g[i])
  <2>1. i + 1 \in 1..Len(l) /\ i + 1 - 1 = i /\ i - 1 + 1 = i /\ i \in 0..(Len(l) - 1) /\ i - 1 \in 0..(Len(l) - 1)
    BY <1>2
  <2>2. f[i + 1 - 1] <= f[i + 1] /\ l[i + 1] = SubSeq(w, f[i + 1 - 1] + 1, f[i + 1])
    BY <1>1, <2>1 DEF Marks
  <2>3. g[i] = f[i + 1] /\ g[i - 1] = f[i]
    BY <2>1
  <2> HIDE DEF g
  <2> QED
    BY <1>2, <2>1, <2>2, <2>3
<1> HIDE DEF g
<1>7. Marks(g, Tail(l), w)
  BY <1>2, <1>5, <1>6 DEF Marks
<1> QED
  BY <1>2, <1>4, <1>5, <1>7 DEF Pieces

\* The chunks of an answer, one character at a time or with the document at once.
Bits(s) == [i \in 1..Len(s) |-> <<s[i]>>]

LEMMA BitsAre ==
    ASSUME NEW X, NEW s \in Seq(X)
    PROVE  /\ Bits(s) \in Seq(Seq(X)) /\ Len(Bits(s)) = Len(s)
           /\ \A i \in 1..Len(s) : Bits(s)[i] = <<s[i]>>
<1>1. \A x \in X : <<x>> \in Seq(X)
  OBVIOUS
<1>2. Len(s) \in Nat /\ \A i \in 1..Len(s) : s[i] \in X
  OBVIOUS
<1> QED
  BY <1>1, <1>2 DEF Bits

OneByOne(l, s, d) ==
    /\ Len(l) = Len(s) + Len(d)
    /\ \A i \in 1..Len(s) : l[i] = <<s[i]>>
    /\ \A i \in 1..Len(d) : l[Len(s) + i] = <<d[i]>>

LEMMA BitsJoined ==
    ASSUME NEW X, NEW s \in Seq(X), NEW d \in Seq(X)
    PROVE  Bits(s) \o Bits(d) \in Seq(Seq(X)) /\ OneByOne(Bits(s) \o Bits(d), s, d)
<1>0. Bits(s) \in Seq(Seq(X)) /\ Bits(d) \in Seq(Seq(X))
  BY BitsAre
<1>1. /\ Len(Bits(s)) = Len(s) /\ Len(Bits(d)) = Len(d)
      /\ \A i \in 1..Len(s) : Bits(s)[i] = <<s[i]>>
      /\ \A i \in 1..Len(d) : Bits(d)[i] = <<d[i]>>
  BY BitsAre
<1>2. /\ Bits(s) \o Bits(d) \in Seq(Seq(X))
      /\ Len(Bits(s) \o Bits(d)) = Len(Bits(s)) + Len(Bits(d))
      /\ \A i \in 1..Len(Bits(s)) : (Bits(s) \o Bits(d))[i] = Bits(s)[i]
      /\ \A i \in 1..Len(Bits(d)) : (Bits(s) \o Bits(d))[Len(Bits(s)) + i] = Bits(d)[i]
  BY <1>0, JoinParts
<1> QED
  BY <1>1, <1>2 DEF OneByOne

LEMMA PiecesBits ==
    ASSUME NEW X, NEW s \in Seq(X), NEW d \in Seq(X), NEW m \in 0..Len(Bits(s) \o Bits(d))
    PROVE  SubSeq(Bits(s) \o Bits(d), 1, m) \in Seq(Seq(X)) /\ Pieces(SubSeq(Bits(s) \o Bits(d), 1, m), <<>>, s \o d)
<1> DEFINE w == s \o d
<1>1. Len(s) \in Nat /\ Len(d) \in Nat
  OBVIOUS
<1> DEFINE l == Bits(s) \o Bits(d)
<1>2. /\ l \in Seq(Seq(X)) /\ Len(l) = Len(s) + Len(d) /\ m \in 0..Len(l)
      /\ \A i \in 1..Len(s) : l[i] = <<s[i]>>
      /\ \A i \in 1..Len(d) : l[Len(s) + i] = <<d[i]>>
  <2>1. m \in 0..Len(l)
    OBVIOUS
  <2>2. l \in Seq(Seq(X)) /\ OneByOne(l, s, d)
    BY BitsJoined
  <2> QED
    BY <2>1, <2>2 DEF OneByOne
<1> HIDE DEF l
<1>3. w \in Seq(X) /\ Len(w) = Len(s) + Len(d)
  BY JoinOf
<1>4. /\ \A i \in 1..Len(s) : w[i] = s[i]
      /\ \A i \in 1..Len(d) : w[Len(s) + i] = d[i]
  BY <1>1, <1>3
<1>5. l \in Seq(Seq(X)) /\ Len(l) = Len(w) /\ \A i \in 1..Len(l) : l[i] = <<w[i]>>
  <2> HIDE DEF w
  <2>1. ASSUME NEW i \in 1..Len(l) PROVE l[i] = <<w[i]>>
    <3>1. CASE i <= Len(s)
      <4>1. i \in 1..Len(s)
        BY <1>1, <3>1
      <4> QED
        BY <1>2, <1>4, <4>1
    <3>2. CASE i > Len(s)
      <4>1. PICK j \in 1..Len(d) : i = Len(s) + j
        <5>1. i - Len(s) \in 1..Len(d) /\ i = Len(s) + (i - Len(s))
          BY <1>1, <1>2, <3>2
        <5> QED
          BY <5>1
      <4>2. l[i] = <<d[j]>> /\ w[i] = d[j]
        BY <1>2, <1>4, <4>1
      <4> QED
        BY <1>2, <4>1, <4>2
    <3> QED
      BY <1>1, <1>2, <3>1, <3>2
  <2> QED
    BY <1>2, <1>3, <2>1
<1> HIDE DEF w
<1> DEFINE k == SubSeq(l, 1, m)
           f == [i \in 0..m |-> i]
<1>6. k \in Seq(Seq(X)) /\ Len(k) = m /\ m \in Nat /\ m <= Len(w) /\ Len(w) \in Nat
  <2>1. Len(w) \in Nat /\ m \in Nat /\ m <= Len(w)
    BY <1>1, <1>2, <1>3, <1>5
  <2>2. k \in Seq(Seq(X)) /\ Len(k) = m
    BY <1>2, <1>5, PrefixIn
  <2> QED
    BY <2>1, <2>2
<1>7. \A i \in 1..m : k[i] = l[i] /\ i \in 1..Len(l)
  BY <1>2, <1>5, <1>6, PrefixAt
<1>8. f \in [0..m -> 0..Len(w)] /\ f[0] = 0
  BY <1>6
<1>9. ASSUME NEW i \in 1..m PROVE f[i - 1] <= f[i] /\ k[i] = SubSeq(w, f[i - 1] + 1, f[i])
  <2>1. f[i - 1] = i - 1 /\ f[i] = i /\ i - 1 + 1 = i /\ i - 1 <= i /\ i \in 1..Len(w)
    BY <1>6
  <2>2. SubSeq(w, i, i) = <<w[i]>>
    BY <1>3, <2>1, PieceOne
  <2> QED
    BY <1>5, <1>7, <2>1, <2>2
<1> HIDE DEF k, f
<1>10. Marks(f, k, w)
  BY <1>6, <1>8, <1>9 DEF Marks
<1>11. SubSeq(w, 1, 0) = <<>>
  BY <1>3, PrefixNone
<1>12. Pieces(k, <<>>, w)
  BY <1>8, <1>10, <1>11 DEF Pieces
<1> QED
  BY <1>6, <1>12 DEF k, w, l

LEMMA PiecesAtOnce ==
    ASSUME NEW X, NEW s \in Seq(X), NEW d \in Seq(X),
           NEW l, l = Bits(s) \o <<d>>,
           NEW m \in 0..Len(l)
    PROVE  SubSeq(l, 1, m) \in Seq(Seq(X)) /\ Pieces(SubSeq(l, 1, m), <<>>, s \o d)
<1> DEFINE a == Bits(s)
           w == s \o d
<1>1. Len(s) \in Nat /\ Len(d) \in Nat
  OBVIOUS
<1>2. a \in Seq(Seq(X)) /\ Len(a) = Len(s) /\ <<d>> \in Seq(Seq(X)) /\ Len(<<d>>) = 1 /\ <<d>>[1] = d
  BY BitsAre
<1>3. w \in Seq(X) /\ Len(w) = Len(s) + Len(d)
  BY JoinOf
<1>4. /\ \A i \in 1..Len(s) : w[i] = s[i]
      /\ \A i \in 1..Len(d) : w[Len(s) + i] = d[i]
  BY <1>1, <1>3
<1>5. /\ l \in Seq(Seq(X)) /\ Len(l) = Len(s) + 1 /\ l[Len(s) + 1] = d
      /\ \A i \in 1..Len(s) : l[i] = <<w[i]>>
  <2>1. l = a \o <<d>>
    OBVIOUS
  <2>2. \A i \in 1..Len(s) : a[i] = <<s[i]>>
    BY BitsAre
  <2> HIDE DEF a, w
  <2> PICK v : v = [i \in 1..(Len(s) + 1) |-> IF i <= Len(s) THEN a[i] ELSE d]
    OBVIOUS
  <2>3. l = [i \in 1..(Len(s) + 1) |-> v[i]]
    <3>1. Len(s) + 1 \in Nat /\ Len(s) + 1 = Len(a) + Len(<<d>>)
      BY <1>1, <1>2
    <3>2. \A i \in 1..Len(a) : a[i] = v[i]
      BY <1>1, <1>2
    <3>3. \A i \in 1..Len(<<d>>) : <<d>>[i] = v[Len(a) + i]
      <4>1. v[Len(s) + 1] = d
        BY <1>1
      <4>2. \A i \in 1..Len(<<d>>) : i = 1
        BY <1>2
      <4> QED
        BY <1>2, <4>1, <4>2
    <3> PICK Y : Y = Seq(X)
      OBVIOUS
    <3>4. a \in Seq(Y) /\ <<d>> \in Seq(Y)
      BY <1>2
    <3>5. a \o <<d>> = [i \in 1..(Len(s) + 1) |-> v[i]]
      BY <3>1, <3>2, <3>3, <3>4, JoinIs
    <3> QED
      BY <2>1, <3>5
  <2>4. v \in [1..(Len(s) + 1) -> Seq(X)]
    <3>1. \A i \in 1..Len(s) : a[i] \in Seq(X)
      BY <1>2
    <3>2. d \in Seq(X)
      OBVIOUS
    <3>3. ASSUME NEW i \in 1..(Len(s) + 1) PROVE v[i] \in Seq(X)
      BY <1>1, <3>1, <3>2
    <3> QED
      BY <3>3
  <2>5. \A i \in 1..Len(s) : l[i] = a[i]
    BY <1>1, <2>3
  <2>6. l[Len(s) + 1] = d
    BY <1>1, <2>3
  <2>7. l \in Seq(Seq(X)) /\ Len(l) = Len(s) + 1
    <3>1. l = v
      BY <2>3, Zenon
    <3>2. Len(s) + 1 \in Nat
      BY <1>1
    <3>3. v \in Seq(Seq(X)) /\ Len(v) = Len(s) + 1
      <4> PICK n : n = Len(s) + 1
        OBVIOUS
      <4>1. v \in [1..n -> Seq(X)] /\ n \in Nat
        BY <2>4, <3>2
      <4>2. v \in Seq(Seq(X)) /\ Len(v) = n
        BY <4>1, FunctionOf, Zenon
      <4> QED
        BY <4>2
    <3> QED
      BY <3>1, <3>3, Zenon
  <2> QED
    BY <1>4, <2>2, <2>5, <2>6, <2>7
<1>6. SubSeq(w, Len(s) + 1, Len(w)) = d
  <2>1. SubSeq(w, Len(s) + 1, Len(w)) = [i \in 1..(Len(w) - Len(s)) |-> w[Len(s) + i]]
    BY <1>1, <1>3
  <2>2. d = [i \in 1..Len(d) |-> d[i]] /\ Len(w) - Len(s) = Len(d)
    BY <1>1, <1>3
  <2> HIDE DEF w
  <2> QED
    BY <1>4, <2>1, <2>2
<1> HIDE DEF a, w
<1> DEFINE k == SubSeq(l, 1, m)
           f == [i \in 0..m |-> IF i <= Len(s) THEN i ELSE Len(w)]
<1>7. k \in Seq(Seq(X)) /\ Len(k) = m /\ m \in Nat /\ m <= Len(s) + 1 /\ Len(w) \in Nat /\ Len(s) <= Len(w)
  <2>1. m \in Nat /\ m <= Len(s) + 1 /\ Len(w) \in Nat /\ Len(s) <= Len(w)
    BY <1>1, <1>3, <1>5
  <2>2. k \in Seq(Seq(X)) /\ Len(k) = m
    BY <1>5, PrefixIn
  <2> QED
    BY <2>1, <2>2
<1>8. \A i \in 1..m : k[i] = l[i]
  BY <1>5, <1>7, PrefixAt
<1>9. f \in [0..m -> 0..Len(w)] /\ f[0] = 0
  BY <1>1, <1>7
<1>10. ASSUME NEW i \in 1..m PROVE f[i - 1] <= f[i] /\ k[i] = SubSeq(w, f[i - 1] + 1, f[i])
  <2>1. i - 1 \in 0..m /\ i - 1 <= Len(s) /\ i - 1 + 1 = i /\ i \in 0..m /\ i \in Nat
    BY <1>1, <1>7
  <2>2. f[i - 1] = i - 1
    BY <2>1
  <2>3. CASE i <= Len(s)
    <3>1. f[i] = i /\ i \in 1..Len(w) /\ i \in 1..Len(s)
      BY <1>1, <1>7, <2>1, <2>3
    <3>2. SubSeq(w, i, i) = <<w[i]>>
      BY <1>3, <3>1, PieceOne
    <3> HIDE DEF f, k
    <3>3. k[i] = <<w[i]>>
      BY <1>5, <1>8, <3>1
    <3>4. f[i - 1] <= f[i] /\ f[i - 1] + 1 = i
      BY <2>1, <2>2, <3>1
    <3> QED
      BY <3>1, <3>2, <3>3, <3>4
  <2>4. CASE i = Len(s) + 1
    <3>1. f[i] = Len(w)
      BY <1>1, <2>1, <2>4
    <3> HIDE DEF f, k
    <3>2. k[i] = d
      BY <1>5, <1>8, <2>4
    <3>3. f[i - 1] = Len(s) /\ f[i - 1] <= f[i]
      BY <1>1, <1>7, <2>2, <2>4, <3>1
    <3> QED
      BY <1>6, <3>1, <3>2, <3>3
  <2>5. i <= Len(s) \/ i = Len(s) + 1
    BY <1>1, <1>7
  <2> QED
    BY <2>3, <2>4, <2>5
<1> HIDE DEF k, f
<1>11. Marks(f, k, w)
  BY <1>7, <1>9, <1>10 DEF Marks
<1>12. SubSeq(w, 1, 0) = <<>>
  BY <1>3, PrefixNone
<1>13. Pieces(k, <<>>, w)
  BY <1>9, <1>11, <1>12 DEF Pieces
<1> QED
  BY <1>7, <1>13 DEF k, w

-----------------------------------------------------------------------------
\* The chunks of an answer are its pieces, also when the stream is cut.
LEMMA ChunksArePieces ==
    ASSUME NEW c, NEW a, a.say \in Seq(STRING), a.doc \in Seq(STRING), NEW m \in 0..Len(Chunks(c, a))
    PROVE  /\ SubSeq(Chunks(c, a), 1, m) \in Seq(Seq(STRING))
           /\ Pieces(SubSeq(Chunks(c, a), 1, m), <<>>, a.say \o a.doc)
<1>1. PICK s \in Seq(STRING), d \in Seq(STRING) : s = a.say /\ d = a.doc
  OBVIOUS
<1>2. Chunks(c, a) = Bits(s) \o <<d>> \/ Chunks(c, a) = Bits(s) \o Bits(d)
  BY <1>1 DEF Chunks, Bits
<1>3. CASE Chunks(c, a) = Bits(s) \o <<d>>
  <2>1. SubSeq(Chunks(c, a), 1, m) \in Seq(Seq(STRING)) /\ Pieces(SubSeq(Chunks(c, a), 1, m), <<>>, s \o d)
    BY <1>3, PiecesAtOnce, Zenon
  <2> QED
    BY <1>1, <2>1, Zenon
<1>4. CASE Chunks(c, a) = Bits(s) \o Bits(d)
  <2>1. m \in 0..Len(Bits(s) \o Bits(d))
    BY <1>4, Zenon
  <2>2. /\ SubSeq(Bits(s) \o Bits(d), 1, m) \in Seq(Seq(STRING))
        /\ Pieces(SubSeq(Bits(s) \o Bits(d), 1, m), <<>>, s \o d)
    BY <2>1, PiecesBits, Zenon
  <2> QED
    BY <1>1, <1>4, <2>2, Zenon
<1> QED
  BY <1>2, <1>3, <1>4

LEMMA ChunksMany ==
    ASSUME NEW c, NEW a, a.say \in Seq(STRING), a.doc \in Seq(STRING)
    PROVE  Len(Chunks(c, a)) \in Nat
<1>1. PICK s \in Seq(STRING), d \in Seq(STRING) : s = a.say /\ d = a.doc
  OBVIOUS
<1>2. Chunks(c, a) = Bits(s) \o <<d>> \/ Chunks(c, a) = Bits(s) \o Bits(d)
  BY <1>1 DEF Chunks, Bits
<1>3. Bits(s) \in Seq(Seq(STRING)) /\ Bits(d) \in Seq(Seq(STRING)) /\ <<d>> \in Seq(Seq(STRING))
  BY BitsAre
<1>4. Len(Bits(s) \o <<d>>) \in Nat /\ Len(Bits(s) \o Bits(d)) \in Nat
  BY <1>3
<1> QED
  BY <1>2, <1>4, Zenon

\* What the tables of the run are asked for is in them.
Answers == UNION {s.plan[c].answers : s \in Scenes, c \in Callers}
Wholes == {a.doc : a \in Answers} \cup {a.say \o a.doc : a \in Answers}

LEMMA TextsAre == Texts = UNION {{SubSeq(w, 1, n) : n \in 0..Len(w)} : w \in Wholes}
BY DEF Texts, Wholes, Answers

LEMMA ObjectIs ==
    ASSUME scene \in Scenes, NEW c \in Callers, NEW a \in Plan(c).answers,
           NEW w \in {a.doc, a.say \o a.doc}, NEW n \in 0..Len(w)
    PROVE  ObjectOf[SubSeq(w, 1, n)] = Unmarshal(SubSeq(w, 1, n))
<1>1. SubSeq(w, 1, n) \in Texts
  <2>1. a \in Answers
    <3>1. scene.plan[c].answers \in {s.plan[e].answers : s \in Scenes, e \in Callers}
      OBVIOUS
    <3> QED
      BY <3>1 DEF Plan, Answers
  <2>2. w \in Wholes
    BY <2>1 DEF Wholes
  <2> QED
    BY <2>2, TextsAre
<1> QED
  BY <1>1 DEF ObjectOf

LEMMA AnswerIs ==
    ASSUME scene \in Scenes, NEW c \in Callers, NEW a \in Plan(c).answers
    PROVE  a.say \in Seq(STRING) /\ a.doc \in Seq(STRING) /\ Prose(a.say) /\ Document(a.doc)
BY DocumentsAssumption DEF Plan, Prose, Document

LEMMA AnswerText ==
    ASSUME scene \in Scenes, NEW c \in Callers, NEW a \in Plan(c).answers
    PROVE  \E w \in Seq(STRING) : w = a.say \o a.doc
<1>1. PICK s \in Seq(STRING), d \in Seq(STRING) : s = a.say /\ d = a.doc
  BY AnswerIs
<1>2. s \o d \in Seq(STRING)
  BY JoinOf
<1> QED
  BY <1>1, <1>2

\* A prefix of an answer, or of its document, that parses is the document.
LEMMA ReadWhole ==
    ASSUME scene \in Scenes, NEW c \in Callers, NEW a \in Plan(c).answers,
           NEW w \in {a.doc, a.say \o a.doc}, NEW n \in 0..Len(w),
           ObjectOf[SubSeq(w, 1, n)] # Unparsed
    PROVE  SubSeq(w, 1, n) = a.doc /\ a.doc # <<>>
<1>1. PICK s \in Seq(STRING), d \in Seq(STRING) : s = a.say /\ d = a.doc /\ Prose(s) /\ Document(d)
  BY AnswerIs
<1>2. Unmarshal(SubSeq(w, 1, n)) # Unparsed
  BY ObjectIs
<1>3. CASE w = s \o d
  <2>1. n \in 0..Len(s \o d) /\ Unmarshal(SubSeq(s \o d, 1, n)) # Unparsed
    BY <1>2, <1>3, Zenon
  <2>2. SubSeq(s \o d, 1, n) = d /\ d # <<>>
    BY <1>1, <2>1, WholeOrNothing, Zenon
  <2> QED
    BY <1>1, <1>3, <2>2, Zenon
<1>4. CASE w = d
  <2>1. PICK e \in Seq(STRING) : e = <<>>
    <3>1. <<>> \in Seq(STRING)
      OBVIOUS
    <3> QED
      BY <3>1, Zenon
  <2>2. e \o d = d
    BY <2>1, JoinOf
  <2>3. Prose(e)
    BY <2>1 DEF Prose
  <2>4. n \in 0..Len(e \o d) /\ Unmarshal(SubSeq(e \o d, 1, n)) # Unparsed
    BY <1>2, <1>4, <2>2, Zenon
  <2>5. SubSeq(e \o d, 1, n) = d /\ d # <<>>
    BY <1>1, <2>3, <2>4, WholeOrNothing, Zenon
  <2> QED
    BY <1>1, <1>4, <2>2, <2>5, Zenon
<1>5. w = s \o d \/ w = d
  BY <1>1, Zenon
<1> QED
  BY <1>3, <1>4, <1>5

\* What a caller holds of an answer, while it comes and when the call is over.
Reading(c) ==
    \E a \in Plan(c).answers :
        wrote[c] = a.doc /\ left[c] \in Seq(Seq(STRING)) /\ Pieces(left[c], text[c], a.say \o a.doc)
Holds(c) ==
    /\ stage[c] # "idle" => result[c] = ""
    /\ Plan(c).streams /\ result[c] = "" /\ stage[c] # "read" => text[c] = <<>>
    /\ stage[c] = "read" => Reading(c)
    /\ result[c] = "object" => wrote[c] # <<>> /\ object[c] = ObjectOf[wrote[c]]
HoldTypes ==
    /\ scene \in Scenes /\ DOMAIN stage = Callers /\ DOMAIN wrote = Callers /\ DOMAIN left = Callers
    /\ DOMAIN text = Callers /\ DOMAIN result = Callers /\ DOMAIN object = Callers
HoldInv == HoldTypes /\ \A c \in Callers : Holds(c)

Alone(c) ==
    /\ scene' = scene
    /\ \A d \in Callers : d # c =>
          /\ stage'[d] = stage[d] /\ wrote'[d] = wrote[d] /\ left'[d] = left[d]
          /\ text'[d] = text[d] /\ result'[d] = result[d] /\ object'[d] = object[d]

\* A step of c that leaves what the others hold.
LEMMA AloneStep ==
    ASSUME HoldInv, NEW c \in Callers, HoldTypes', Alone(c), Holds(c)'
    PROVE  HoldInv'
<1>1. ASSUME NEW d \in Callers, d # c PROVE Holds(d)'
  <2>1. /\ Holds(d) /\ Plan(d)' = Plan(d)
        /\ stage'[d] = stage[d] /\ wrote'[d] = wrote[d] /\ left'[d] = left[d]
        /\ text'[d] = text[d] /\ result'[d] = result[d] /\ object'[d] = object[d]
    BY <1>1 DEF HoldInv, Alone, Plan
  <2>2. Reading(d) => Reading(d)'
    BY <2>1, Zenon DEF Reading
  <2>3. ObjectOf' = ObjectOf
    BY DEF ObjectOf, Texts
  <2> QED
    BY <2>1, <2>2, <2>3 DEF Holds
<1> QED
  BY <1>1 DEF HoldInv

LEMMA StillHolds ==
    ASSUME HoldInv, UNCHANGED <<scene, stage, wrote, left, text, result, object>>
    PROVE  HoldInv'
<1>1. ASSUME NEW c \in Callers PROVE Holds(c)'
  <2>1. Holds(c) /\ Plan(c)' = Plan(c) /\ ObjectOf' = ObjectOf
    BY DEF HoldInv, Plan, ObjectOf, Texts
  <2>2. Reading(c) => Reading(c)'
    BY <2>1, Zenon DEF Reading
  <2> QED
    BY <2>1, <2>2 DEF Holds
<1> QED
  BY <1>1 DEF HoldInv, HoldTypes

\* A step on the way to an answer.
LEMMA OnTheWay ==
    ASSUME HoldInv, NEW c \in Callers, stage[c] # "read", result[c] = "",
           NEW s, s # "read", stage' = [stage EXCEPT ![c] = s],
           UNCHANGED <<scene, wrote, left, text, result, object>>
    PROVE  HoldInv'
<1>1. HoldTypes' /\ Alone(c) /\ stage'[c] = s
  BY DEF HoldInv, HoldTypes, Alone
<1>2. Holds(c)'
  BY <1>1 DEF HoldInv, Holds, Plan
<1> QED
  BY <1>1, <1>2, AloneStep

KeepsTheirs(c) ==
    /\ scene' = scene /\ DOMAIN wrote' = Callers /\ DOMAIN left' = Callers /\ DOMAIN text' = Callers
    /\ \A d \in Callers : d # c => wrote'[d] = wrote[d] /\ left'[d] = left[d] /\ text'[d] = text[d]

\* The call comes to nothing.
LEMMA ComesToNothing ==
    ASSUME HoldInv, NEW c \in Callers, NEW how \in {"text", "failed", "refused", "exhausted", "canceled", "empty", "unparsed"},
           Returns(c, how, {}), KeepsTheirs(c)
    PROVE  HoldInv'
<1>1. HoldTypes' /\ Alone(c) /\ stage'[c] = "idle" /\ result'[c] = how
  BY DEF HoldInv, HoldTypes, Alone, Returns, KeepsTheirs
<1>2. Holds(c)'
  BY <1>1 DEF Holds
<1> QED
  BY <1>1, <1>2, AloneStep

\* The call ends in a parse.
LEMMA ComesToAnObject ==
    ASSUME HoldInv, NEW c \in Callers, NEW a \in Plan(c).answers,
           NEW w \in {a.doc, a.say \o a.doc}, NEW n \in 0..Len(w), NEW said, said = SubSeq(w, 1, n),
           Parses(c, said), KeepsTheirs(c), wrote'[c] = a.doc
    PROVE  HoldInv'
<1>1. CASE Returns(c, "empty", {}) \/ Returns(c, "unparsed", {})
  BY <1>1, ComesToNothing
<1>2. CASE ObjectOf[said] # Unparsed /\ Returns(c, "object", ObjectOf[said])
  <2>1. said = a.doc /\ a.doc # <<>>
    BY <1>2, ReadWhole DEF HoldInv, HoldTypes
  <2>2. /\ HoldTypes' /\ Alone(c) /\ stage'[c] = "idle" /\ result'[c] = "object"
        /\ wrote'[c] = a.doc /\ object'[c] = ObjectOf[a.doc]
    BY <1>2, <2>1 DEF HoldInv, HoldTypes, Alone, Returns, KeepsTheirs
  <2>3. Holds(c)'
    <3>1. ObjectOf' = ObjectOf
      BY DEF ObjectOf, Texts
    <3> QED
      BY <2>1, <2>2, <3>1 DEF Holds
  <2> QED
    BY <2>2, <2>3, AloneStep
<1> QED
  BY <1>1, <1>2 DEF Parses

\* Bedrock's chain takes a call no further than back to its caller.
LEMMA ChainMoves ==
    ASSUME then \in [Callers -> {"cross", "bare", "limit", "tools", "cache", "back"}],
           NEW c \in Callers, ChainStep(c, scene.service)
    PROVE  /\ stage[c] \notin {"idle", "read"}
           /\ \E s : s # "read" /\ stage' = [stage EXCEPT ![c] = s]
<1>1. CASE Send(c) \/ Refused(c, scene.service) \/ Accepted(c, scene.service)
  BY <1>1 DEF Send, Refused, Accepted
<1>2. CASE CrossRegion(c) \/ CrossRegionReadsId(c) \/ CrossRegionOnce(c)
  BY <1>2 DEF CrossRegion, CrossRegionReadsId, CrossRegionOnce, Again, Skip
<1>3. CASE BareUS(c) \/ BareUSReverts(c)
  BY <1>3 DEF BareUS, BareUSReverts, Again, Skip
<1>4. CASE DropLimit(c) \/ DropTools(c) \/ DropCaching(c)
  BY <1>4 DEF DropLimit, DropTools, DropCaching, Again, Skip
<1> QED
  BY <1>1, <1>2, <1>3, <1>4 DEF ChainStep

LEMMA HoldStart == Init => HoldInv
BY DEF Init, ChainInit, HoldInv, HoldTypes, Holds

\* The callers' steps, once more.
LEMMA StepHolds ==
    ASSUME ChainInv, HoldInv, NEW c \in Callers, Step(c) \/ Cancel(c)
    PROVE  HoldInv'
<1>0. /\ then \in [Callers -> {"cross", "bare", "limit", "tools", "cache", "back"}]
      /\ HoldTypes /\ Holds(c)
  BY DEF ChainInv, ChainTypes, HoldInv
<1>1. CASE Call(c)
  BY <1>1, OnTheWay DEF Call, doRequest, streamVars
<1>2. CASE DoHTTP(c)
  BY <1>0, <1>2, OnTheWay DEF DoHTTP, streamVars, Holds
<1>3. CASE Converses(c)
  <2>1. /\ stage[c] \notin {"idle", "read"}
        /\ \E s : s # "read" /\ stage' = [stage EXCEPT ![c] = s]
    BY <1>0, <1>3, ChainMoves DEF Converses
  <2> QED
    BY <1>0, <1>3, <2>1, OnTheWay DEF Converses, streamVars, Holds
<1>4. CASE GivesUp(c)
  BY <1>0, <1>4, OnTheWay DEF GivesUp, streamVars, Holds
<1>5. CASE Cancel(c)
  <2>1. UNCHANGED <<scene, stage, wrote, left, text, result, object>>
    BY <1>5 DEF Cancel, streamVars, chainVars
  <2> QED
    BY <2>1, StillHolds
<1>6. CASE Refusal(c)
  BY <1>0, <1>6, ComesToNothing DEF Refusal, streamVars, KeepsTheirs, HoldTypes
<1>7. CASE Answered(c)
  <2>1. PICK a \in Plan(c).answers :
          /\ wrote' = [wrote EXCEPT ![c] = a.doc] /\ UNCHANGED <<scene, left>>
          /\ \/ Returns(c, "failed", {}) /\ UNCHANGED text
             \/ Returns(c, "text", {}) /\ UNCHANGED text
             \/ text' = [text EXCEPT ![c] = WholeText(c, a)] /\ Parses(c, WholeText(c, a))
             \/ stage' = [stage EXCEPT ![c] = "idle"] /\ UNCHANGED <<text, result, object>>
    BY <1>7 DEF Answered
  <2>2. stage[c] = "back" /\ result[c] = "" /\ ~Plan(c).streams
    BY <1>0, <1>7 DEF Answered, Holds
  <2>3. KeepsTheirs(c) /\ wrote'[c] = a.doc
    BY <1>0, <2>1 DEF HoldTypes, KeepsTheirs, Returns
  <2>4. CASE UNCHANGED text /\ (Returns(c, "failed", {}) \/ Returns(c, "text", {}))
    BY <2>3, <2>4, ComesToNothing
  <2>5. CASE text' = [text EXCEPT ![c] = WholeText(c, a)] /\ Parses(c, WholeText(c, a))
    <3>1. PICK w \in {a.doc, a.say \o a.doc} : w = WholeText(c, a)
      BY DEF WholeText
    <3>2. w \in Seq(STRING) /\ a \in Plan(c).answers
      <4>1. PICK s \in Seq(STRING), d \in Seq(STRING) : s = a.say /\ d = a.doc
        BY <1>0, AnswerIs DEF HoldTypes
      <4>2. s \o d \in Seq(STRING)
        BY JoinOf
      <4> QED
        BY <4>1, <4>2
    <3>3. PICK n \in 0..Len(w) : w = SubSeq(w, 1, n)
      <4>1. Len(w) \in 0..Len(w)
        BY <3>2
      <4>2. w = SubSeq(w, 1, Len(w))
        BY <3>2, PrefixNone
      <4> QED
        BY <4>1, <4>2
    <3> QED
      BY <2>3, <2>5, <3>1, <3>3, ComesToAnObject
  <2>6. CASE stage' = [stage EXCEPT ![c] = "idle"] /\ UNCHANGED <<text, result, object>>
    <3>1. HoldTypes' /\ Alone(c) /\ stage'[c] = "idle" /\ result'[c] = ""
      BY <1>0, <2>1, <2>2, <2>6 DEF HoldTypes, Alone
    <3>2. Holds(c)'
      BY <2>1, <2>2, <3>1 DEF Holds, Plan
    <3> QED
      BY <3>1, <3>2, AloneStep
  <2> QED
    BY <2>1, <2>4, <2>5, <2>6
<1>8. CASE Exhausted(c)
  BY <1>0, <1>8, ComesToNothing DEF Exhausted, streamVars, KeepsTheirs, HoldTypes
<1>9. CASE AsksAgain(c)
  BY <1>0, <1>9, OnTheWay DEF AsksAgain, streamVars, Holds
<1>10. CASE Opens(c)
  <2>1. stage[c] = "back" /\ result[c] = "" /\ text[c] = <<>> /\ Plan(c).streams /\ UNCHANGED <<scene, text>>
    BY <1>0, <1>10 DEF Opens, Holds
  <2>2. CASE Returns(c, "text", {}) /\ UNCHANGED <<wrote, left>>
    BY <1>0, <2>1, <2>2, ComesToNothing DEF HoldTypes, KeepsTheirs
  <2>3. CASE \E a \in Plan(c).answers : \E n \in 0..Len(Chunks(c, a)) :
               /\ stage' = [stage EXCEPT ![c] = "read"] /\ wrote' = [wrote EXCEPT ![c] = a.doc]
               /\ left' = [left EXCEPT ![c] = SubSeq(Chunks(c, a), 1, n)] /\ UNCHANGED <<result, object>>
    <3>0. PICK a \in Plan(c).answers : \E n \in 0..Len(Chunks(c, a)) :
               /\ stage' = [stage EXCEPT ![c] = "read"] /\ wrote' = [wrote EXCEPT ![c] = a.doc]
               /\ left' = [left EXCEPT ![c] = SubSeq(Chunks(c, a), 1, n)] /\ UNCHANGED <<result, object>>
      BY <2>3
    <3>1. PICK n \in 0..Len(Chunks(c, a)) :
               /\ stage' = [stage EXCEPT ![c] = "read"] /\ wrote' = [wrote EXCEPT ![c] = a.doc]
               /\ left' = [left EXCEPT ![c] = SubSeq(Chunks(c, a), 1, n)] /\ UNCHANGED <<result, object>>
      BY <3>0
    <3>2. PICK l : l = SubSeq(Chunks(c, a), 1, n)
      OBVIOUS
    <3>3. l \in Seq(Seq(STRING)) /\ Pieces(l, <<>>, a.say \o a.doc)
      BY <1>0, <3>2, AnswerIs, ChunksArePieces DEF HoldTypes
    <3>4. /\ HoldTypes' /\ Alone(c) /\ stage'[c] = "read" /\ wrote'[c] = a.doc /\ left'[c] = l
          /\ text'[c] = <<>> /\ result'[c] = "" /\ Plan(c)' = Plan(c)
      BY <1>0, <2>1, <3>1, <3>2 DEF HoldTypes, Alone, Plan
    <3>5. Reading(c)'
      BY <3>3, <3>4 DEF Reading
    <3>6. Holds(c)'
      BY <3>4, <3>5 DEF Holds
    <3> QED
      BY <3>4, <3>6, AloneStep
  <2>4. \A a \in Plan(c).answers : 
           {Len(Chunks(c, a))} \cup {k \in 0..Len(Chunks(c, a)) : a.end # "stop"} \subseteq 0..Len(Chunks(c, a))
    <3> SUFFICES ASSUME NEW a \in Plan(c).answers PROVE Len(Chunks(c, a)) \in 0..Len(Chunks(c, a))
      OBVIOUS
    <3>1. Len(Chunks(c, a)) \in Nat
      BY <1>0, AnswerIs, ChunksMany DEF HoldTypes
    <3> QED
      BY <3>1
  <2> QED
    BY <1>10, <2>2, <2>3, <2>4 DEF Opens
<1>11. CASE ChunkText(c)
  <2>1. PICK t : t = text[c] \o Head(left[c])
    OBVIOUS
  <2>2. /\ stage[c] = "read" /\ left[c] # <<>> /\ UNCHANGED <<scene, wrote>>
        /\ left' = [left EXCEPT ![c] = Tail(left[c])] /\ text' = [text EXCEPT ![c] = t]
        /\ Returns(c, "canceled", {}) \/ UNCHANGED <<stage, result, object>>
    BY <1>0, <1>11, <2>1 DEF ChunkText, HoldTypes
  <2>3. CASE Returns(c, "canceled", {})
    <3>1. KeepsTheirs(c)
      BY <1>0, <2>2 DEF HoldTypes, KeepsTheirs
    <3> QED
      BY <2>3, <3>1, ComesToNothing
  <2>4. CASE UNCHANGED <<stage, result, object>>
    <3>1. PICK a \in Plan(c).answers :
            wrote[c] = a.doc /\ left[c] \in Seq(Seq(STRING)) /\ Pieces(left[c], text[c], a.say \o a.doc)
      BY <1>0, <2>2 DEF Holds, Reading
    <3>2. PICK w \in Seq(STRING) : w = a.say \o a.doc
      BY <1>0, AnswerText DEF HoldTypes
    <3>3. Pieces(Tail(left[c]), t, w) /\ Tail(left[c]) \in Seq(Seq(STRING))
      BY <2>1, <2>2, <3>1, <3>2, PiecesNext
    <3>4. /\ HoldTypes' /\ Alone(c) /\ stage'[c] = "read" /\ wrote'[c] = a.doc /\ left'[c] = Tail(left[c])
          /\ text'[c] = t /\ result'[c] = "" /\ Plan(c)' = Plan(c)
      BY <1>0, <2>2, <2>4, <3>1 DEF HoldTypes, Holds, Alone, Plan
    <3>5. Reading(c)'
      BY <3>2, <3>3, <3>4 DEF Reading
    <3>6. Holds(c)'
      BY <3>4, <3>5 DEF Holds
    <3> QED
      BY <3>4, <3>6, AloneStep
  <2> QED
    BY <2>2, <2>3, <2>4
<1>12. CASE StreamCut(c)
  <2>1. /\ stage[c] = "read" /\ left' = [left EXCEPT ![c] = <<>>]
        /\ UNCHANGED <<scene, stage, wrote, text, result, object>>
    BY <1>12 DEF StreamCut, chainVars
  <2>2. PICK a \in Plan(c).answers :
          wrote[c] = a.doc /\ left[c] \in Seq(Seq(STRING)) /\ Pieces(left[c], text[c], a.say \o a.doc)
    BY <1>0, <2>1 DEF Holds, Reading
  <2>3. PICK w \in Seq(STRING) : w = a.say \o a.doc
    BY <1>0, AnswerText DEF HoldTypes
  <2>4. Pieces(<<>>, text[c], w) /\ <<>> \in Seq(Seq(STRING))
    <3>1. Pieces(left[c], text[c], w)
      BY <2>2, <2>3, Zenon
    <3>2. <<>> \in Seq(Seq(STRING))
      OBVIOUS
    <3> QED
      BY <2>2, <3>1, <3>2, PiecesText, Zenon
  <2>5. /\ HoldTypes' /\ Alone(c) /\ stage'[c] = "read" /\ wrote'[c] = a.doc /\ left'[c] = <<>>
        /\ text'[c] = text[c] /\ result'[c] = "" /\ Plan(c)' = Plan(c)
    BY <1>0, <2>1, <2>2 DEF HoldTypes, Holds, Alone, Plan
  <2>6. Reading(c)'
    BY <2>3, <2>4, <2>5 DEF Reading
  <2>7. Holds(c)'
    BY <2>5, <2>6 DEF Holds
  <2> QED
    BY <2>5, <2>7, AloneStep
<1>13. CASE Consumed(c)
  <2>1. /\ stage[c] = "read" /\ UNCHANGED <<scene, wrote, left, text>>
        /\ Returns(c, "failed", {}) \/ Parses(c, text[c])
    BY <1>13 DEF Consumed
  <2>2. PICK a \in Plan(c).answers :
          wrote[c] = a.doc /\ left[c] \in Seq(Seq(STRING)) /\ Pieces(left[c], text[c], a.say \o a.doc)
    BY <1>0, <2>1 DEF Holds, Reading
  <2>3. PICK w \in Seq(STRING) : w = a.say \o a.doc
    BY <1>0, AnswerText DEF HoldTypes
  <2>4. PICK n \in 0..Len(w) : text[c] = SubSeq(w, 1, n)
    <3>1. Pieces(left[c], text[c], w)
      BY <2>2, <2>3, Zenon
    <3> PICK said : said = text[c]
      OBVIOUS
    <3>2. PICK l \in Seq(Seq(STRING)) : l = left[c]
      BY <2>2
    <3>3. Pieces(l, said, w)
      BY <3>1, <3>2, Zenon
    <3>4. \E n \in 0..Len(w) : said = SubSeq(w, 1, n)
      BY <3>3, PiecesText
    <3> QED
      BY <3>2, <3>4
  <2>5. KeepsTheirs(c) /\ wrote'[c] = a.doc
    BY <1>0, <2>1, <2>2 DEF HoldTypes, KeepsTheirs
  <2>6. CASE Returns(c, "failed", {})
    BY <2>5, <2>6, ComesToNothing
  <2>7. CASE Parses(c, text[c])
    <3>1. w \in {a.doc, a.say \o a.doc}
      BY <2>3
    <3> QED
      BY <2>4, <2>5, <2>7, <3>1, ComesToAnObject
  <2> QED
    BY <2>1, <2>6, <2>7
<1> QED
  BY <1>1, <1>2, <1>3, <1>4, <1>5, <1>6, <1>7, <1>8, <1>9, <1>10, <1>11, <1>12, <1>13 DEF Step

LEMMA HoldInvariance == Spec => []HoldInv
<1>1. ChainInv /\ HoldInv /\ [Next]_vars => HoldInv'
  <2> SUFFICES ASSUME ChainInv, HoldInv, [Next]_vars PROVE HoldInv'
    OBVIOUS
  <2>1. CASE Next
    BY <2>1, StepHolds DEF Next
  <2>2. CASE UNCHANGED vars
    <3>1. UNCHANGED <<scene, stage, wrote, left, text, result, object>>
      BY <2>2 DEF vars, chainVars
    <3> QED
      BY <3>1, StillHolds
  <2> QED
    BY <2>1, <2>2
<1> QED
  BY ChainInvariance, HoldStart, <1>1, PTL DEF Spec

-----------------------------------------------------------------------------
\* object.go:352, object.go:537, Parses: whatever a stream is cut to, however an
\* answer comes and whatever was said before it, an object that a call returns
\* is the document the model wrote, all of it.
THEOREM ObjectsAreWhole == Spec => []ObjectIsWhole
<1>1. HoldInv => ObjectIsWhole
  BY DEF HoldInv, Holds, ObjectIsWhole
<1> QED
  BY HoldInvariance, <1>1, PTL
=============================================================================
