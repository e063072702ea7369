----------------------- MODULE PolicyTemplates_proofs -----------------------
(***************************************************************************)
(* What the templates, the repository and the detector keep, for any       *)
(* number of callers and whatever is offered and customized.               *)
(***************************************************************************)
EXTENDS PolicyTemplates, FiniteSetTheorems, SequenceTheorems, TLAPS

\* Whatever a field of a policy may hold.
Offer == UNION {{t[f] : f \in PolicyField} : t \in Offered}
Update == UNION {{u[f] : f \in DOMAIN u} : u \in Customizations}
Value == (Offer \cup Update \cup Nat) \cup (NewIds \cup {"1.0.0"}) \cup BOOLEAN

Policy == {p \in [PolicyField -> Value] : p.effective_date \in Int /\ p.seen \in Nat}

Call == [at : {"save", "integrate"}, operation : {"create", "customize"}, policy : Policy]

OnFile(p) == \E i \in DOMAIN records : records[i] = p

\* A call that has not saved yet knows as many records as its check has seen;
\* one that has saved is about to push a record without a forbidden keyword.
CallOK(c) ==
    \/ calls[c] = Idle
    \/ /\ calls[c] \in Call /\ calls[c].at = "save"
       /\ calls[c].policy.seen \in 0 .. Len(records)
       /\ calls[c].operation = "create" => ~ForbiddenKeyword(calls[c].policy)
    \/ /\ calls[c] \in Call /\ calls[c].at = "integrate"
       /\ OnFile(calls[c].policy) /\ ~ForbiddenKeyword(calls[c].policy)

Types ==
    /\ records \in Seq(Policy)
    /\ DOMAIN calls = Callers
    /\ \A c \in Callers : CallOK(c)

-----------------------------------------------------------------------------

\* The copy that clone_template makes, and the updates of it.
Clone(source, template_id, new_id) ==
    [source EXCEPT !.policy_id = new_id, !.is_template = FALSE,
                   !.template_id = template_id, !.version = "1.0.0"]
Updated(clone, u) == [f \in DOMAIN clone |-> IF f \in DOMAIN u THEN u[f] ELSE clone[f]]

Seen(p, n) == [p EXCEPT !.seen = n]

\* Every non-empty set of natural numbers has a least element.
LEMMA LeastElement ==
  ASSUME NEW T \in SUBSET Nat, T # {}
  PROVE  \E m \in T : \A k \in T : m <= k
<1> DEFINE R == OpToRel(<, Nat)
<1>1. IsWellFoundedOn(R, Nat)
  BY NatLessThanWellFounded
<1>2. \A x, y \in Nat : <<y, x>> \in R <=> y < x
  BY DEF OpToRel
<1> HIDE DEF R
<1>3. PICK x \in T : \A y \in T : ~(<<y, x>> \in R)
  BY <1>1, WFMin
<1>4. ASSUME NEW k \in T
      PROVE  x <= k
  <2>1. x \in Nat /\ k \in Nat
    OBVIOUS
  <2>2. ~(k < x)
    BY <1>2, <1>3, <2>1
  <2> QED
    BY <2>1, <2>2
<1> QED
  BY <1>4

\* A set of numbers up to n has a greatest element.
LEMMA GreatestElement ==
  ASSUME NEW n \in Nat, NEW S \in SUBSET (1 .. n), S # {}
  PROVE  \E m \in S : \A k \in S : k <= m
<1> DEFINE T == {n - i : i \in S}
<1>1. T \in SUBSET Nat /\ T # {}
  <2>1. \A i \in S : n - i \in Nat
    OBVIOUS
  <2> QED
    BY <2>1
<1>2. PICK m \in T : \A k \in T : m <= k
  BY <1>1, LeastElement
<1>3. PICK i \in S : m = n - i
  OBVIOUS
<1>4. \A k \in S : n - i <= n - k
  BY <1>2, <1>3
<1> QED
  BY <1>4

\* A new record leaves those on file where they are.
LEMMA RecordsGrow ==
  ASSUME NEW p \in Policy, records \in Seq(Policy), records' = Append(records, p)
  PROVE  /\ records' \in Seq(Policy)
         /\ Len(records) \in Nat /\ Len(records') = Len(records) + 1
         /\ DOMAIN records = 1 .. Len(records) /\ DOMAIN records' = 1 .. Len(records) + 1
         /\ \A i \in DOMAIN records : records'[i] = records[i]
         /\ records'[Len(records) + 1] = p
  BY AppendProperties, LenProperties

\* What create_template hands to save_policy.
LEMMA Created ==
  ASSUME NEW t \in Offered, NEW n \in Nat
  PROVE  LET template == [t EXCEPT !.is_template = TRUE]
             policy == [template EXCEPT !.seen = n]
         IN  /\ policy \in Policy /\ policy.seen = n /\ policy.is_template = TRUE
             /\ policy.title = template.title
             /\ Texts(policy) = Texts(template)
<1>1. t = [f \in PolicyField |-> t[f]] /\ t.effective_date \in Int
  BY TemplatesAssumption
<1>2. \A f \in PolicyField : t[f] \in Value
  BY DEF Value, Offer
<1>3. TRUE \in Value /\ n \in Value
  <2>1. TRUE \in BOOLEAN
    OBVIOUS
  <2> QED
    BY <2>1, Zenon DEF Value
<1> DEFINE template == [t EXCEPT !.is_template = TRUE]
           policy == [template EXCEPT !.seen = n]
<1>4. policy = [f \in PolicyField |-> IF f = "seen" THEN n
                                      ELSE IF f = "is_template" THEN TRUE ELSE t[f]]
  BY <1>1 DEF PolicyField
<1>5. template = [f \in PolicyField |-> IF f = "is_template" THEN TRUE ELSE t[f]]
  BY <1>1 DEF PolicyField
<1> HIDE DEF template, policy
<1>6. policy \in [PolicyField -> Value]
  BY <1>2, <1>3, <1>4
<1>7. policy.effective_date \in Int /\ policy.seen = n /\ policy.is_template = TRUE
  BY <1>1, <1>4 DEF PolicyField
<1>8. policy.title = template.title /\ Texts(policy) = Texts(template)
  BY <1>4, <1>5 DEF PolicyField, Texts
<1> QED
  BY <1>6, <1>7, <1>8 DEF Policy, policy, template

\* get_policy returns a record of the id it is asked for.
LEMMA GetPolicyFinds ==
  ASSUME records \in Seq(Policy), NEW id, GetPolicy(id) # 0
  PROVE  GetPolicy(id) \in DOMAIN records
<1> DEFINE own == {i \in DOMAIN records : records[i].policy_id = id}
<1>1. own # {}
  BY DEF GetPolicy
<1>2. Len(records) \in Nat /\ own \in SUBSET (1 .. Len(records))
  BY LenProperties
<1>3. \E i \in own : \A j \in own : j <= i
  BY <1>1, <1>2, GreatestElement
<1>4. GetPolicy(id) = CHOOSE i \in own : \A j \in own : j <= i
  BY <1>1 DEF GetPolicy
<1>5. GetPolicy(id) \in own
  BY <1>3, <1>4
<1> QED
  BY <1>5

\* What customize_template hands to save_policy.
LEMMA Customized ==
  ASSUME NEW source \in Policy, NEW u \in Customizations, NEW new_id \in NewIds,
         NEW template_id \in Value, NEW n \in Nat
  PROVE  LET policy == Seen(Updated(Clone(source, template_id, new_id), u), n)
         IN  /\ policy \in Policy /\ policy.seen = n
             /\ "is_template" \notin DOMAIN u => policy.is_template = FALSE
<1> DEFINE clone == Clone(source, template_id, new_id)
           policy == Seen(Updated(clone, u), n)
<1>1. /\ source \in [PolicyField -> Value] /\ source.effective_date \in Int
      /\ DOMAIN u \subseteq PolicyField
      /\ "effective_date" \in DOMAIN u => u.effective_date \in Int
  BY TemplatesAssumption DEF Policy
<1>2. \A f \in DOMAIN u : u[f] \in Value
  BY DEF Value, Update
<1>3. new_id \in Value /\ n \in Value /\ "1.0.0" \in Value
  BY DEF Value
<1>4. FALSE \in Value
  <2>1. FALSE \in BOOLEAN
    OBVIOUS
  <2> QED
    BY <2>1, Zenon DEF Value
<1>5. clone = [f \in PolicyField |-> IF f = "policy_id" THEN new_id
                                     ELSE IF f = "is_template" THEN FALSE
                                     ELSE IF f = "template_id" THEN template_id
                                     ELSE IF f = "version" THEN "1.0.0" ELSE source[f]]
  BY <1>1 DEF PolicyField, Clone
<1>6. clone \in [PolicyField -> Value]
  <2> HIDE DEF clone
  <2> QED
    BY <1>1, <1>3, <1>4, <1>5
<1>7. clone.effective_date = source.effective_date /\ clone.is_template = FALSE
  <2> HIDE DEF clone
  <2> QED
    BY <1>5 DEF PolicyField
<1> HIDE DEF clone
<1>8. policy = [f \in PolicyField |-> IF f = "seen" THEN n
                                      ELSE IF f \in DOMAIN u THEN u[f] ELSE clone[f]]
  BY <1>6 DEF PolicyField, Updated, Seen
<1> HIDE DEF policy
<1>9. policy \in [PolicyField -> Value]
  BY <1>2, <1>3, <1>6, <1>8
<1>10. policy.effective_date \in Int /\ policy.seen = n
  BY <1>1, <1>7, <1>8 DEF PolicyField
<1>11. "is_template" \notin DOMAIN u => policy.is_template = FALSE
  BY <1>7, <1>8 DEF PolicyField
<1> QED
  BY <1>9, <1>10, <1>11 DEF Policy, policy, clone

-----------------------------------------------------------------------------

\* What a record appended by one call leaves of the others.
LEMMA OthersKeep ==
  ASSUME Types, NEW c \in Callers, NEW p \in Policy, records' = Append(records, p),
         calls'[c] = calls[c]
  PROVE  CallOK(c)'
<1>1. /\ Len(records) \in Nat /\ Len(records') = Len(records) + 1
      /\ \A q : OnFile(q) => OnFile(q)'
  BY RecordsGrow DEF Types, OnFile
<1>2. CallOK(c)
  BY DEF Types
<1> QED
  BY <1>1, <1>2 DEF CallOK

\* A call that has begun, and the calls it leaves alone.
LEMMA BegunKeeps ==
  ASSUME Types, NEW c \in Callers, NEW operation, NEW p,
         Begins(c, operation, p), UNCHANGED records,
         [p EXCEPT !.seen = Len(records)] \in Policy,
         [p EXCEPT !.seen = Len(records)].seen = Len(records),
         operation \in {"create", "customize"},
         operation = "create" => ~ForbiddenKeyword([p EXCEPT !.seen = Len(records)])
  PROVE  Types'
<1> DEFINE policy == [p EXCEPT !.seen = Len(records)]
<1>1. Len(records) \in Nat
  BY LenProperties DEF Types
<1>2. /\ calls'[c] = [at |-> "save", operation |-> operation, policy |-> policy]
      /\ DOMAIN calls' = Callers
      /\ \A d \in Callers : d # c => calls'[d] = calls[d]
  BY DEF Begins, Types
<1> HIDE DEF policy
<1>3. CallOK(c)'
  <2>1. policy \in Policy /\ policy.seen \in 0 .. Len(records)
    BY <1>1 DEF policy
  <2>2. operation = "create" => ~ForbiddenKeyword(policy)
    BY DEF policy
  <2> QED
    BY <1>2, <2>1, <2>2 DEF CallOK, Call
<1>4. ASSUME NEW d \in Callers, d # c
      PROVE  CallOK(d)'
  BY <1>2, <1>4 DEF Types, CallOK, OnFile
<1> QED
  BY <1>2, <1>3, <1>4 DEF Types

LEMMA CreateKeepsTypes ==
  ASSUME Types, NEW c \in Callers, NEW t \in Offered, CreateTemplate(c, t)
  PROVE  Types'
<1> DEFINE template == [t EXCEPT !.is_template = TRUE]
<1>1. Len(records) \in Nat
  BY LenProperties DEF Types
<1>2. /\ [template EXCEPT !.seen = Len(records)] \in Policy
      /\ [template EXCEPT !.seen = Len(records)].seen = Len(records)
      /\ Texts([template EXCEPT !.seen = Len(records)]) = Texts(template)
  BY <1>1, Created
<1>3. IsValid(template) /\ Begins(c, "create", template) /\ UNCHANGED records
  BY DEF CreateTemplate
<1> HIDE DEF template
<1>4. ~ForbiddenKeyword([template EXCEPT !.seen = Len(records)])
  BY <1>2, <1>3 DEF IsValid, ForbiddenKeyword
<1> QED
  BY <1>2, <1>3, <1>4, BegunKeeps

\* What customize_template copies is a record, found under an id on file.
LEMMA CustomizedSource ==
  ASSUME Types, NEW c \in Callers, NEW k \in DOMAIN records, NEW new_id, NEW u,
         CustomizeTemplate(c, records[k].policy_id, new_id, u)
  PROVE  records[GetPolicy(records[k].policy_id)] \in Policy /\ records[k].policy_id \in Value
<1> DEFINE template_id == records[k].policy_id
<1>1. \A i \in DOMAIN records : records[i] \in Policy
  BY ElementOfSeq, LenProperties DEF Types
<1>2. template_id \in Value
  <2>1. records[k] \in [PolicyField -> Value] /\ "policy_id" \in PolicyField
    BY <1>1 DEF Policy, PolicyField
  <2> QED
    BY <2>1
<1>3. GetPolicy(template_id) # 0
  BY DEF CustomizeTemplate
<1>4. records[GetPolicy(template_id)] \in Policy
  <2> HIDE DEF template_id
  <2> QED
    BY <1>1, <1>3, GetPolicyFinds DEF Types
<1> QED
  BY <1>2, <1>4

LEMMA CustomizeKeepsTypes ==
  ASSUME Types, NEW c \in Callers, NEW k \in DOMAIN records, NEW new_id \in NewIds,
         NEW u \in Customizations,
         CustomizeTemplate(c, records[k].policy_id, new_id, u)
  PROVE  Types'
<1> DEFINE template_id == records[k].policy_id
           source == records[GetPolicy(template_id)]
           updated == Updated(Clone(source, template_id, new_id), u)
<1>1. Len(records) \in Nat
  BY LenProperties DEF Types
<1>2. source \in Policy /\ template_id \in Value
  BY CustomizedSource
<1>3. Begins(c, "customize", updated) /\ UNCHANGED records
  BY DEF CustomizeTemplate, Updated, Clone
<1>5. /\ Seen(updated, Len(records)) \in Policy
      /\ Seen(updated, Len(records)).seen = Len(records)
  <2> HIDE DEF template_id, source
  <2> QED
    BY <1>1, <1>2, Customized
<1>6. /\ [updated EXCEPT !.seen = Len(records)] \in Policy
      /\ [updated EXCEPT !.seen = Len(records)].seen = Len(records)
  <2> HIDE DEF updated
  <2> QED
    BY <1>5 DEF Seen
<1> HIDE DEF updated
<1> QED
  BY <1>3, <1>6, BegunKeeps

LEMMA SaveKeepsTypes ==
  ASSUME Types, NEW c \in Callers, Save(c)
  PROVE  Types'
<1> DEFINE policy == calls[c].policy
<1>1. /\ calls[c] \in Call /\ policy \in Policy
      /\ calls[c].operation = "create" => ~ForbiddenKeyword(policy)
  BY DEF Save, Types, CallOK, Idle, Call
<1>2. DOMAIN calls' = Callers /\ \A d \in Callers : d # c => calls'[d] = calls[d]
  BY DEF Save, Types
<1>3. CASE records' = records /\ calls' = [calls EXCEPT ![c] = Idle]
  <2>1. UNCHANGED records /\ calls'[c] = Idle
    BY <1>3 DEF Types
  <2>2. \A d \in Callers : CallOK(d)'
    BY <1>2, <2>1 DEF Types, CallOK, OnFile
  <2> QED
    BY <1>2, <2>1, <2>2 DEF Types
<1>4. CASE /\ records' = Append(records, policy)
           /\ calls' = [calls EXCEPT ![c] = AfterSave(calls[c])]
  <2>1. records' = Append(records, policy) /\ calls'[c] = AfterSave(calls[c])
    BY <1>4 DEF Types
  <2>2. PICK p \in Policy : p = policy
    BY <1>1
  <2>3. records' \in Seq(Policy) /\ \E i \in DOMAIN records' : records'[i] = p
    BY <2>1, <2>2, RecordsGrow DEF Types
  <2>4. CallOK(c)'
    <3>1. CASE calls'[c] = Idle
      BY <3>1 DEF CallOK
    <3>2. CASE calls'[c] # Idle
      <4>1. ~ForbiddenKeyword(p) /\ calls'[c] = [calls[c] EXCEPT !.at = "integrate"]
        BY <1>1, <2>1, <2>2, <3>2 DEF AfterSave, Call
      <4>2. calls'[c] \in Call /\ calls'[c].at = "integrate" /\ calls'[c].policy = p
        BY <1>1, <2>2, <4>1 DEF Call
      <4> QED
        BY <2>3, <4>1, <4>2 DEF CallOK, OnFile, ForbiddenKeyword, Texts
    <3> QED
      BY <3>1, <3>2
  <2>5. ASSUME NEW d \in Callers, d # c
        PROVE  CallOK(d)'
    BY <1>2, <2>1, <2>2, <2>5, OthersKeep
  <2> QED
    BY <1>2, <2>3, <2>4, <2>5 DEF Types
<1> QED
  BY <1>3, <1>4 DEF Save

\* Every step keeps the types of the records and of the calls.
LEMMA NextKeepsTypes ==
  ASSUME Types, [TemplatesNext]_templateVars
  PROVE  Types'
<1>1. CASE TemplatesNext
  <2>1. ASSUME NEW c \in Callers, NEW t \in Offered, CreateTemplate(c, t)
        PROVE  Types'
    BY <2>1, CreateKeepsTypes
  <2>2. ASSUME NEW c \in Callers, NEW k \in DOMAIN records, NEW new_id \in NewIds,
               NEW u \in Customizations,
               CustomizeTemplate(c, records[k].policy_id, new_id, u)
        PROVE  Types'
    BY <2>2, CustomizeKeepsTypes
  <2>3. ASSUME NEW c \in Callers, Save(c)
        PROVE  Types'
    BY <2>3, SaveKeepsTypes
  <2>4. ASSUME NEW c \in Callers, Integrate(c)
        PROVE  Types'
    <3>1. calls' = [calls EXCEPT ![c] = Idle] /\ UNCHANGED records
      BY <2>4 DEF Integrate
    <3> QED
      BY <3>1 DEF Types, CallOK, OnFile
  <2>5. CASE Scan
    BY <2>5 DEF Scan, Types, CallOK, OnFile
  <2> QED
    BY <1>1, <2>1, <2>2, <2>3, <2>4, <2>5 DEF TemplatesNext
<1>2. CASE UNCHANGED templateVars
  BY <1>2 DEF templateVars, Types, CallOK, OnFile
<1> QED
  BY <1>1, <1>2

\* Whatever is offered and customized, the repository holds policies with
\* every field, and a call knows where it is.
THEOREM TypesHold == TemplatesSpec => []Types
<1>1. TemplatesInit => Types
  BY DEF TemplatesInit, Types, CallOK
<1>2. Types /\ [TemplatesNext]_templateVars => Types'
  BY NextKeepsTypes
<1> QED
  BY <1>1, <1>2, PTL DEF TemplatesSpec

-----------------------------------------------------------------------------

\* LiveUpdateEngine is told only of what is on file.
THEOREM LiveStored == TemplatesSpec => []LiveIsStored
<1>1. TemplatesInit => LiveIsStored
  BY DEF TemplatesInit, LiveIsStored
<1>2. Types /\ LiveIsStored /\ [TemplatesNext]_templateVars => LiveIsStored'
  <2> SUFFICES ASSUME Types, LiveIsStored, [TemplatesNext]_templateVars
               PROVE  LiveIsStored'
    OBVIOUS
  <2>1. CASE UNCHANGED <<records, live>>
    BY <2>1 DEF LiveIsStored, Texts
  <2>2. ASSUME NEW c \in Callers, Save(c)
        PROVE  LiveIsStored'
    <3>1. calls[c].policy \in Policy
      BY <2>2 DEF Save, Types, CallOK, Idle, Call
    <3>2. /\ records' = records \/ records' = Append(records, calls[c].policy)
          /\ live' = live
      BY <2>2 DEF Save
    <3>3. /\ DOMAIN records \subseteq DOMAIN records'
          /\ \A i \in DOMAIN records : records'[i] = records[i]
      BY <3>1, <3>2, RecordsGrow DEF Types
    <3> QED
      BY <3>2, <3>3 DEF LiveIsStored, Texts
  <2>3. ASSUME NEW c \in Callers, Integrate(c)
        PROVE  LiveIsStored'
    <3> DEFINE policy == calls[c].policy
    <3>1. OnFile(policy) /\ ~ForbiddenKeyword(policy)
      BY <2>3 DEF Integrate, Types, CallOK, Idle, Call
    <3>2. PICK k \in DOMAIN records : records[k] = policy
      BY <3>1 DEF OnFile
    <3>3. UNCHANGED records
      BY <2>3 DEF Integrate
    <3>4. CASE UNCHANGED live
      BY <3>3, <3>4 DEF LiveIsStored, Texts
    <3>5. CASE live' = [id \in DOMAIN live \cup {policy.policy_id} |->
                          IF id = policy.policy_id THEN policy.raw_source ELSE live[id]]
      BY <3>1, <3>2, <3>3, <3>5 DEF LiveIsStored, ForbiddenKeyword, Texts
    <3> QED
      BY <2>3, <3>4, <3>5 DEF Integrate
  <2> QED
    BY <2>1, <2>2, <2>3 DEF TemplatesNext, templateVars, CreateTemplate, CustomizeTemplate, Scan
<1> QED
  BY <1>1, <1>2, TypesHold, PTL DEF TemplatesSpec

-----------------------------------------------------------------------------

\* A template about to be saved differs in title from every template its check
\* has looked at, and a customized policy about to be saved is no template.
CallTitle(c) ==
    calls[c] # Idle /\ calls[c].at = "save" =>
        \/ /\ calls[c].operation = "create"
           /\ \A i \in Templates : i <= calls[c].policy.seen =>
                 records[i].title # calls[c].policy.title
        \/ /\ calls[c].operation = "customize"
           /\ calls[c].policy.is_template = FALSE

Titles == TitlesClashOnlyInOverlap /\ \A c \in Callers : CallTitle(c)

\* A call that begins with the records in view has compared all the titles.
LEMMA BegunKeepsTitles ==
  ASSUME Types, Titles, NEW c \in Callers, NEW operation, NEW p,
         Begins(c, operation, p), UNCHANGED records,
         Seen(p, Len(records)).seen = Len(records),
         \/ /\ operation = "create"
            /\ \A i \in Templates : records[i].title # Seen(p, Len(records)).title
         \/ /\ operation = "customize"
            /\ Seen(p, Len(records)).is_template = FALSE
  PROVE  Titles'
<1> DEFINE policy == Seen(p, Len(records))
<1>1. /\ calls'[c] = [at |-> "save", operation |-> operation, policy |-> policy]
      /\ \A d \in Callers : d # c => calls'[d] = calls[d]
  BY DEF Begins, Types, Seen
<1> HIDE DEF policy
<1>2. Templates' = Templates
  BY DEF Templates
<1>3. CallTitle(c)'
  BY <1>1, <1>2 DEF CallTitle, policy
<1>4. ASSUME NEW d \in Callers, d # c
      PROVE  CallTitle(d)'
  BY <1>1, <1>2, <1>4 DEF Titles, CallTitle
<1>5. TitlesClashOnlyInOverlap'
  BY <1>2 DEF Titles, TitlesClashOnlyInOverlap
<1> QED
  BY <1>3, <1>4, <1>5 DEF Titles

\* The templates on file after one more record is.
LEMMA TemplatesGrow ==
  ASSUME NEW p \in Policy, records \in Seq(Policy), records' = Append(records, p)
  PROVE  /\ Templates' \subseteq Templates \cup {Len(records) + 1}
         /\ p.is_template = FALSE => Templates' \subseteq Templates
         /\ Templates \subseteq 1 .. Len(records)
         /\ \A i \in Templates : records'[i] = records[i]
<1>1. /\ DOMAIN records = 1 .. Len(records) /\ DOMAIN records' = 1 .. Len(records) + 1
      /\ \A i \in DOMAIN records : records'[i] = records[i]
      /\ records'[Len(records) + 1] = p
      /\ Len(records) \in Nat
  BY RecordsGrow
<1>2. \A i \in 1 .. Len(records) + 1 : i \in 1 .. Len(records) \/ i = Len(records) + 1
  BY <1>1
<1> QED
  BY <1>1, <1>2 DEF Templates

LEMMA SaveKeepsTitles ==
  ASSUME Types, Titles, NEW c \in Callers, Save(c)
  PROVE  Titles'
<1> DEFINE policy == calls[c].policy
<1>1. /\ calls[c] \in Call /\ calls[c] # Idle /\ calls[c].at = "save"
      /\ policy.seen \in 0 .. Len(records) /\ Len(records) \in Nat
  BY LenProperties DEF Save, Types, CallOK, Idle, Call
<1>2. PICK p \in Policy : p = policy
  BY <1>1 DEF Call
<1>3. /\ calls'[c] = Idle \/ calls'[c].at = "integrate"
      /\ \A d \in Callers : d # c => calls'[d] = calls[d]
  BY <1>1 DEF Save, Types, AfterSave, Call
<1>4. CASE UNCHANGED records
  <2>1. Templates' = Templates
    BY <1>4 DEF Templates
  <2>2. \A d \in Callers : CallTitle(d)'
    BY <1>3, <1>4, <2>1 DEF Titles, CallTitle
  <2> QED
    BY <1>4, <2>1, <2>2 DEF Titles, TitlesClashOnlyInOverlap
<1>5. CASE records' = Append(records, p)
  <2> DEFINE n == Len(records)
  <2>1. /\ Templates' \subseteq Templates \cup {n + 1}
        /\ p.is_template = FALSE => Templates' \subseteq Templates
        /\ Templates \subseteq 1 .. n
        /\ \A i \in Templates : records'[i] = records[i]
    BY <1>5, TemplatesGrow DEF Types
  <2>2. records'[n + 1] = p
    BY <1>5, RecordsGrow DEF Types
  <2>3. CallTitle(c)
    BY DEF Titles
  <2>4. ASSUME NEW i \in Templates', NEW j \in Templates', i < j,
               records'[i].title = records'[j].title
        PROVE  records'[j].seen < i
    <3>1. CASE j \in Templates
      <4>1. i \in Templates
        BY <1>1, <2>1, <2>4, <3>1
      <4> QED
        BY <2>1, <2>4, <3>1, <4>1 DEF Titles, TitlesClashOnlyInOverlap
    <3>2. CASE j \notin Templates
      <4>1. j = n + 1 /\ i \in Templates
        <5>1. j = n + 1
          BY <2>1, <3>2
        <5>2. i # n + 1
          BY <1>1, <2>4, <5>1
        <5> QED
          BY <2>1, <5>1, <5>2
      <4>2. i \in Int /\ p.seen \in Int
        BY <1>1, <1>2, <2>1, <4>1
      <4>3. p.is_template # FALSE
        BY <2>1, <3>2
      <4>4. ~(i <= p.seen)
        BY <1>1, <1>2, <2>1, <2>2, <2>3, <2>4, <4>1, <4>3 DEF CallTitle, Call
      <4> QED
        BY <2>2, <4>1, <4>2, <4>4
    <3> QED
      BY <3>1, <3>2
  <2>5. ASSUME NEW d \in Callers, d # c
        PROVE  CallTitle(d)'
    <3>1. calls'[d] = calls[d] /\ CallTitle(d) /\ CallOK(d)
      BY <1>3, <2>5 DEF Titles, Types
    <3>2. CASE calls[d] = Idle \/ calls[d].at # "save"
      BY <3>1, <3>2 DEF CallTitle
    <3>3. CASE calls[d] # Idle /\ calls[d].at = "save"
      <4>1. calls[d].policy.seen \in 0 .. n
        BY <3>1, <3>3 DEF CallOK, Call
      <4>2. \A i \in Templates' : i <= calls[d].policy.seen => i \in Templates
        BY <1>1, <2>1, <4>1
      <4> QED
        BY <2>1, <3>1, <3>3, <4>2 DEF CallTitle
    <3> QED
      BY <3>2, <3>3
  <2>6. CallTitle(c)'
    BY <1>3 DEF CallTitle
  <2>7. TitlesClashOnlyInOverlap'
    BY <2>4 DEF TitlesClashOnlyInOverlap
  <2> QED
    BY <2>5, <2>6, <2>7 DEF Titles
<1> QED
  BY <1>2, <1>4, <1>5 DEF Save

\* As long as a customization does not make a policy a template, two templates
\* carry one title only when their calls overlapped.
THEOREM TitlesClash ==
  ASSUME \A u \in Customizations : "is_template" \notin DOMAIN u
  PROVE  TemplatesSpec => []TitlesClashOnlyInOverlap
<1>1. TemplatesInit => Titles
  BY DEF TemplatesInit, Titles, TitlesClashOnlyInOverlap, Templates, CallTitle
<1>2. Types /\ Titles /\ [TemplatesNext]_templateVars => Titles'
  <2> SUFFICES ASSUME Types, Titles, [TemplatesNext]_templateVars
               PROVE  Titles'
    OBVIOUS
  <2>1. Len(records) \in Nat
    BY LenProperties DEF Types
  <2>2. ASSUME NEW c \in Callers, NEW t \in Offered, CreateTemplate(c, t)
        PROVE  Titles'
    <3> DEFINE template == [t EXCEPT !.is_template = TRUE]
    <3>1. /\ Seen(template, Len(records)).seen = Len(records)
          /\ Seen(template, Len(records)).title = template.title
      BY <2>1, Created DEF Seen
    <3>2. /\ \A i \in Templates : ~CheckConflicts(template, records[i])
          /\ Begins(c, "create", template) /\ UNCHANGED records
      BY <2>2 DEF CreateTemplate
    <3> HIDE DEF template
    <3>3. \A i \in Templates : records[i].title # Seen(template, Len(records)).title
      BY <3>1, <3>2 DEF CheckConflicts
    <3> QED
      BY <3>1, <3>2, <3>3, BegunKeepsTitles
  <2>3. ASSUME NEW c \in Callers, NEW k \in DOMAIN records, NEW new_id \in NewIds,
               NEW u \in Customizations,
               CustomizeTemplate(c, records[k].policy_id, new_id, u)
        PROVE  Titles'
    <3> DEFINE template_id == records[k].policy_id
               source == records[GetPolicy(template_id)]
               updated == Updated(Clone(source, template_id, new_id), u)
    <3>1. source \in Policy /\ template_id \in Value
      BY <2>3, CustomizedSource
    <3>2. Begins(c, "customize", updated) /\ UNCHANGED records
      BY <2>3 DEF CustomizeTemplate, Updated, Clone
    <3> HIDE DEF template_id, source
    <3>3. /\ Seen(updated, Len(records)).seen = Len(records)
          /\ Seen(updated, Len(records)).is_template = FALSE
      BY <2>1, <3>1, Customized
    <3> HIDE DEF updated
    <3> QED
      BY <3>2, <3>3, BegunKeepsTitles
  <2>4. ASSUME NEW c \in Callers, Save(c)
        PROVE  Titles'
    BY <2>4, SaveKeepsTitles
  <2>5. ASSUME UNCHANGED records,
               \A d \in Callers : calls'[d] = calls[d] \/ calls'[d] = Idle
        PROVE  Titles'
    <3>1. Templates' = Templates
      BY <2>5 DEF Templates
    <3>2. \A d \in Callers : CallTitle(d)'
      BY <2>5, <3>1 DEF Titles, CallTitle
    <3> QED
      BY <2>5, <3>1, <3>2 DEF Titles, TitlesClashOnlyInOverlap
  <2>6. ASSUME NEW c \in Callers, Integrate(c)
        PROVE  Titles'
    BY <2>5, <2>6 DEF Integrate, Types
  <2>7. CASE Scan \/ UNCHANGED templateVars
    BY <2>5, <2>7 DEF Scan, templateVars
  <2> QED
    BY <2>2, <2>3, <2>4, <2>6, <2>7 DEF TemplatesNext
<1> QED
  BY <1>1, <1>2, TypesHold, PTL DEF TemplatesSpec, Titles
-----------------------------------------------------------------------------

\* The lists of conditions that are offered or customized.
ConditionLists ==
    {t.conditions : t \in Offered}
      \cup {u.conditions : u \in {u \in Customizations : "conditions" \in DOMAIN u}}

\* Every condition has a number, of which it is the one way to write it.
NumericConditions ==
    LET conditions == UNION {ToSet(list) : list \in ConditionLists}
    IN  \A c, d \in conditions :
           /\ c.value.number \in 0 .. Infinity - 1
           /\ c.value.number = d.value.number => c.value = d.value

CallConditions(c) == calls[c] # Idle => calls[c].policy.conditions \in ConditionLists

ConditionsKept ==
    /\ \A i \in DOMAIN records : records[i].conditions \in ConditionLists
    /\ \A c \in Callers : CallConditions(c)

LEMMA InfinityIsPositive == Infinity \in Int /\ 0 < Infinity
  BY SMT DEF Infinity

\* Two numeric conditions contradict each other for the detector exactly when
\* no value meets both, or when it mistakes them for disjoint.
LEMMA ContradictionIsUnsatisfiable ==
  ASSUME NEW c, NEW d, c.value.number \in 0 .. Infinity - 1, d.value.number \in 0 .. Infinity - 1,
         c.value.number = d.value.number <=> c.value = d.value
  PROVE  ConditionsContradict(c, d) <=> Unsatisfiable(c, d) \/ MistakenForDisjoint(c, d)
<1> DEFINE a == c.value.number
           b == d.value.number
           o == c.operator
           p == d.operator
           low == 2 * Lower(a, b) - 1
           high == 2 * Higher(a, b) + 1
           Both(v) == Satisfies(v, c) /\ Satisfies(v, d)
           mistaken == (o = "<" /\ p = "==" /\ b < a) \/ (o = "==" /\ p = "<" /\ a < b)
<1>0. Infinity \in Int /\ 0 < Infinity
  BY InfinityIsPositive
<1>1. /\ a \in Int /\ b \in Int /\ 0 <= a /\ a < Infinity /\ 0 <= b /\ b < Infinity
      /\ IsNumeric(c.value) /\ IsNumeric(d.value)
  BY <1>0 DEF IsNumeric, NotANumber
<1>2. ConditionsContradict(c, d) <=>
         \/ o = "==" /\ p = "==" /\ a # b
         \/ ((o = "==" /\ p = "!=") \/ (o = "!=" /\ p = "==")) /\ a = b
         \/ ~IntersectionExists(c, d)
  <2>1. {o, p} = {"=="} <=> o = "==" /\ p = "=="
    OBVIOUS
  <2>2. {o, p} = {"==", "!="} <=> (o = "==" /\ p = "!=") \/ (o = "!=" /\ p = "==")
    OBVIOUS
  <2> QED
    BY <1>1, <2>1, <2>2 DEF ConditionsContradict
<1>3. \A v \in Int : Satisfies(v, c) <=>
         CASE o = ">" -> v > 2 * a [] o = ">=" -> v >= 2 * a
           [] o = "<" -> v < 2 * a [] o = "<=" -> v <= 2 * a
           [] o = "==" -> v = 2 * a [] o = "!=" -> v # 2 * a
           [] OTHER -> TRUE
  BY DEF Satisfies
<1>4. \A v \in Int : Satisfies(v, d) <=>
         CASE p = ">" -> v > 2 * b [] p = ">=" -> v >= 2 * b
           [] p = "<" -> v < 2 * b [] p = "<=" -> v <= 2 * b
           [] p = "==" -> v = 2 * b [] p = "!=" -> v # 2 * b
           [] OTHER -> TRUE
  BY DEF Satisfies
<1> DEFINE lowC == IF o \in {">", ">=", "=="} THEN a ELSE -Infinity
           lowD == IF p \in {">", ">=", "=="} THEN b ELSE -Infinity
           highC == IF o \in {"<", "<=", "=="} THEN a ELSE Infinity
           highD == IF p \in {"<", "<=", "=="} THEN b ELSE Infinity
           bottom == IF lowC >= lowD THEN lowC ELSE lowD
           top == IF highC <= highD THEN highC ELSE highD
           closedC == IF bottom = lowC THEN o # ">" ELSE o # "<"
           closedD == IF bottom = lowD THEN p # ">" ELSE p # "<"
<1>5. IntersectionExists(c, d) <=> bottom < top \/ (bottom = top /\ closedC /\ closedD)
  BY DEF IntersectionExists, NumericBounds, Higher, Lower
<1>6. Unsatisfiable(c, d) <=> \A v \in low .. high : ~Both(v)
  BY DEF Unsatisfiable
<1>7. \A v \in {2 * a - 1, 2 * a, 2 * a + 1, 2 * b - 1, 2 * b, 2 * b + 1} :
         v \in Int /\ v \in low .. high
  BY <1>1 DEF Lower, Higher
<1>8. low \in Int /\ high \in Int /\ -1 <= low /\ high < 2 * Infinity
  BY <1>0, <1>1 DEF Lower, Higher
<1>9. MistakenForDisjoint(c, d) <=> mistaken
  <2>1. {o, p} = {"<", "=="} <=> (o = "<" /\ p = "==") \/ (o = "==" /\ p = "<")
    OBVIOUS
  <2> QED
    BY <2>1 DEF MistakenForDisjoint
<1> HIDE DEF a, b, o, p, low, high
<1>10. ASSUME mistaken
       PROVE  ConditionsContradict(c, d)
  BY <1>0, <1>1, <1>2, <1>5, <1>10
<1>11. ASSUME ConditionsContradict(c, d), ~mistaken, NEW v \in low .. high, Both(v)
       PROVE  FALSE
  <2>1. v \in Int /\ -1 <= v /\ v < 2 * Infinity
    BY <1>0, <1>8
  <2>2. CASE o = "==" /\ p = "==" /\ a # b
    BY <1>1, <1>3, <1>4, <1>11, <2>1, <2>2
  <2>3. CASE ((o = "==" /\ p = "!=") \/ (o = "!=" /\ p = "==")) /\ a = b
    BY <1>1, <1>3, <1>4, <1>11, <2>1, <2>3
  <2>4. CASE ~IntersectionExists(c, d)
    <3>1. ~(bottom < top) /\ ~(bottom = top /\ closedC /\ closedD)
      BY <1>5, <2>4
    <3>2. /\ lowC \in Int /\ lowD \in Int /\ highC \in Int /\ highD \in Int
          /\ bottom \in {lowC, lowD} /\ lowC <= bottom /\ lowD <= bottom
          /\ top \in {highC, highD} /\ top <= highC /\ top <= highD
      BY <1>0, <1>1
    <3>3. /\ 2 * lowC <= v /\ (o = ">" => 2 * lowC < v)
          /\ v <= 2 * highC /\ (o = "<" => v < 2 * highC)
      BY <1>0, <1>1, <1>3, <1>11, <2>1
    <3>4. /\ 2 * lowD <= v /\ (p = ">" => 2 * lowD < v)
          /\ v <= 2 * highD /\ (p = "<" => v < 2 * highD)
      BY <1>0, <1>1, <1>4, <1>11, <2>1
    <3>5. bottom = top /\ v = 2 * bottom
      BY <2>1, <3>1, <3>2, <3>3, <3>4
    <3>6. CASE ~closedC
      BY <1>0, <1>1, <1>11, <2>1, <3>2, <3>3, <3>4, <3>5, <3>6
    <3>7. CASE ~closedD
      BY <1>0, <1>1, <1>11, <2>1, <3>2, <3>3, <3>4, <3>5, <3>7
    <3> QED
      BY <3>1, <3>5, <3>6, <3>7
  <2> QED
    BY <1>2, <1>11, <2>2, <2>3, <2>4
<1>12. ASSUME ~ConditionsContradict(c, d)
       PROVE  \E v \in {2 * a - 1, 2 * a, 2 * a + 1, 2 * b - 1, 2 * b, 2 * b + 1} : Both(v)
  BY <1>0, <1>1, <1>2, <1>3, <1>4, <1>5, <1>7, <1>12, SMTT(60)
<1> QED
  BY <1>6, <1>7, <1>9, <1>10, <1>11, <1>12
\* Two policies contradict each other in either order, and exactly when two of
\* their conditions on one parameter have no value in common or are mistaken.
LEMMA PoliciesContradictWhen ==
  ASSUME NumericConditions, NEW p, NEW q,
         p.conditions \in ConditionLists, q.conditions \in ConditionLists
  PROVE  /\ PoliciesContradict(p, q) <=>
              \E pair \in SharedConditions(p, q) :
                 Unsatisfiable(pair[1], pair[2]) \/ MistakenForDisjoint(pair[1], pair[2])
         /\ PoliciesContradict(p, q) <=> PoliciesContradict(q, p)
<1>1. ASSUME NEW c \in ToSet(p.conditions), NEW d \in ToSet(q.conditions)
      PROVE  /\ ConditionsContradict(c, d) <=> Unsatisfiable(c, d) \/ MistakenForDisjoint(c, d)
             /\ ConditionsContradict(c, d) <=> ConditionsContradict(d, c)
  <2>1. /\ c.value.number \in 0 .. Infinity - 1 /\ d.value.number \in 0 .. Infinity - 1
        /\ c.value.number = d.value.number <=> c.value = d.value
    BY DEF NumericConditions
  <2>2. ConditionsContradict(c, d) <=> Unsatisfiable(c, d) \/ MistakenForDisjoint(c, d)
    BY <2>1, ContradictionIsUnsatisfiable
  <2>3. ConditionsContradict(d, c) <=> Unsatisfiable(d, c) \/ MistakenForDisjoint(d, c)
    BY <2>1, ContradictionIsUnsatisfiable
  <2>4. Unsatisfiable(c, d) <=> Unsatisfiable(d, c)
    <3>1. c.value.number \in Int /\ d.value.number \in Int
      BY <2>1, InfinityIsPositive
    <3>2. /\ Lower(c.value.number, d.value.number) = Lower(d.value.number, c.value.number)
          /\ Higher(c.value.number, d.value.number) = Higher(d.value.number, c.value.number)
      BY <3>1 DEF Lower, Higher
    <3> QED
      BY <3>2 DEF Unsatisfiable
  <2>5. MistakenForDisjoint(c, d) <=> MistakenForDisjoint(d, c)
    <3>1. {c.operator, d.operator} = {"<", "=="} <=> {d.operator, c.operator} = {"<", "=="}
      OBVIOUS
    <3>2. {c.operator, d.operator} = {"<", "=="} =>
             (c.operator = "==" <=> d.operator # "==")
      OBVIOUS
    <3> QED
      BY <3>1, <3>2 DEF MistakenForDisjoint
  <2> QED
    BY <2>2, <2>3, <2>4, <2>5
<1>2. \A pair \in SharedConditions(p, q) :
         /\ pair[1] \in ToSet(p.conditions) /\ pair[2] \in ToSet(q.conditions)
         /\ pair[1].parameter = pair[2].parameter
         /\ <<pair[2], pair[1]>> \in SharedConditions(q, p)
  BY DEF SharedConditions
<1>3. \A pair \in SharedConditions(q, p) :
         /\ pair[1] \in ToSet(q.conditions) /\ pair[2] \in ToSet(p.conditions)
         /\ pair[1].parameter = pair[2].parameter
         /\ <<pair[2], pair[1]>> \in SharedConditions(p, q)
  BY DEF SharedConditions
<1>4. PoliciesContradict(p, q) <=>
         \E pair \in SharedConditions(p, q) :
            Unsatisfiable(pair[1], pair[2]) \/ MistakenForDisjoint(pair[1], pair[2])
  BY <1>1, <1>2 DEF PoliciesContradict
<1>5. ASSUME PoliciesContradict(p, q)
      PROVE  PoliciesContradict(q, p)
  <2>1. PICK pair \in SharedConditions(p, q) : ConditionsContradict(pair[1], pair[2])
    BY <1>5 DEF PoliciesContradict
  <2>2. ConditionsContradict(pair[2], pair[1])
    BY <1>1, <1>2, <2>1
  <2> DEFINE swapped == <<pair[2], pair[1]>>
  <2>3. swapped \in SharedConditions(q, p) /\ ConditionsContradict(swapped[1], swapped[2])
    BY <1>2, <2>2
  <2> QED
    BY <2>3 DEF PoliciesContradict
<1>6. ASSUME PoliciesContradict(q, p)
      PROVE  PoliciesContradict(p, q)
  <2>1. PICK pair \in SharedConditions(q, p) : ConditionsContradict(pair[1], pair[2])
    BY <1>6 DEF PoliciesContradict
  <2>2. ConditionsContradict(pair[2], pair[1])
    BY <1>1, <1>3, <2>1
  <2> DEFINE swapped == <<pair[2], pair[1]>>
  <2>3. swapped \in SharedConditions(p, q) /\ ConditionsContradict(swapped[1], swapped[2])
    BY <1>3, <2>2
  <2> QED
    BY <2>3 DEF PoliciesContradict
<1> QED
  BY <1>4, <1>5, <1>6

\* One record is in force for every policy id, and finitely many are.
LEMMA LatestIsOne ==
  ASSUME records \in Seq(Policy)
  PROVE  /\ \A p, q \in LatestByPolicyId(records) : p.policy_id = q.policy_id => p = q
         /\ \A p \in LatestByPolicyId(records) : \E i \in DOMAIN records : p = records[i]
         /\ IsFiniteSet(LatestByPolicyId(records))
<1> DEFINE InForce(i) ==
              \A j \in DOMAIN records :
                 records[j].policy_id = records[i].policy_id =>
                    \/ records[j].effective_date < records[i].effective_date
                    \/ records[j].effective_date = records[i].effective_date /\ j <= i
           I == {i \in DOMAIN records : InForce(i)}
<1>1. LatestByPolicyId(records) = {records[i] : i \in I}
  BY DEF LatestByPolicyId
<1>2. /\ Len(records) \in Nat /\ DOMAIN records = 1 .. Len(records)
      /\ \A i \in DOMAIN records : records[i].effective_date \in Int
  BY LenProperties, ElementOfSeq DEF Policy
<1>3. \A i, j \in I : records[i].policy_id = records[j].policy_id => i = j
  <2> SUFFICES ASSUME NEW i \in I, NEW j \in I, records[i].policy_id = records[j].policy_id
               PROVE  i = j
    OBVIOUS
  <2>1. InForce(i) /\ InForce(j)
    OBVIOUS
  <2> QED
    BY <1>2, <2>1
<1>4. IsFiniteSet(I)
  <2>1. IsFiniteSet(1 .. Len(records))
    BY <1>2, FS_Interval
  <2> QED
    BY <1>2, <2>1, FS_Subset
<1> HIDE DEF I
<1>5. IsFiniteSet({records[i] : i \in I})
  <2> DEFINE f == [i \in I |-> records[i]]
  <2>1. f \in Surjection(I, {records[i] : i \in I})
    BY DEF Surjection
  <2> QED
    BY <1>4, <2>1, FS_Surjection
<1> QED
  BY <1>1, <1>3, <1>5 DEF I

LEMMA ConflictsAreFinite ==
  ASSUME NEW policies, IsFiniteSet(policies)
  PROVE  IsFiniteSet(Conflicts(policies))
<1> DEFINE P == {pair \in policies \X policies :
                   /\ pair[1].policy_id # pair[2].policy_id
                   /\ PoliciesContradict(pair[1], pair[2]) \/ PoliciesOverlap(pair[1], pair[2])}
           f == [pair \in P |-> ConflictOf(pair[1], pair[2])]
<1>1. IsFiniteSet(P)
  BY FS_Product, FS_Subset
<1> HIDE DEF P
<1>2. f \in Surjection(P, {ConflictOf(pair[1], pair[2]) : pair \in P})
  BY DEF Surjection
<1>3. IsFiniteSet({ConflictOf(pair[1], pair[2]) : pair \in P})
  BY <1>1, <1>2, FS_Surjection
<1> QED
  BY <1>3 DEF P, Conflicts

\* A scan returns every conflict, and nothing else.
LEMMA ScanCovers ==
  ASSUME NEW S, IsFiniteSet(S), NEW s \in SetToSeqs(S)
  PROVE  \A e : e \in S <=> \E i \in DOMAIN s : s[i] = e
<1> DEFINE n == Cardinality(S)
<1>1. n \in Nat /\ s \in [1 .. n -> S] /\ \A i, j \in 1 .. n : i # j => s[i] # s[j]
  BY FS_CardinalityType DEF SetToSeqs
<1>2. s \in Injection(1 .. n, S)
  BY <1>1 DEF Injection, IsInjective
<1>3. Cardinality(1 .. n) = n
  BY <1>1, FS_Interval
<1>4. s \in Surjection(1 .. n, S)
  BY <1>2, <1>3, FS_Injection
<1> QED
  BY <1>1, <1>4 DEF Surjection

\* Every finite set can be listed with the severities in order.
LEMMA OrderExists ==
  ASSUME NEW S, IsFiniteSet(S), \A e \in S : e.severity \in 0 .. 3
  PROVE  \E s \in SetToSeqs(S) : \A i, j \in DOMAIN s : i < j => s[i].severity <= s[j].severity
<1> DEFINE InOrder(s) == \A i, j \in DOMAIN s : i < j => s[i].severity <= s[j].severity
           Listed(X) == \E s \in SetToSeqs(X) : InOrder(s)
           T == {n \in Nat : \E X \in SUBSET S : Cardinality(X) = n /\ ~Listed(X)}
<1>1. SUFFICES ASSUME T # {}
               PROVE  FALSE
  <2>1. Cardinality(S) \in Nat /\ S \in SUBSET S
    BY FS_CardinalityType
  <2>2. Listed(S)
    BY <1>1, <2>1
  <2> QED
    BY <2>2
<1>2. T \in SUBSET Nat
  OBVIOUS
<1>3. \E m \in T : \A k \in T : m <= k
  BY <1>1, <1>2, LeastElement, Zenon
<1>4. PICK m \in T : \A k \in T : m <= k
  BY <1>3
<1>5. PICK X \in SUBSET S : Cardinality(X) = m /\ ~Listed(X)
  OBVIOUS
<1>6. IsFiniteSet(X) /\ m \in Nat
  BY <1>5, FS_Subset
<1>7. CASE X = {}
  <2> DEFINE s == [i \in 1 .. 0 |-> i]
  <2>1. m = 0
    BY <1>5, <1>7, FS_EmptySet
  <2>2. s \in SetToSeqs(X) /\ InOrder(s)
    BY <1>5, <2>1 DEF SetToSeqs
  <2> HIDE DEF s
  <2> QED
    BY <1>5, <2>2
<1>8. CASE X # {}
  <2> DEFINE V == {e.severity + 1 : e \in X}
  <2>1. V \in SUBSET (1 .. 4) /\ V # {}
    BY <1>8
  <2> HIDE DEF V
  <2>2. PICK v \in V : \A k \in V : k <= v
    BY <2>1, GreatestElement
  <2>3. PICK x \in X : v = x.severity + 1
    BY DEF V
  <2>4. ASSUME NEW e \in X
        PROVE  e.severity <= x.severity
    <3>1. e.severity \in Int /\ x.severity \in Int
      OBVIOUS
    <3>2. e.severity + 1 \in V
      BY DEF V
    <3>3. e.severity + 1 <= x.severity + 1
      BY <2>2, <2>3, <3>2
    <3> QED
      BY <3>1, <3>3
  <2> DEFINE Y == X \ {x}
  <2>5. Cardinality(Y) = m - 1 /\ m - 1 \in Nat
    <3>1. IsFiniteSet(Y) /\ Cardinality(Y) = m - 1
      BY <1>5, <1>6, FS_RemoveElement
    <3> QED
      BY <3>1, FS_CardinalityType
  <2>6. m - 1 \notin T
    BY <1>4, <1>6
  <2>7. Listed(Y)
    BY <2>5, <2>6
  <2>8. PICK s \in SetToSeqs(Y) : InOrder(s)
    BY <2>7
  <2>9. s \in [1 .. m - 1 -> Y] /\ \A i, j \in 1 .. m - 1 : i # j => s[i] # s[j]
    BY <2>5, <2>8 DEF SetToSeqs
  <2> DEFINE longer == [i \in 1 .. m |-> IF i = m THEN x ELSE s[i]]
  <2>10. /\ DOMAIN longer = 1 .. m /\ longer[m] = x
         /\ \A i \in 1 .. m - 1 : longer[i] = s[i] /\ s[i] \in Y
         /\ \A i \in 1 .. m : i \in 1 .. m - 1 \/ i = m
    BY <1>6, <2>5, <2>9
  <2> HIDE DEF longer
  <2>11. longer \in SetToSeqs(X)
    <3>1. longer \in [1 .. m -> X]
      <4>1. longer = [i \in 1 .. m |-> longer[i]]
        BY DEF longer
      <4>2. \A i \in 1 .. m : longer[i] \in X
        BY <2>10
      <4> QED
        BY <4>1, <4>2
    <3>2. \A i, j \in 1 .. m : i # j => longer[i] # longer[j]
      BY <2>9, <2>10
    <3> QED
      BY <1>5, <3>1, <3>2 DEF SetToSeqs
  <2>12. InOrder(longer)
    <3> SUFFICES ASSUME NEW i \in 1 .. m, NEW j \in 1 .. m, i < j
                 PROVE  longer[i].severity <= longer[j].severity
      BY <2>10
    <3>1. i \in 1 .. m - 1 /\ longer[i] = s[i] /\ s[i] \in X
      BY <1>6, <2>10
    <3>2. CASE j = m
      BY <2>4, <2>10, <3>1, <3>2
    <3>3. CASE j \in 1 .. m - 1
      BY <2>8, <2>9, <2>10, <3>1, <3>3
    <3> QED
      BY <2>10, <3>2, <3>3
  <2> QED
    BY <1>5, <2>11, <2>12
<1> QED
  BY <1>7, <1>8

\* A scan always has an order in which to return what it has found.
THEOREM ScansExist ==
  ASSUME records \in Seq(Policy)
  PROVE  Scans(records) # {}
<1> DEFINE S == Conflicts(LatestByPolicyId(records))
<1>1. IsFiniteSet(S)
  BY LatestIsOne, ConflictsAreFinite
<1>2. \A e \in S : e.severity \in 0 .. 3
  <2>1. \A p, q : Severity(p, q) \in 0 .. 3
    BY DEF Severity
  <2> QED
    BY <2>1 DEF Conflicts, ConflictOf
<1>3. \E s \in SetToSeqs(S) : \A i, j \in DOMAIN s : i < j => s[i].severity <= s[j].severity
  <2> HIDE DEF S
  <2> QED
    BY <1>1, <1>2, OrderExists
<1> QED
  BY <1>3 DEF Scans

\* What a scan of the records in force reports as contradictory.
LEMMA ContradictionsReported ==
  ASSUME Types, ConditionsKept, NumericConditions, NEW scan \in Scans(records),
         NEW p \in LatestByPolicyId(records), NEW q \in LatestByPolicyId(records),
         p.policy_id # q.policy_id
  PROVE  {p.policy_id, q.policy_id} \in Contradictory(scan) <=> PoliciesContradict(p, q)
<1> DEFINE L == LatestByPolicyId(records)
<1>1. /\ \A x, y \in L : x.policy_id = y.policy_id => x = y
      /\ \A x \in L : x.conditions \in ConditionLists
      /\ IsFiniteSet(L)
  BY LatestIsOne DEF Types, ConditionsKept
<1>2. \A e : e \in Conflicts(L) <=> \E i \in DOMAIN scan : scan[i] = e
  BY <1>1, ConflictsAreFinite, ScanCovers DEF Scans
<1> HIDE DEF L
<1>3. ASSUME PoliciesContradict(p, q)
      PROVE  {p.policy_id, q.policy_id} \in Contradictory(scan)
  <2> DEFINE pair == <<p, q>>
             e == ConflictOf(p, q)
  <2>1. pair \in L \X L /\ pair[1] = p /\ pair[2] = q
    BY DEF L
  <2> HIDE DEF pair
  <2>2. e \in Conflicts(L)
    BY <1>3, <2>1 DEF Conflicts
  <2>3. e.type = "contradictory" /\ e.policy_ids = {p.policy_id, q.policy_id}
    BY <1>3 DEF ConflictOf
  <2> HIDE DEF e
  <2> QED
    BY <1>2, <2>2, <2>3 DEF Contradictory
<1>4. ASSUME {p.policy_id, q.policy_id} \in Contradictory(scan)
      PROVE  PoliciesContradict(p, q)
  <2>1. PICK i \in DOMAIN scan : scan[i].type = "contradictory"
                                 /\ scan[i].policy_ids = {p.policy_id, q.policy_id}
    BY <1>4 DEF Contradictory
  <2>2. scan[i] \in Conflicts(L)
    BY <1>2
  <2>3. PICK pair \in L \X L : scan[i] = ConflictOf(pair[1], pair[2])
    BY <2>2 DEF Conflicts
  <2> DEFINE x == pair[1]
             y == pair[2]
  <2>4. x \in L /\ y \in L
    OBVIOUS
  <2>5. PoliciesContradict(x, y) /\ {x.policy_id, y.policy_id} = {p.policy_id, q.policy_id}
    BY <2>1, <2>3 DEF ConflictOf
  <2> HIDE DEF x, y
  <2>6. (x.policy_id = p.policy_id /\ y.policy_id = q.policy_id)
          \/ (x.policy_id = q.policy_id /\ y.policy_id = p.policy_id)
    BY <2>5
  <2>7. (x = p /\ y = q) \/ (x = q /\ y = p)
    BY <1>1, <2>4, <2>6 DEF L
  <2>8. p \in L /\ q \in L
    BY DEF L
  <2> QED
    BY <1>1, <2>5, <2>7, <2>8, PoliciesContradictWhen
<1> QED
  BY <1>3, <1>4

-----------------------------------------------------------------------------

LEMMA NextKeepsConditions ==
  ASSUME Types, ConditionsKept, [TemplatesNext]_templateVars
  PROVE  ConditionsKept'
<1>1. Len(records) \in Nat
  BY LenProperties DEF Types
<1>2. ASSUME NEW c \in Callers, NEW operation, NEW p, Begins(c, operation, p), UNCHANGED records,
             p.conditions \in ConditionLists, "conditions" \in DOMAIN p
      PROVE  ConditionsKept'
  <2>1. /\ calls'[c].policy.conditions = p.conditions
        /\ \A d \in Callers : d # c => calls'[d] = calls[d]
    BY <1>2 DEF Begins, Types
  <2> QED
    BY <1>2, <2>1 DEF ConditionsKept, CallConditions
<1>3. ASSUME NEW c \in Callers, NEW t \in Offered, CreateTemplate(c, t)
      PROVE  ConditionsKept'
  <2> DEFINE template == [t EXCEPT !.is_template = TRUE]
  <2>1. t = [f \in PolicyField |-> t[f]] /\ "conditions" \in PolicyField
    BY TemplatesAssumption DEF PolicyField
  <2>2. template.conditions = t.conditions /\ "conditions" \in DOMAIN template
    BY <2>1
  <2>3. Begins(c, "create", template) /\ UNCHANGED records
    BY <1>3 DEF CreateTemplate
  <2> HIDE DEF template
  <2> QED
    BY <1>2, <2>2, <2>3 DEF ConditionLists
<1>4. ASSUME NEW c \in Callers, NEW k \in DOMAIN records, NEW new_id \in NewIds,
             NEW u \in Customizations,
             CustomizeTemplate(c, records[k].policy_id, new_id, u)
      PROVE  ConditionsKept'
  <2> DEFINE template_id == records[k].policy_id
             source == records[GetPolicy(template_id)]
             updated == Updated(Clone(source, template_id, new_id), u)
  <2>1. source \in Policy /\ source.conditions \in ConditionLists
    <3>1. GetPolicy(template_id) # 0
      BY <1>4 DEF CustomizeTemplate
    <3> HIDE DEF template_id
    <3>2. GetPolicy(template_id) \in DOMAIN records
      BY <3>1, GetPolicyFinds DEF Types
    <3> QED
      BY <3>2, ElementOfSeq, LenProperties DEF Types, ConditionsKept
  <2>2. Begins(c, "customize", updated) /\ UNCHANGED records
    BY <1>4 DEF CustomizeTemplate, Updated, Clone
  <2> HIDE DEF source, template_id
  <2>3. DOMAIN source = PolicyField /\ "conditions" \in PolicyField
    BY <2>1 DEF Policy, PolicyField
  <2>4. /\ "conditions" \in DOMAIN updated
        /\ updated.conditions = IF "conditions" \in DOMAIN u THEN u.conditions
                                                            ELSE source.conditions
    BY <2>3 DEF Updated, Clone
  <2>5. updated.conditions \in ConditionLists
    BY <2>1, <2>4 DEF ConditionLists
  <2> HIDE DEF updated
  <2> QED
    BY <1>2, <2>2, <2>4, <2>5
<1>5. ASSUME NEW c \in Callers, Save(c)
      PROVE  ConditionsKept'
  <2>1. calls[c] # Idle /\ calls[c] \in Call
    BY <1>5 DEF Save, Types, CallOK, Idle
  <2>2. PICK p \in Policy : p = calls[c].policy
    BY <2>1 DEF Call
  <2>3. p.conditions \in ConditionLists
    BY <2>1, <2>2 DEF ConditionsKept, CallConditions
  <2>4. \A d \in Callers : calls'[d] = calls[d] \/ calls'[d] = Idle
                             \/ calls'[d].policy.conditions = p.conditions
    BY <1>5, <2>1, <2>2 DEF Save, Types, AfterSave, Call
  <2>5. \A d \in Callers : CallConditions(d)'
    BY <2>3, <2>4 DEF ConditionsKept, CallConditions
  <2>6. UNCHANGED records \/ records' = Append(records, p)
    BY <1>5, <2>2 DEF Save
  <2>7. \A i \in DOMAIN records' : records'[i].conditions \in ConditionLists
    <3>1. CASE UNCHANGED records
      BY <3>1 DEF ConditionsKept
    <3>2. CASE records' = Append(records, p)
      BY <1>1, <2>3, <3>2, RecordsGrow DEF Types, ConditionsKept
    <3> QED
      BY <2>6, <3>1, <3>2
  <2> QED
    BY <2>5, <2>7 DEF ConditionsKept
<1>6. ASSUME UNCHANGED records,
             \A d \in Callers : calls'[d] = calls[d] \/ calls'[d] = Idle
      PROVE  ConditionsKept'
  BY <1>6 DEF ConditionsKept, CallConditions
<1>7. ASSUME NEW c \in Callers, Integrate(c)
      PROVE  ConditionsKept'
  BY <1>6, <1>7 DEF Integrate, Types
<1>8. CASE Scan \/ UNCHANGED templateVars
  BY <1>6, <1>8 DEF Scan, templateVars
<1> QED
  BY <1>3, <1>4, <1>5, <1>7, <1>8 DEF TemplatesNext

\* As long as the conditions are numeric, a scan reports as contradictory the
\* policies in force that no value satisfies, and the ones it mistakes for such.
THEOREM ScanReports ==
  ASSUME NumericConditions
  PROVE  TemplatesSpec => []ScanFindsContradictions
<1>1. TemplatesInit => ConditionsKept
  BY DEF TemplatesInit, ConditionsKept, CallConditions
<1>2. Types /\ ConditionsKept /\ [TemplatesNext]_templateVars => ConditionsKept'
  BY NextKeepsConditions
<1>3. Types /\ ConditionsKept => ScanFindsContradictions
  <2> SUFFICES ASSUME Types, ConditionsKept, NEW scan \in Scans(records),
                      NEW p \in LatestByPolicyId(records), NEW q \in LatestByPolicyId(records),
                      p.policy_id # q.policy_id
               PROVE  {p.policy_id, q.policy_id} \in Contradictory(scan)
                        <=> \E pair \in SharedConditions(p, q) :
                               Unsatisfiable(pair[1], pair[2])
                                 \/ MistakenForDisjoint(pair[1], pair[2])
    BY DEF ScanFindsContradictions
  <2>1. p.conditions \in ConditionLists /\ q.conditions \in ConditionLists
    BY LatestIsOne DEF Types, ConditionsKept
  <2> QED
    BY <2>1, ContradictionsReported, PoliciesContradictWhen
<1> QED
  BY <1>1, <1>2, <1>3, TypesHold, PTL DEF TemplatesSpec
=============================================================================
