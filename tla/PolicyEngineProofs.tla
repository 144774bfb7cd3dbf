------------------------- MODULE PolicyEngineProofs -------------------------
(***************************************************************************)
(* Proofs about PolicyEngine, for any requests and any posted policies.    *)
(* Of the catalogue they use what PolicyCatalog assumes of it, statements  *)
(* that mention no constant and that TLC evaluates: which check belongs to *)
(* which capabilities, and that none of its rules is missing.  The order   *)
(* of the capabilities does not matter.                                    *)
(***************************************************************************)
EXTENDS PolicyEngine, TLAPS

LEMMA CatalogueLength ==
    /\ Len(Catalogue) \in Nat
    /\ \A i \in Positions : Catalogue[i] \in Capability
BY CatalogueIsSequence DEF Positions

LEMMA StoredIsPolicy ==
    ASSUME NEW s
    PROVE  Stored(s) \in Policy /\ Stored(s).review \subseteq Stored(s).caps
BY DEF Stored, Policy

LEMMA SystemIsPolicy == SystemPolicy \in Policy /\ SystemPolicy.review \subseteq SystemPolicy.caps
BY DEF SystemPolicy, Policy, SystemDefaultCapabilityKeys, Keys

(* The positions still to be tried are positions of the catalogue. *)
LEMMA ToTryPositions ==
    ASSUME TypeOK, NEW i \in ToTry
    PROVE  /\ i \in Positions
           /\ i + 1 \in 1..Len(Catalogue) + 1
           /\ Catalogue[i].key \in policy.caps
BY CatalogueLength DEF TypeOK, ToTry, Positions

(***************************************************************************)
(* Every variable keeps its type, and a policy as it is stored marks only  *)
(* enabled capabilities for review.                                        *)
(***************************************************************************)
LEMMA InitType == Init => TypeOK
<1> SUFFICES ASSUME Init PROVE TypeOK
    OBVIOUS
<1>1. policy \in Policy /\ policy.review \subseteq policy.caps
  <2>1. CASE policy = SystemPolicy \/ \E s : policy = Stored(s)
      BY <2>1, StoredIsPolicy, SystemIsPolicy
  <2>2. ASSUME NEW s \in Selections[op], ApiAccepts(s), policy = s
        PROVE  policy \in Policy /\ policy.review \subseteq policy.caps
      BY <2>2, EngineAssumption DEF Init, ApiAccepts, Selection, Policy
  <2> QED BY <2>1, <2>2 DEF Init
<1>2. next \in 1..Len(Catalogue) + 1 /\ decided \in 0..Len(Catalogue)
    BY CatalogueLength DEF Init
<1> QED BY <1>1, <1>2 DEF Init, TypeOK, Outcomes

LEMMA StepType == TypeOK /\ [Next]_vars => TypeOK'
<1> SUFFICES ASSUME TypeOK, [Next]_vars PROVE TypeOK'
    OBVIOUS
<1> USE DEF TypeOK, Outcomes, request
<1>1. CASE TryRule
  <2>1. PICK i \in ToTry : /\ next' = i + 1
                           /\ decided' \in {i, decided}
                           /\ at' \in {"allowed", "refused", "scan"}
                           /\ failed' \in {TRUE, failed}
      BY <1>1 DEF TryRule
  <2>2. i \in Positions /\ i + 1 \in 1..Len(Catalogue) + 1
      BY ToTryPositions
  <2>3. next' \in 1..Len(Catalogue) + 1 /\ decided' \in 0..Len(Catalogue)
      BY <2>1, <2>2, CatalogueLength DEF Positions
  <2> QED BY <1>1, <2>1, <2>3 DEF TryRule
<1>2. CASE NoRuleLeft
    BY <1>2 DEF NoRuleLeft
<1>3. CASE Decide
    BY <1>3 DEF Decide
<1>4. CASE GuestsChange
    BY <1>4 DEF GuestsChange
<1>5. CASE UNCHANGED vars
    BY <1>5 DEF vars
<1> QED BY <1>1, <1>2, <1>3, <1>4, <1>5 DEF Next

THEOREM TypeCorrect == Spec => []TypeOK
<1>1. Init => TypeOK BY InitType
<1>2. TypeOK /\ [Next]_vars => TypeOK' BY StepType
<1> QED BY <1>1, <1>2, PTL DEF Spec

-----------------------------------------------------------------------------
(***************************************************************************)
(* What a rule that says yes tells about the needs of the request, class   *)
(* by class of its check.                                                  *)
(***************************************************************************)
LEMMA RuleFacts ==
    ASSUME NEW i \in Positions, NEW rule \in Matching(i)
    PROVE  /\ rule.check \in Checks
           /\ rule.method = op.method
           /\ rule.path = IF op.path = "files/trash" THEN "files/*" ELSE op.path
           /\ UsedFor(rule.check, Catalogue[i].key, rule.method, rule.path)
           /\ Classes = {Class(rule.check)}
           /\ rule.check = "none" => NeedsOfPlain = {Catalogue[i].key}
<1>1. rule \in Catalogue[i].rules /\ rule \in Rule
    BY CatalogueLength DEF Matching, Capability
<1>2. rule.method = op.method /\ rule.path = IF op.path = "files/trash" THEN "files/*" ELSE op.path
    BY DEF Matching, Matches
<1>3. UsedFor(rule.check, Catalogue[i].key, rule.method, rule.path)
    BY <1>1, ChecksInUse
<1>4. ASSUME NEW j \in Positions, NEW s \in Matching(j)
      PROVE  /\ Class(s.check) = Class(rule.check)
             /\ rule.check = "none" => i = j
  <2>1. s \in Catalogue[j].rules /\ s.method = rule.method /\ s.path = rule.path
      BY <1>2 DEF Matching, Matches
  <2> QED BY <1>1, <2>1, OneClass
<1>5. Classes = {Class(rule.check)}
    BY <1>4 DEF Classes
<1>6. ASSUME rule.check = "none" PROVE NeedsOfPlain = {Catalogue[i].key}
  <2>1. {j \in Positions : Matching(j) # {}} = {i}
      BY <1>4, <1>6
  <2> QED BY <2>1 DEF NeedsOfPlain
<1> QED BY <1>1, <1>2, <1>3, <1>5, <1>6 DEF Rule

(* The rules with a check other than a change of labels: what the request   *)
(* needs is the capability that the rule belongs to.                        *)
LEMMA YesOfLabel ==
    ASSUME NEW i \in Positions, NEW rule \in Matching(i), Verdict(rule.check) = "yes",
           rule.check \in {"gmail_label_create_rename", "gmail_label_delete"}
    PROVE  NeedsOfLabel = {Catalogue[i].key}
BY RuleFacts DEF Verdict, UsedFor, NeedsOfLabel, Only, LabelCreateRename, LabelDelete

LEMMA YesOfEvent ==
    ASSUME NEW i \in Positions, NEW rule \in Matching(i), Verdict(rule.check) = "yes",
           rule.check \in EventCreations \union EventChecks, guests \in BOOLEAN
    PROVE  NeedsOfEvent(guests) = {Catalogue[i].key}
<1>1. UsedFor(rule.check, Catalogue[i].key, op.method, rule.path)
    BY RuleFacts
<1>2. CASE rule.check = "calendar_event_create_self"
  <2>1. Catalogue[i].key = "calendar_events_create_self" /\ op.method = "POST"
      BY <1>1, <1>2 DEF UsedFor
  <2>2. EventCreate(FALSE) = "yes"
      BY <1>2 DEF Verdict
  <2> QED BY <2>1, <2>2 DEF EventCreate, Match, NeedsOfEvent, ByGuests
<1>3. CASE rule.check = "calendar_event_create_guests"
  <2>1. Catalogue[i].key = "calendar_events_create_guests" /\ op.method = "POST"
      BY <1>1, <1>3 DEF UsedFor
  <2>2. EventCreate(TRUE) = "yes"
      BY <1>3 DEF Verdict
  <2> QED BY <2>1, <2>2 DEF EventCreate, Match, NeedsOfEvent, ByGuests
<1>4. CASE rule.check = "calendar_event_update_self"
  <2>1. Catalogue[i].key = "calendar_events_update_self" /\ op.method \in {"PATCH", "PUT"}
      BY <1>1, <1>4 DEF UsedFor
  <2>2. EventExisting(FALSE) = "yes"
      BY <1>4 DEF Verdict
  <2> QED BY <2>1, <2>2 DEF EventExisting, Match, NeedsOfEvent, ByGuests
<1>5. CASE rule.check = "calendar_event_update_guests"
  <2>1. Catalogue[i].key = "calendar_events_update_guests" /\ op.method \in {"PATCH", "PUT"}
      BY <1>1, <1>5 DEF UsedFor
  <2>2. EventExisting(TRUE) = "yes"
      BY <1>5 DEF Verdict
  <2> QED BY <2>1, <2>2 DEF EventExisting, Match, NeedsOfEvent, ByGuests
<1>6. CASE rule.check = "calendar_event_delete_self"
  <2>1. Catalogue[i].key = "calendar_events_delete_self" /\ op.method = "DELETE"
      BY <1>1, <1>6 DEF UsedFor
  <2>2. EventDeleted(FALSE) = "yes"
      BY <1>6 DEF Verdict
  <2> QED BY <2>1, <2>2 DEF EventDeleted, Match, NeedsOfEvent, ByGuests
<1>7. CASE rule.check = "calendar_event_delete_guests"
  <2>1. Catalogue[i].key = "calendar_events_delete_guests" /\ op.method = "DELETE"
      BY <1>1, <1>7 DEF UsedFor
  <2>2. EventDeleted(TRUE) = "yes"
      BY <1>7 DEF Verdict
  <2> QED BY <2>1, <2>2 DEF EventDeleted, Match, NeedsOfEvent, ByGuests
<1> QED BY <1>2, <1>3, <1>4, <1>5, <1>6, <1>7 DEF EventCreations, EventChecks

LEMMA YesOfComment ==
    ASSUME NEW i \in Positions, NEW rule \in Matching(i), Verdict(rule.check) = "yes",
           rule.check \in CommentChecks
    PROVE  NeedsOfComment = {Catalogue[i].key}
<1>1. UsedFor(rule.check, Catalogue[i].key, op.method, rule.path)
    BY RuleFacts
<1>2. CASE rule.check = "drive_comment_reply"
  <2>1. Catalogue[i].key = "drive_comments_reply" /\ op.method = "POST"
      BY <1>1, <1>2 DEF UsedFor
  <2>2. ReplyAction(FALSE) = "yes"
      BY <1>2 DEF Verdict
  <2> QED BY <2>1, <2>2 DEF ReplyAction, Match, NeedsOfComment
<1>3. CASE rule.check = "drive_comment_resolve"
  <2>1. Catalogue[i].key = "drive_comments_resolve" /\ op.method = "POST"
      BY <1>1, <1>3 DEF UsedFor
  <2>2. ReplyAction(TRUE) = "yes"
      BY <1>3 DEF Verdict
  <2> QED BY <2>1, <2>2 DEF ReplyAction, Match, NeedsOfComment
<1>4. CASE rule.check = "drive_comment_owned"
  <2>1. CommentOwned = "yes"
      BY <1>4 DEF Verdict
  <2>2. CASE op.method = "DELETE"
    <3>1. Catalogue[i].key = "drive_comments_delete"
        BY <1>1, <1>4, <2>2 DEF UsedFor
    <3> QED BY <2>1, <2>2, <3>1 DEF CommentOwned, NeedsOfComment, Only
  <2>3. CASE op.method \in {"PATCH", "PUT"}
    <3>1. Catalogue[i].key = "drive_comments_update"
        BY <1>1, <1>4, <2>3 DEF UsedFor
    <3>2. op.marks \intersect {"not own", "malformed", "other action", "resolve", "resolved"} = {}
        BY <2>1, <2>3 DEF CommentOwned, CommentEditRefused
    <3> QED BY <2>3, <3>1, <3>2 DEF NeedsOfComment, Only
  <2> QED BY <1>1, <1>4, <2>2, <2>3 DEF UsedFor
<1> QED BY <1>2, <1>3, <1>4 DEF CommentChecks

LEMMA YesOfFile ==
    ASSUME NEW i \in Positions, NEW rule \in Matching(i), Verdict(rule.check) = "yes",
           rule.check \in FileCreations \union FileKindChecks
    PROVE  NeedsOfFile = {Catalogue[i].key}
<1>1. /\ UsedFor(rule.check, Catalogue[i].key, op.method, rule.path)
      /\ rule.path = IF op.path = "files/trash" THEN "files/*" ELSE op.path
    BY RuleFacts
<1>2. CASE rule.check \in FileCreations
  <2>1. op.path = "files"
      BY <1>1, <1>2 DEF UsedFor, FileCreations
  <2>2. NeedsOfFile = NeedsOfCreation
      BY <2>1 DEF NeedsOfFile
  <2>3. NeedsOfCreation = {Catalogue[i].key}
      BY <1>1, <1>2 DEF Verdict, UsedFor, FileCreations, FileCreate, NeedsOfCreation, Match, ByKind
  <2> QED BY <2>2, <2>3
<1>3. CASE rule.check = "drive_file_kind_drive"
  <2>1. FileKind("drive") = "yes"
      BY <1>3 DEF Verdict
  <2>2. Kind = "drive" /\ op.path # "files/trash" /\ rule.path = op.path
      BY <1>1, <2>1 DEF FileKind, Match
  <2> QED BY <1>1, <1>3, <2>2 DEF UsedFor, NeedsOfFile, ByKind
<1>4. CASE rule.check = "drive_file_kind_docs"
  <2>1. FileKind("docs") = "yes"
      BY <1>4 DEF Verdict
  <2>2. Kind = "docs" /\ op.path # "files/trash" /\ rule.path = op.path
      BY <1>1, <2>1 DEF FileKind, Match
  <2> QED BY <1>1, <1>4, <2>2 DEF UsedFor, NeedsOfFile, ByKind
<1>5. CASE rule.check = "drive_file_kind_sheets"
  <2>1. FileKind("sheets") = "yes"
      BY <1>5 DEF Verdict
  <2>2. Kind = "sheets" /\ op.path # "files/trash" /\ rule.path = op.path
      BY <1>1, <2>1 DEF FileKind, Match
  <2> QED BY <1>1, <1>5, <2>2 DEF UsedFor, NeedsOfFile, ByKind
<1>6. CASE rule.check = "drive_file_kind_slides"
  <2>1. FileKind("slides") = "yes"
      BY <1>6 DEF Verdict
  <2>2. Kind = "slides" /\ op.path # "files/trash" /\ rule.path = op.path
      BY <1>1, <2>1 DEF FileKind, Match
  <2> QED BY <1>1, <1>6, <2>2 DEF UsedFor, NeedsOfFile, ByKind
<1> QED BY <1>2, <1>3, <1>4, <1>5, <1>6 DEF FileKindChecks

LEMMA YesMeansNeeds ==
    ASSUME TypeOK, NEW i \in Positions, NEW rule \in Matching(i), Verdict(rule.check) = "yes",
           Catalogue[i].key \in policy.caps
    PROVE  /\ Needs(guests) \subseteq policy.caps
           /\ "label change" \notin Classes => Needs(guests) = {Catalogue[i].key}
<1> USE DEF Class, EventCreations, EventChecks, CommentChecks, FileCreations, FileKindChecks
<1>1. rule.check \in Checks /\ Classes = {Class(rule.check)}
    BY RuleFacts
<1>2. CASE rule.check = "none"
  <2>1. Needs(guests) = NeedsOfPlain
      BY <1>1, <1>2 DEF Needs
  <2> QED BY <1>2, <2>1, RuleFacts
<1>3. CASE rule.check = "gmail_label_modify"
  <2>1. Needs(guests) = NeedsOfLabelChange /\ "label change" \in Classes
      BY <1>1, <1>3 DEF Needs
  <2> QED BY <1>3, <2>1 DEF Verdict, LabelModify, NeedsOfLabelChange
<1>4. CASE rule.check \in {"gmail_label_create_rename", "gmail_label_delete"}
  <2>1. Needs(guests) = NeedsOfLabel
      BY <1>1, <1>4 DEF Needs
  <2> QED BY <1>4, <2>1, YesOfLabel
<1>5. CASE rule.check \in EventCreations \union EventChecks
  <2>1. Needs(guests) = NeedsOfEvent(guests)
      BY <1>1, <1>5 DEF Needs
  <2> QED BY <1>5, <2>1, YesOfEvent DEF TypeOK
<1>6. CASE rule.check \in CommentChecks
  <2>1. Needs(guests) = NeedsOfComment
      BY <1>1, <1>6 DEF Needs
  <2> QED BY <1>6, <2>1, YesOfComment
<1>7. CASE rule.check \in FileCreations \union FileKindChecks
  <2>1. Needs(guests) = NeedsOfFile
      BY <1>1, <1>7 DEF Needs
  <2> QED BY <1>7, <2>1, YesOfFile
<1> QED BY <1>1, <1>2, <1>3, <1>4, <1>5, <1>6, <1>7 DEF Checks

-----------------------------------------------------------------------------
(***************************************************************************)
(* The strengthening: from the rule that said yes until the request is     *)
(* forwarded or stopped for an approval, some moment of the evaluation     *)
(* bears the decision out, and outside changes of labels the capability    *)
(* decided on is what the request needs.                                   *)
(***************************************************************************)
Borne(third) ==
    /\ Needs(third) \subseteq policy.caps
    /\ "label change" \notin Classes => Needs(third) = {Catalogue[decided].key}

DecisionInv ==
    /\ TypeOK
    /\ guests \in seen
    /\ at \in {"allowed", "forwarded", "unapproved"} => \E third \in seen : Borne(third)
    /\ at = "forwarded" => (Catalogue[decided].key \in policy.review => approval)
    /\ at = "unapproved" => Catalogue[decided].key \in policy.review

LEMMA InitDecision == Init => DecisionInv
BY InitType DEF Init, DecisionInv

(* The needs of the request do not change with the steps of the engine. *)
LEMMA SameNeeds ==
    ASSUME UNCHANGED request
    PROVE  /\ Classes' = Classes
           /\ \A third : Needs(third)' = Needs(third)
<1> USE DEF request
<1>1. Classes' = Classes
    BY DEF Classes, Matching, Matches
<1>2. NeedsOfPlain' = NeedsOfPlain /\ NeedsOfLabelChange' = NeedsOfLabelChange
    BY DEF NeedsOfPlain, NeedsOfLabelChange, Effects, Matching, Matches
<1>3. NeedsOfLabel' = NeedsOfLabel /\ NeedsOfComment' = NeedsOfComment
    BY DEF NeedsOfLabel, NeedsOfComment
<1>4. NeedsOfFile' = NeedsOfFile
    BY DEF NeedsOfFile, NeedsOfCreation, ByKind, Kind
<1>5. ASSUME NEW third PROVE NeedsOfEvent(third)' = NeedsOfEvent(third)
    BY DEF NeedsOfEvent
<1> QED BY <1>1, <1>2, <1>3, <1>4, <1>5 DEF Needs

LEMMA StepDecision == DecisionInv /\ [Next]_vars => DecisionInv'
<1> SUFFICES ASSUME DecisionInv, [Next]_vars PROVE DecisionInv'
    OBVIOUS
<1>1. TypeOK /\ TypeOK'
    BY StepType DEF DecisionInv
<1>2. UNCHANGED request
    BY DEF Next, TryRule, NoRuleLeft, Decide, GuestsChange, vars, request
<1>3. /\ Classes' = Classes
      /\ \A third : Needs(third)' = Needs(third)
    BY <1>2, SameNeeds
<1> USE DEF request, DecisionInv
<1>4. CASE TryRule
  <2>0. PICK i \in ToTry : \E rule \in Matching(i) :
           \/ Verdict(rule.check) = "yes" /\ at' = "allowed" /\ decided' = i
           \/ at' \in {"refused", "scan"}
      BY <1>4 DEF TryRule
  <2>1. PICK rule \in Matching(i) :
           \/ Verdict(rule.check) = "yes" /\ at' = "allowed" /\ decided' = i
           \/ at' \in {"refused", "scan"}
      BY <2>0
  <2>2. seen' = seen /\ guests' = guests
      BY <1>4 DEF TryRule
  <2>3. CASE Verdict(rule.check) = "yes" /\ at' = "allowed" /\ decided' = i
    <3>1. Needs(guests) \subseteq policy.caps
          /\ ("label change" \notin Classes => Needs(guests) = {Catalogue[i].key})
        BY <1>1, <2>3, ToTryPositions, YesMeansNeeds
    <3>2. Borne(guests)'
        BY <1>2, <1>3, <2>2, <2>3, <3>1 DEF Borne
    <3> QED BY <1>1, <2>2, <2>3, <3>2
  <2>4. CASE at' \in {"refused", "scan"}
      BY <1>1, <2>2, <2>4
  <2> QED BY <2>1, <2>3, <2>4
<1>5. CASE Decide
  <2>1. decided' = decided /\ seen' = seen /\ guests' = guests
      BY <1>5 DEF Decide
  <2>2. \E third \in seen : Borne(third)
      BY <1>5 DEF Decide
  <2>3. \E third \in seen' : Borne(third)'
      BY <1>2, <1>3, <2>1, <2>2 DEF Borne
  <2> QED BY <1>1, <1>2, <1>5, <2>1, <2>3 DEF Decide
<1>6. CASE NoRuleLeft
    BY <1>1, <1>6 DEF NoRuleLeft
<1>7. CASE GuestsChange
    BY <1>1, <1>7 DEF GuestsChange
<1>8. CASE UNCHANGED vars
  <2>1. decided' = decided /\ seen' = seen /\ guests' = guests /\ at' = at
      BY <1>8 DEF vars
  <2>2. \A third : Borne(third)' = Borne(third)
      BY <1>2, <1>3, <2>1 DEF Borne
  <2> QED BY <1>1, <1>2, <2>1, <2>2
<1> QED BY <1>4, <1>5, <1>6, <1>7, <1>8 DEF Next

THEOREM DecisionHolds == Spec => []DecisionInv
<1>1. Init => DecisionInv BY InitDecision
<1>2. DecisionInv /\ [Next]_vars => DecisionInv' BY StepDecision
<1> QED BY <1>1, <1>2, PTL DEF Spec

(***************************************************************************)
(* Whatever the posted policies and however the event changes between two  *)
(* look-ups, a forwarded request was covered by the policy at some moment  *)
(* of its evaluation.                                                      *)
(***************************************************************************)
THEOREM ForwardedWasPermittedHolds == Spec => []ForwardedWasPermitted
<1>1. DecisionInv => ForwardedWasPermitted
    BY DEF DecisionInv, Borne, ForwardedWasPermitted
<1> QED BY <1>1, DecisionHolds, PTL

(***************************************************************************)
(* Outside changes of labels, an approval is asked for exactly when what   *)
(* the request needs is marked for review.                                 *)
(***************************************************************************)
THEOREM ReviewFollowsNeedHolds == Spec => []ReviewFollowsNeed
<1>1. DecisionInv => ReviewFollowsNeed
  <2> SUFFICES ASSUME DecisionInv, "label change" \notin Classes PROVE
          /\ at = "forwarded" =>
               \E third \in seen : Needs(third) \intersect policy.review # {} => approval
          /\ at = "unapproved" => \E third \in seen : Needs(third) \intersect policy.review # {}
      BY DEF ReviewFollowsNeed
  <2>1. CASE at = "forwarded"
      BY <2>1 DEF DecisionInv, Borne
  <2>2. CASE at = "unapproved"
      BY <2>2 DEF DecisionInv, Borne
  <2> QED BY <2>1, <2>2
<1> QED BY <1>1, DecisionHolds, PTL

-----------------------------------------------------------------------------
(***************************************************************************)
(* Nor is less let through.  When the event stays as it is and Google      *)
(* answers, every rule that was tried left the request to those after it,  *)
(* and the catalogue has a rule that would not: so the loop does not end   *)
(* without a decision on a request that the policy covers.                 *)
(***************************************************************************)

(* What a rule that refuses at once tells about the needs of the request.   *)
LEMMA NoOfFile ==
    ASSUME NEW i \in Positions, NEW rule \in Matching(i), Verdict(rule.check) = "no",
           rule.check \in FileCreations \union FileKindChecks
    PROVE  NeedsOfFile = {"never"}
<1> USE RuleFacts DEF Verdict, UsedFor, NeedsOfFile, Match
<1>1. CASE rule.check \in FileCreations
    BY <1>1 DEF FileCreations, FileCreate, NeedsOfCreation
<1>2. CASE rule.check \in FileKindChecks
    BY <1>2 DEF FileKindChecks, FileKind
<1> QED BY <1>1, <1>2

LEMMA NoOfEvent ==
    ASSUME NEW i \in Positions, NEW rule \in Matching(i), Verdict(rule.check) = "no",
           rule.check \in EventCreations \union EventChecks
    PROVE  NeedsOfEvent(guests) = {"never"}
<1> USE RuleFacts DEF Verdict, UsedFor, NeedsOfEvent, Match
<1>1. CASE rule.check \in EventCreations
    BY <1>1 DEF EventCreations, EventCreate
<1>2. CASE rule.check \in {"calendar_event_update_self", "calendar_event_update_guests"}
    BY <1>2 DEF EventExisting
<1>3. CASE rule.check \in {"calendar_event_delete_self", "calendar_event_delete_guests"}
    BY <1>3 DEF EventDeleted
<1> QED BY <1>1, <1>2, <1>3 DEF EventChecks

LEMMA NoOfComment ==
    ASSUME NEW i \in Positions, NEW rule \in Matching(i), Verdict(rule.check) = "no",
           rule.check \in CommentChecks
    PROVE  NeedsOfComment = {"never"}
<1> USE RuleFacts DEF Verdict, UsedFor, NeedsOfComment, Match
<1>1. CASE rule.check \in {"drive_comment_reply", "drive_comment_resolve"}
    BY <1>1 DEF ReplyAction
<1>2. CASE rule.check = "drive_comment_owned"
    BY <1>2 DEF CommentOwned, CommentEditRefused, Only
<1> QED BY <1>1, <1>2 DEF CommentChecks

LEMMA NoMeansUncovered ==
    ASSUME TypeOK, NEW i \in Positions, NEW rule \in Matching(i), Verdict(rule.check) = "no"
    PROVE  ~(Needs(guests) \subseteq policy.caps)
<1> USE DEF Class, EventCreations, EventChecks, CommentChecks, FileCreations, FileKindChecks
<1>1. rule.check \in Checks /\ Classes = {Class(rule.check)} /\ rule.check # "none"
    BY RuleFacts DEF Verdict
<1>2. "never" \notin policy.caps
    BY NeverIsNoKey DEF TypeOK, Policy
<1>3. CASE rule.check = "gmail_label_modify"
  <2>1. Needs(guests) = NeedsOfLabelChange
      BY <1>1, <1>3 DEF Needs
  <2> QED BY <1>2, <1>3, <2>1 DEF Verdict, LabelModify, NeedsOfLabelChange
<1>4. CASE rule.check \in {"gmail_label_create_rename", "gmail_label_delete"}
  <2>1. Needs(guests) = NeedsOfLabel
      BY <1>1, <1>4 DEF Needs
  <2>2. NeedsOfLabel = {"never"}
    <3> USE RuleFacts DEF Verdict, UsedFor, NeedsOfLabel, Only
    <3>1. CASE rule.check = "gmail_label_create_rename"
        BY <3>1 DEF LabelCreateRename
    <3>2. CASE rule.check = "gmail_label_delete"
        BY <3>2 DEF LabelDelete
    <3> QED BY <1>4, <3>1, <3>2
  <2> QED BY <1>2, <2>1, <2>2
<1>5. CASE rule.check \in EventCreations \union EventChecks
  <2>1. Needs(guests) = NeedsOfEvent(guests)
      BY <1>1, <1>5 DEF Needs
  <2>2. NeedsOfEvent(guests) = {"never"}
      BY <1>5, NoOfEvent
  <2> QED BY <1>2, <2>1, <2>2
<1>6. CASE rule.check \in CommentChecks
  <2>1. Needs(guests) = NeedsOfComment
      BY <1>1, <1>6 DEF Needs
  <2> QED BY <1>2, <1>6, <2>1, NoOfComment
<1>7. CASE rule.check \in FileCreations \union FileKindChecks
  <2>1. Needs(guests) = NeedsOfFile
      BY <1>1, <1>7 DEF Needs
  <2> QED BY <1>2, <1>7, <2>1, NoOfFile
<1> QED BY <1>1, <1>3, <1>4, <1>5, <1>6, <1>7 DEF Checks

(* A rule of the same class exists for every capability that has one. *)
LEMMA Sibling ==
    ASSUME NEW i \in Positions, NEW rule \in Matching(i),
           NEW key \in Keys, NEW check \in Checks \ {"none"},
           Class(check) = Class(rule.check), UsedFor(check, key, rule.method, rule.path)
    PROVE  \E j \in Positions : /\ Catalogue[j].key = key
                                /\ \E s \in Matching(j) : s.check = check
<1>1. PICK j \in Positions : Catalogue[j].key = key
    BY DEF Keys
<1> DEFINE s == [method |-> rule.method, path |-> rule.path, check |-> check]
<1>2. rule \in Catalogue[i].rules
    BY DEF Matching
<1>3. s \in Catalogue[j].rules
    BY <1>1, <1>2, ChecksAreComplete
<1>4. s \in Matching(j)
    BY <1>3, RuleFacts DEF Matching, Matches
<1> QED BY <1>1, <1>4

LEMMA ClassesOfChecks ==
    /\ \A c \in EventCreations \union EventChecks : Class(c) = "event" /\ c \in Checks \ {"none"}
    /\ \A c \in CommentChecks : Class(c) = "comment" /\ c \in Checks \ {"none"}
    /\ \A c \in FileCreations \union FileKindChecks : Class(c) = "file" /\ c \in Checks \ {"none"}
<1> USE DEF Class, EventCreations, EventChecks, CommentChecks, FileCreations, FileKindChecks
<1>1. \A c \in EventCreations \union EventChecks : Class(c) = "event"
    OBVIOUS
<1>2. \A c \in CommentChecks : Class(c) = "comment"
    OBVIOUS
<1>3. \A c \in FileCreations \union FileKindChecks : Class(c) = "file"
    OBVIOUS
<1> QED BY <1>1, <1>2, <1>3 DEF Checks

(* The check that lets a request of this class through, by what it needs. *)
Deciding(key, check) ==
    /\ key \in policy.caps
    /\ \E j \in Positions : Catalogue[j].key = key /\ \E s \in Matching(j) : s.check = check
    /\ Verdict(check) # "other"

LEMMA SiblingDecides ==
    ASSUME TypeOK, NEW i \in Positions, NEW rule \in Matching(i),
           NEW key \in policy.caps, NEW check \in Checks \ {"none"},
           Class(check) = Class(rule.check), UsedFor(check, key, rule.method, rule.path),
           Verdict(check) # "other"
    PROVE  Deciding(key, check)
<1>1. key \in Keys
    BY DEF TypeOK, Policy
<1> QED BY <1>1, Sibling DEF Deciding

LEMMA CoveredEvent ==
    ASSUME TypeOK, NEW i \in Positions, NEW rule \in Matching(i),
           rule.check \in EventCreations \union EventChecks,
           NeedsOfEvent(guests) \subseteq policy.caps
    PROVE  \E key, check : Deciding(key, check)
<1> USE DEF EventCreations, EventChecks
<1>1. /\ UsedFor(rule.check, Catalogue[i].key, rule.method, rule.path)
      /\ rule.method = op.method
    BY RuleFacts
<1>2. policy.caps \subseteq Keys /\ "never" \notin policy.caps /\ guests \in BOOLEAN
    BY NeverIsNoKey DEF TypeOK, Policy
<1>3. CASE op.method = "DELETE"
  <2>1. PICK key, check :
            \/ /\ guests
               /\ key = "calendar_events_delete_guests" /\ check = "calendar_event_delete_guests"
            \/ /\ ~guests
               /\ key = "calendar_events_delete_self" /\ check = "calendar_event_delete_self"
      OBVIOUS
  <2>2. key \in policy.caps
      BY <2>1, <1>3 DEF NeedsOfEvent, ByGuests
  <2>3. UsedFor(check, key, rule.method, rule.path) /\ check \in EventCreations \union EventChecks
      BY <2>1, <1>1, <1>3 DEF UsedFor
  <2>4. Verdict(check) # "other"
      BY <2>1, <1>2 DEF Verdict, EventDeleted, Match
  <2>6. Class(check) = Class(rule.check) /\ check \in Checks \ {"none"}
      BY <2>3, ClassesOfChecks
  <2> QED BY <2>6, <2>2, <2>3, <2>4, SiblingDecides
<1>4. CASE op.method = "POST"
  <2>1. PICK key, check :
            \/ /\ "guests" \in op.marks
               /\ key = "calendar_events_create_guests" /\ check = "calendar_event_create_guests"
            \/ /\ "guests" \notin op.marks
               /\ key = "calendar_events_create_self" /\ check = "calendar_event_create_self"
      OBVIOUS
  <2>2. key \in policy.caps /\ "malformed" \notin op.marks
      BY <2>1, <1>2, <1>4 DEF NeedsOfEvent, ByGuests
  <2>3. UsedFor(check, key, rule.method, rule.path) /\ check \in EventCreations \union EventChecks
      BY <2>1, <1>1, <1>4 DEF UsedFor
  <2>4. Verdict(check) # "other"
    <3>1. CASE "guests" \in op.marks
        BY <2>1, <3>1 DEF Verdict, EventCreate, Match
    <3>2. CASE "guests" \notin op.marks
      <4>1. ("guests" \in op.marks) = FALSE
          BY <3>2
      <4>2. Match("guests" \in op.marks, FALSE) = "yes"
          BY <4>1 DEF Match
      <4>3. EventCreate(FALSE) # "other"
          BY <4>2 DEF EventCreate
      <4> QED BY <2>1, <3>2, <4>3 DEF Verdict
    <3> QED BY <3>1, <3>2
  <2>6. Class(check) = Class(rule.check) /\ check \in Checks \ {"none"}
      BY <2>3, ClassesOfChecks
  <2> QED BY <2>6, <2>2, <2>3, <2>4, SiblingDecides
<1>5. CASE op.method \in {"PATCH", "PUT"}
  <2>1. PICK key, check :
            \/ /\ (guests \/ "guests" \in op.marks)
               /\ key = "calendar_events_update_guests" /\ check = "calendar_event_update_guests"
            \/ /\ ~(guests \/ "guests" \in op.marks)
               /\ key = "calendar_events_update_self" /\ check = "calendar_event_update_self"
      OBVIOUS
  <2>2. key \in policy.caps /\ "malformed" \notin op.marks
      BY <2>1, <1>2, <1>5 DEF NeedsOfEvent, ByGuests
  <2>3. UsedFor(check, key, rule.method, rule.path) /\ check \in EventCreations \union EventChecks
      BY <2>1, <1>1, <1>5 DEF UsedFor
  <2>4. Verdict(check) # "other"
      BY <2>1, <1>2, <2>2 DEF Verdict, EventExisting, Match
  <2>6. Class(check) = Class(rule.check) /\ check \in Checks \ {"none"}
      BY <2>3, ClassesOfChecks
  <2> QED BY <2>6, <2>2, <2>3, <2>4, SiblingDecides
<1> QED BY <1>1, <1>3, <1>4, <1>5 DEF UsedFor

LEMMA CoveredComment ==
    ASSUME TypeOK, NEW i \in Positions, NEW rule \in Matching(i),
           rule.check \in CommentChecks, NeedsOfComment \subseteq policy.caps
    PROVE  \E key, check : Deciding(key, check)
<1> USE DEF CommentChecks
<1>1. /\ UsedFor(rule.check, Catalogue[i].key, rule.method, rule.path)
      /\ rule.method = op.method
    BY RuleFacts
<1>2. policy.caps \subseteq Keys /\ "never" \notin policy.caps
    BY NeverIsNoKey DEF TypeOK, Policy
<1>3. CASE rule.check = "drive_comment_owned"
  <2>1. NeedsOfComment = {Catalogue[i].key}
      BY <1>1, <1>2, <1>3 DEF UsedFor, NeedsOfComment, Only
  <2>2. Catalogue[i].key \in policy.caps
      BY <2>1
  <2>3. Verdict(rule.check) # "other"
      BY <1>3 DEF Verdict, CommentOwned
  <2> QED BY <2>2, <2>3 DEF Deciding
<1>4. CASE rule.check \in {"drive_comment_reply", "drive_comment_resolve"}
  <2>1. PICK key, check :
            \/ /\ "resolve" \in op.marks
               /\ key = "drive_comments_resolve" /\ check = "drive_comment_resolve"
            \/ /\ "resolve" \notin op.marks
               /\ key = "drive_comments_reply" /\ check = "drive_comment_reply"
      OBVIOUS
  <2>2. op.method = "POST"
      BY <2>1, <1>1, <1>4 DEF UsedFor
  <2>3. key \in policy.caps
      BY <2>1, <1>2, <2>2 DEF NeedsOfComment
  <2>4. UsedFor(check, key, rule.method, rule.path) /\ check \in CommentChecks
      BY <2>1, <1>1, <1>4, <2>2 DEF UsedFor
  <2>5. Verdict(check) # "other"
    <3>1. CASE "resolve" \in op.marks
        BY <2>1, <3>1 DEF Verdict, ReplyAction, Match
    <3>2. CASE "resolve" \notin op.marks
      <4>1. ("resolve" \in op.marks) = FALSE
          BY <3>2
      <4>2. Match("resolve" \in op.marks, FALSE) = "yes"
          BY <4>1 DEF Match
      <4>3. ReplyAction(FALSE) # "other"
          BY <4>2 DEF ReplyAction
      <4> QED BY <2>1, <3>2, <4>3 DEF Verdict
    <3> QED BY <3>1, <3>2
  <2>6. Class(check) = Class(rule.check) /\ check \in Checks \ {"none"}
      BY <2>4, ClassesOfChecks
  <2> QED BY <2>6, <2>3, <2>4, <2>5, SiblingDecides
<1> QED BY <1>3, <1>4

LEMMA CoveredCreation ==
    ASSUME TypeOK, NEW i \in Positions, NEW rule \in Matching(i),
           rule.check \in FileCreations, NeedsOfCreation \subseteq policy.caps
    PROVE  \E key, check : Deciding(key, check)
<1> USE DEF FileCreations
<1> DEFINE check == CASE Kind = "docs" -> "drive_file_create_docs"
                      [] Kind = "sheets" -> "drive_file_create_sheets"
                      [] Kind = "slides" -> "drive_file_create_slides"
                      [] OTHER -> "drive_file_create_drive"
<1>1. "never" \notin policy.caps
    BY NeverIsNoKey DEF TypeOK, Policy
<1>2. rule.path = "files"
    BY RuleFacts DEF UsedFor
<1>3. "malformed" \notin op.marks /\ Kind \in {"docs", "sheets", "slides", "drive"}
    BY <1>1 DEF NeedsOfCreation, ByKind
<1>4. PICK key : NeedsOfCreation = {key}
    BY <1>3 DEF NeedsOfCreation, ByKind
<1>5. UsedFor(check, key, rule.method, rule.path)
    BY <1>2, <1>3, <1>4 DEF UsedFor, NeedsOfCreation, ByKind
<1>6. Class(check) = Class(rule.check) /\ check \in Checks \ {"none"}
    BY ClassesOfChecks
<1>7. Verdict(check) = "yes"
    BY <1>3 DEF Verdict, FileCreate, Match
<1> HIDE DEF check
<1> QED BY <1>4, <1>5, <1>6, <1>7, SiblingDecides

LEMMA CoveredKind ==
    ASSUME TypeOK, NEW i \in Positions, NEW rule \in Matching(i),
           rule.check \in FileKindChecks, NeedsOfFile \subseteq policy.caps
    PROVE  \E key, check : Deciding(key, check)
<1> USE DEF FileKindChecks
<1> DEFINE check == CASE Kind = "docs" -> "drive_file_kind_docs"
                      [] Kind = "sheets" -> "drive_file_kind_sheets"
                      [] Kind = "slides" -> "drive_file_kind_slides"
                      [] OTHER -> "drive_file_kind_drive"
<1>1. "never" \notin policy.caps
    BY NeverIsNoKey DEF TypeOK, Policy
<1>2. op.path # "files/trash" /\ rule.path = op.path /\ rule.method = op.method
    BY <1>1, RuleFacts DEF NeedsOfFile
<1>3. UsedFor(rule.check, Catalogue[i].key, op.method, op.path)
    BY <1>2, RuleFacts
<1>4. \/ op.path \in {"files/*/export", "files/*/copy"}
      \/ op.path = "upload/files/*" /\ op.method \in {"PATCH", "PUT"}
      \/ op.path = "files/*" /\ op.method \in {"GET", "PATCH", "PUT", "DELETE"}
    BY <1>3 DEF UsedFor
<1>5. Kind \in {"docs", "sheets", "slides", "drive"}
    BY <1>1, <1>4 DEF NeedsOfFile, ByKind
<1>6. PICK key : NeedsOfFile = {key}
    BY <1>4, <1>5 DEF NeedsOfFile, ByKind
<1>7. UsedFor(check, key, op.method, op.path)
  <2> USE DEF UsedFor, NeedsOfFile, ByKind
  <2>1. CASE op.path = "files/*/export"
      BY <1>1, <1>5, <1>6, <2>1
  <2>2. CASE op.path = "files/*/copy"
      BY <1>1, <1>5, <1>6, <2>2
  <2>3. CASE op.method \in {"PATCH", "PUT"} /\ op.path \in {"files/*", "upload/files/*"}
      BY <1>1, <1>5, <1>6, <2>3
  <2>4. CASE op.path = "files/*" /\ op.method = "DELETE"
      BY <1>1, <1>5, <1>6, <2>4
  <2>5. CASE op.path = "files/*" /\ op.method = "GET"
      BY <1>1, <1>5, <1>6, <2>5
  <2> QED BY <1>4, <2>1, <2>2, <2>3, <2>4, <2>5
<1>8. Class(check) = Class(rule.check) /\ check \in Checks \ {"none"}
    BY ClassesOfChecks
<1>9. Verdict(check) = "yes"
    BY <1>2, <1>5 DEF Verdict, FileKind, Match
<1> HIDE DEF check
<1> QED BY <1>2, <1>6, <1>7, <1>8, <1>9, SiblingDecides

LEMMA CoveredHasRule ==
    ASSUME TypeOK, Needs(guests) \subseteq policy.caps
    PROVE  \E key, check : Deciding(key, check)
<1> USE DEF Class, EventCreations, EventChecks, CommentChecks, FileCreations, FileKindChecks
<1>1. policy.caps \subseteq Keys /\ "never" \notin policy.caps
    BY NeverIsNoKey DEF TypeOK, Policy
<1>2. PICK i \in Positions : Matching(i) # {}
  <2>1. CASE \A i \in Positions : Matching(i) = {}
    <3>1. Classes = {} /\ {j \in Positions : Matching(j) # {}} = {}
        BY <2>1 DEF Classes
    <3>2. NeedsOfPlain = {"never"}
        BY <3>1 DEF NeedsOfPlain
    <3> QED BY <1>1, <3>1, <3>2 DEF Needs
  <2> QED BY <2>1
<1>3. PICK rule : rule \in Matching(i)
    BY <1>2
<1>4. /\ rule.check \in Checks /\ Classes = {Class(rule.check)}
      /\ UsedFor(rule.check, Catalogue[i].key, rule.method, rule.path)
      /\ rule.check = "none" => NeedsOfPlain = {Catalogue[i].key}
    BY <1>3, RuleFacts
<1>5. CASE rule.check = "none"
  <2>1. Needs(guests) = {Catalogue[i].key}
      BY <1>4, <1>5 DEF Needs
  <2> QED BY <1>3, <1>5, <2>1 DEF Deciding, Verdict
<1>6. CASE rule.check = "gmail_label_modify"
  <2>1. Needs(guests) = NeedsOfLabelChange
      BY <1>4, <1>6 DEF Needs
  <2>2. PICK key \in Effects : key \in policy.caps
      BY <1>1, <2>1 DEF NeedsOfLabelChange
  <2>3. key \in LabelEffectKeys
      BY <1>1, <2>2 DEF Effects, LabelEffect, LabelEffectKeys, Labels
  <2>4. \E j \in Positions : Catalogue[j].key = key /\ \E s \in Matching(j) : s.check = rule.check
    <3>1. UsedFor(rule.check, key, rule.method, rule.path)
        BY <1>6, <2>3 DEF UsedFor
    <3>2. rule.check \in Checks \ {"none"} /\ key \in Keys
        BY <1>1, <1>4, <1>6, <2>2
    <3> HIDE DEF Class
    <3> QED BY <1>3, <3>1, <3>2, Sibling
  <2> QED BY <1>6, <2>2, <2>4 DEF Deciding, Verdict, LabelModify
<1>7. CASE rule.check \in {"gmail_label_create_rename", "gmail_label_delete"}
  <2>1. Needs(guests) = NeedsOfLabel
      BY <1>4, <1>7 DEF Needs
  <2>2. NeedsOfLabel = {Catalogue[i].key}
      BY <1>1, <1>3, <1>4, <1>7, <2>1, RuleFacts DEF UsedFor, NeedsOfLabel, Only
  <2> QED BY <1>3, <1>7, <2>1, <2>2 DEF Deciding, Verdict, LabelCreateRename, LabelDelete
<1>8. CASE rule.check \in EventCreations \union EventChecks
  <2>1. Needs(guests) = NeedsOfEvent(guests)
      BY <1>4, <1>8 DEF Needs
  <2> QED BY <1>3, <1>8, <2>1, CoveredEvent
<1>9. CASE rule.check \in CommentChecks
  <2>1. Needs(guests) = NeedsOfComment
      BY <1>4, <1>9 DEF Needs
  <2> QED BY <1>3, <1>9, <2>1, CoveredComment
<1>10. CASE rule.check \in FileCreations \union FileKindChecks
  <2>1. Needs(guests) = NeedsOfFile
      BY <1>4, <1>10 DEF Needs
  <2>2. CASE rule.check \in FileKindChecks
      BY <1>1, <1>3, <2>1, <2>2, CoveredKind
  <2>3. CASE rule.check \in FileCreations
    <3>1. NeedsOfFile = NeedsOfCreation
        BY <1>3, <2>3, RuleFacts DEF UsedFor, NeedsOfFile
    <3> QED BY <1>3, <2>1, <2>3, <3>1, CoveredCreation
  <2> QED BY <1>10, <2>2, <2>3
<1> QED BY <1>4, <1>5, <1>6, <1>7, <1>8, <1>9, <1>10 DEF Checks

(* The verdict of a check is the same while nobody touches the event. *)
LEMMA SameVerdict ==
    ASSUME UNCHANGED <<request, guests>>, TypeOK, TypeOK'
    PROVE  \A check \in Checks : Verdict(check)' = Verdict(check)
<1> USE DEF request
<1>1. Kind' = Kind /\ LabelModify' = LabelModify /\ CommentOwned' = CommentOwned
    BY DEF Kind, LabelModify, Effects, CommentOwned, CommentEditRefused
<1>2. LabelCreateRename' = LabelCreateRename /\ LabelDelete' = LabelDelete
    BY DEF LabelCreateRename, LabelDelete
<1>3. \A b \in BOOLEAN : /\ EventCreate(b)' = EventCreate(b) /\ EventExisting(b)' = EventExisting(b)
                         /\ EventDeleted(b)' = EventDeleted(b) /\ ReplyAction(b)' = ReplyAction(b)
    BY DEF EventCreate, EventExisting, EventDeleted, ReplyAction, Match
<1>4. \A k : FileCreate(k)' = FileCreate(k) /\ FileKind(k)' = FileKind(k)
    BY <1>1 DEF FileCreate, FileKind, Match
<1> QED BY <1>1, <1>2, <1>3, <1>4 DEF Verdict, Checks, EventCreations, EventChecks, CommentChecks,
           FileCreations, FileKindChecks

(* The strengthening: an evaluation that saw one state of the event tried   *)
(* only rules that left the request to others.                              *)
Scanned ==
    at = "scan" /\ seen = {guests} =>
        \A i \in 1..next - 1 : \A rule \in Matching(i) :
            Catalogue[i].key \in policy.caps => Verdict(rule.check) = "other"

RefusedRightly ==
    at = "refused" /\ seen = {guests} /\ ~failed => ~(Needs(guests) \subseteq policy.caps)

SteadyInv == DecisionInv /\ Scanned /\ RefusedRightly

LEMMA InitSteady == Init => SteadyInv
<1> SUFFICES ASSUME Init PROVE SteadyInv
    OBVIOUS
<1>1. 1..next - 1 = {} /\ at = "scan"
    BY DEF Init
<1> QED BY <1>1, InitDecision DEF SteadyInv, Scanned, RefusedRightly

(* One rule of a capability matches, and those tried before it said other. *)
LEMMA TriedSoFar ==
    ASSUME TypeOK, Scanned, at = "scan", seen = {guests}, NEW i \in ToTry, \A j \in ToTry : i <= j,
           NEW rule \in Matching(i), Verdict(rule.check) = "other",
           NEW k \in 1..i, NEW s \in Matching(k), Catalogue[k].key \in policy.caps
    PROVE  Verdict(s.check) = "other"
<1>1. /\ i \in Positions /\ i \in next..Len(Catalogue)
      /\ next \in 1..Len(Catalogue) + 1 /\ Len(Catalogue) \in Nat
    BY ToTryPositions, CatalogueLength DEF TypeOK, ToTry
<1>2. CASE k = i
  <2>1. s = rule
      BY <1>1, <1>2, OneRule DEF Matching, Matches
  <2> QED BY <2>1
<1>3. CASE k < next
  <2>1. k \in 1..next - 1
      BY <1>1, <1>3
  <2> QED BY <2>1 DEF Scanned
<1>4. CASE k # i /\ ~(k < next)
  <2>1. k \in next..Len(Catalogue) /\ ~(i <= k)
      BY <1>1, <1>4
  <2>2. k \in ToTry
      BY <2>1 DEF ToTry
  <2> QED BY <2>1, <2>2
<1> QED BY <1>2, <1>3, <1>4

LEMMA NoRuleMeansUncovered ==
    ASSUME TypeOK, Scanned, at = "scan", seen = {guests}, ToTry = {}
    PROVE  ~(Needs(guests) \subseteq policy.caps)
<1> SUFFICES ASSUME Needs(guests) \subseteq policy.caps PROVE FALSE
    OBVIOUS
<1>1. PICK key, check : Deciding(key, check)
    BY CoveredHasRule
<1>2. PICK j \in Positions : Catalogue[j].key = key /\ \E s \in Matching(j) : s.check = check
    BY <1>1 DEF Deciding
<1>3. j \in 1..Len(Catalogue) /\ next \in 1..Len(Catalogue) + 1 /\ Len(Catalogue) \in Nat
    BY CatalogueLength DEF Positions, TypeOK
<1>4. CASE j < next
  <2>1. j \in 1..next - 1
      BY <1>3, <1>4
  <2> QED BY <1>1, <1>2, <2>1 DEF Scanned, Deciding
<1>5. CASE ~(j < next)
  <2>1. j \in next..Len(Catalogue)
      BY <1>3, <1>5
  <2> QED BY <1>1, <1>2, <2>1 DEF ToTry, Deciding
<1> QED BY <1>4, <1>5

LEMMA StepSteady == SteadyInv /\ [Next]_vars => SteadyInv'
<1> SUFFICES ASSUME SteadyInv, [Next]_vars PROVE SteadyInv'
    OBVIOUS
<1>1. DecisionInv' /\ TypeOK /\ TypeOK'
    BY StepDecision, StepType DEF SteadyInv, DecisionInv
<1>2. UNCHANGED request
    BY DEF Next, TryRule, NoRuleLeft, Decide, GuestsChange, vars, request
<1>3. \A third : Needs(third)' = Needs(third)
    BY <1>2, SameNeeds
<1>4. policy' = policy /\ \A i : Matching(i)' = Matching(i)
    BY <1>2 DEF request, Matching, Matches
<1>5. CASE TryRule
  <2>0. guests' = guests /\ seen' = seen /\ at = "scan"
      BY <1>5 DEF TryRule
  <2>1. PICK i \in ToTry : \E rule \in Matching(i) :
           /\ \A j \in ToTry : i <= j
           /\ next' = i + 1
           /\ \/ Verdict(rule.check) = "yes" /\ at' = "allowed"
              \/ Verdict(rule.check) = "no" /\ at' = "refused"
              \/ Verdict(rule.check) = "other" /\ at' = at
              \/ at' = "refused" /\ failed' = TRUE
      BY <1>5 DEF TryRule
  <2>2. PICK rule \in Matching(i) :
           /\ \A j \in ToTry : i <= j
           /\ next' = i + 1
           /\ \/ Verdict(rule.check) = "yes" /\ at' = "allowed"
              \/ Verdict(rule.check) = "no" /\ at' = "refused"
              \/ Verdict(rule.check) = "other" /\ at' = at
              \/ at' = "refused" /\ failed' = TRUE
      BY <2>1
  <2>3. CASE Verdict(rule.check) = "yes" /\ at' = "allowed"
      BY <1>1, <2>3 DEF SteadyInv, Scanned, RefusedRightly
  <2>4. CASE Verdict(rule.check) = "no" /\ at' = "refused"
    <3>1. ~(Needs(guests) \subseteq policy.caps)
        BY <1>1, <2>4, ToTryPositions, NoMeansUncovered
    <3> QED BY <1>1, <1>3, <1>4, <2>0, <2>4, <3>1 DEF SteadyInv, Scanned, RefusedRightly
  <2>5. CASE Verdict(rule.check) = "other" /\ at' = at
    <3>1. ASSUME seen = {guests}, NEW k \in 1..next' - 1, NEW s \in Matching(k),
                 Catalogue[k].key \in policy.caps
          PROVE  Verdict(s.check)' = "other"
      <4>1. i \in 1..Len(Catalogue) /\ Len(Catalogue) \in Nat
          BY <1>1, ToTryPositions, CatalogueLength DEF Positions
      <4>2. k \in 1..i /\ k \in Positions
          BY <2>2, <4>1 DEF Positions
      <4>3. Verdict(s.check) = "other"
          BY <1>1, <2>0, <2>2, <2>5, <3>1, <4>2, TriedSoFar DEF SteadyInv
      <4>4. s.check \in Checks
          BY <4>2, RuleFacts
      <4> QED BY <1>1, <1>2, <2>0, <4>3, <4>4, SameVerdict
    <3>2. Scanned'
        BY <1>4, <2>0, <3>1 DEF Scanned
    <3> QED BY <1>1, <2>0, <2>5, <3>2 DEF SteadyInv, RefusedRightly
  <2>6. CASE at' = "refused" /\ failed' = TRUE
      BY <1>1, <2>6 DEF SteadyInv, Scanned, RefusedRightly
  <2> QED BY <2>2, <2>3, <2>4, <2>5, <2>6
<1>6. CASE NoRuleLeft
  <2>1. guests' = guests /\ seen' = seen /\ at = "scan" /\ at' = "refused" /\ ToTry = {}
      BY <1>6 DEF NoRuleLeft
  <2>2. seen = {guests} => ~(Needs(guests) \subseteq policy.caps)
      BY <1>1, <2>1, NoRuleMeansUncovered DEF SteadyInv
  <2> QED BY <1>1, <1>3, <1>4, <2>1, <2>2 DEF SteadyInv, Scanned, RefusedRightly
<1>7. CASE Decide
  <2>1. at' \in {"unapproved", "forwarded"}
      BY <1>7 DEF Decide
  <2> QED BY <1>1, <2>1 DEF SteadyInv, Scanned, RefusedRightly
<1>8. CASE GuestsChange
  <2>1. seen' # {guests'}
      BY <1>1, <1>8 DEF GuestsChange, SteadyInv, DecisionInv, TypeOK
  <2> QED BY <1>1, <2>1 DEF SteadyInv, Scanned, RefusedRightly
<1>9. CASE UNCHANGED vars
  <2>1. /\ guests' = guests /\ seen' = seen /\ at' = at /\ next' = next /\ failed' = failed
      BY <1>9 DEF vars
  <2>2. ASSUME NEW k \in 1..next - 1, NEW s \in Matching(k)
        PROVE  Verdict(s.check)' = Verdict(s.check)
    <3>1. k \in Positions
        BY <1>1, CatalogueLength DEF TypeOK, Positions
    <3>2. s.check \in Checks
        BY <3>1, RuleFacts
    <3> QED BY <1>1, <1>2, <2>1, <3>2, SameVerdict
  <2>3. Scanned'
      BY <1>4, <2>1, <2>2 DEF SteadyInv, Scanned
  <2> QED BY <1>1, <1>3, <1>4, <2>1, <2>3 DEF SteadyInv, RefusedRightly
<1> QED BY <1>5, <1>6, <1>7, <1>8, <1>9 DEF Next

(***************************************************************************)
(* While the event stays as it is and Google answers, a request passes the *)
(* rules exactly when the policy covers what it needs: no other capability *)
(* that is enabled, and no place in the catalogue, makes a difference.     *)
(***************************************************************************)
THEOREM SteadyDecisionHolds == Spec => []SteadyDecision
<1>1. Init => SteadyInv BY InitSteady
<1>2. SteadyInv /\ [Next]_vars => SteadyInv' BY StepSteady
<1>3. SteadyInv => SteadyDecision
  <2> SUFFICES ASSUME SteadyInv, NEW third \in BOOLEAN, at \in Outcomes, seen = {third}, ~failed
               PROVE  at = "refused" <=> ~(Needs(third) \subseteq policy.caps)
      BY DEF SteadyDecision
  <2>1. third = guests /\ seen = {guests}
      BY DEF SteadyInv, DecisionInv
  <2>2. CASE at = "refused"
      BY <2>1, <2>2 DEF SteadyInv, RefusedRightly
  <2>3. CASE at \in {"forwarded", "unapproved"}
      BY <2>1, <2>3 DEF SteadyInv, DecisionInv, Borne
  <2> QED BY <2>2, <2>3 DEF Outcomes
<1> QED BY <1>1, <1>2, <1>3, PTL DEF Spec
=============================================================================
