---------------------------- MODULE PolicyEngine ----------------------------
(***************************************************************************)
(* The decision on one relay request: the rules of the enabled             *)
(* capabilities are tried in the order of the catalogue, some of them      *)
(* after looking at the object at Google, and a capability marked for      *)
(* review lets nothing through without the human approval header.          *)
(*                                                                         *)
(* Every rule that looks at an object asks Google again, so what one       *)
(* evaluation sees may change between its rules: the guests of an event    *)
(* do.  An object's type and author do not change.                         *)
(***************************************************************************)
EXTENDS PolicyCatalog

CONSTANTS
    Operations,   \* the requests clients send (bound)
    Selections    \* by request, the policy forms posted before it (bound)

VARIABLES
    op,        \* the request
    approval,  \* it carries X-AIWP-Human-Approval
    policy,    \* the stored policy of the grant: enabled and reviewed keys
    guests,    \* at Google: the event involves third parties
    at,        \* where the handler stands
    next,      \* position of the first capability whose rules were not tried
    decided,   \* position of the capability that let the request through, or 0
    seen,      \* history: the values of guests since the request came
    failed     \* history: a look-up at Google failed

request == <<op, approval, policy>>
vars == <<request, guests, at, next, decided, seen, failed>>

(* What a request says beyond method and path, as a set of marks: label     *)
(* ids, "guests" of the requested event, an action or a resolved state of a *)
(* comment, the type of the file that is created or addressed (none: one of *)
(* the other types), an object somebody else wrote, a malformed body.       *)
Labels == {"INBOX", "SPAM", "TRASH", "UNREAD", "STARRED", "IMPORTANT", "SENT", "Label_1"}
FileKinds == {"docs", "sheets", "slides", "google_native"}
Marks == Labels \union FileKinds \union
         {"malformed", "guests", "resolve", "other action", "resolved", "not own",
          "empty body", "system label", "reserved name"}

Operation == [method : {"GET", "POST", "PUT", "PATCH", "DELETE"}, path : STRING,
              marks : SUBSET Marks]
Selection == [caps : SUBSET STRING, review : SUBSET STRING]
Policy == [caps : SUBSET Keys, review : SUBSET Keys]
Outcomes == {"forwarded", "refused", "unapproved"}

ASSUME EngineAssumption ==
    /\ Operations \subseteq Operation
    /\ Selections \in [Operations -> SUBSET Selection]

TypeOK ==
    /\ op \in Operations
    /\ approval \in BOOLEAN
    /\ policy \in Policy
    /\ policy.review \subseteq policy.caps
    /\ guests \in BOOLEAN
    /\ at \in Outcomes \union {"scan", "allowed"}
    /\ next \in 1..Len(Catalogue) + 1
    /\ decided \in 0..Len(Catalogue)
    /\ seen \subseteq BOOLEAN
    /\ failed \in BOOLEAN

-----------------------------------------------------------------------------
(* Mutant: review marks are stored whatever is enabled. *)
StoredUnfiltered(s) == [caps |-> s.caps \intersect Keys, review |-> s.review \intersect Keys]

(* SaveUserPolicy: keys that are not in the catalogue are dropped, and so   *)
(* are review marks on capabilities that are not enabled.                   *)
Stored(s) == [caps |-> s.caps \intersect Keys, review |-> s.caps \intersect s.review \intersect Keys]

(* policyFromAPIRequest: the API refuses such requests instead, and then    *)
(* saves in the same way.                                                   *)
ApiAccepts(s) == s.caps \subseteq Keys /\ s.review \subseteq s.caps

(* policyEngineForPolicy: the system policy has the defaults, unreviewed. *)
SystemPolicy == [caps |-> SystemDefaultCapabilityKeys, review |-> {}]

Init ==
    /\ op \in Operations
    /\ approval \in BOOLEAN
    /\ \/ policy = SystemPolicy
       \/ \E s \in Selections[op] : policy = Stored(s) \/ (ApiAccepts(s) /\ policy = s)
    /\ guests \in BOOLEAN
    /\ at = "scan"
    /\ next = 1
    /\ decided = 0
    /\ seen = {guests}
    /\ failed = FALSE

-----------------------------------------------------------------------------
(* The body policies.  "yes" lets the request through, "no" refuses it at   *)
(* once, "other" leaves it to the rules after this one.                     *)

(* gmailLabelEffectCapability; "never" for a label no capability covers. *)
LabelEffect(label) ==
    CASE label = "INBOX" -> "gmail_messages_archive"
      [] label = "SPAM" -> "gmail_messages_spam"
      [] label = "TRASH" -> "gmail_messages_trash"
      [] label \in {"UNREAD", "STARRED", "IMPORTANT"} -> "gmail_messages_status"
      [] label = "Label_1" -> "gmail_labels_apply_custom"
      [] OTHER -> "never"

Effects == {LabelEffect(l) : l \in op.marks \intersect Labels}

(* Mutant: one enabled effect is enough. *)
LabelModifySome ==
    IF "malformed" \notin op.marks /\ Effects \intersect policy.caps # {} THEN "yes" ELSE "no"

(* validateGmailLabelModifyPolicy: every effect must be enabled. *)
LabelModify ==
    IF "malformed" \notin op.marks /\ Effects # {} /\ Effects \subseteq policy.caps
    THEN "yes" ELSE "no"

(* validateGmailLabelCreateRenamePolicy and validateGmailLabelDeletePolicy: *)
(* a system label is neither renamed nor deleted, a reserved name not given.*)
LabelCreateRename ==
    IF op.marks \intersect {"system label", "empty body", "malformed", "reserved name"} = {}
    THEN "yes" ELSE "no"

LabelDelete == IF "system label" \in op.marks THEN "no" ELSE "yes"

(* Mutant: a mismatch refuses the request at once. *)
MatchOrRefuse(got, want) == IF got = want THEN "yes" ELSE "no"

(* matchCalendarThirdPartyPolicy, matchDriveFileKindPolicy *)
Match(got, want) == IF got = want THEN "yes" ELSE "other"

(* evaluateCalendarEventCreatePolicy *)
EventCreate(third) ==
    IF "malformed" \in op.marks THEN "no" ELSE Match("guests" \in op.marks, third)

(* Mutant: only the event as it is at Google is looked at. *)
EventExistingOnly(third) ==
    IF "malformed" \in op.marks THEN "no" ELSE Match(guests, third)

(* evaluateCalendarEventExistingPolicy: the event at Google or, of an       *)
(* update, the request.                                                     *)
EventExisting(third) ==
    IF "malformed" \in op.marks THEN "no" ELSE Match(guests \/ "guests" \in op.marks, third)

EventDeleted(third) == Match(guests, third)

(* evaluateDriveReplyActionPolicy *)
ReplyAction(resolve) ==
    IF op.marks \intersect {"malformed", "other action"} # {} THEN "no"
    ELSE Match("resolve" \in op.marks, resolve)

(* evaluateDriveCommentOwnershipPolicy: an edit neither resolves nor        *)
(* reopens, and only the connected user's own comments are changed.         *)
CommentEditRefused ==
    /\ op.method \in {"PATCH", "PUT"}
    /\ op.marks \intersect {"malformed", "other action", "resolve", "resolved"} # {}

CommentOwned == IF CommentEditRefused \/ "not own" \in op.marks THEN "no" ELSE "yes"

(* drivePolicyKindFromMime of the created or addressed file *)
Kind == IF op.marks \intersect FileKinds = {} THEN "drive"
        ELSE CHOOSE k \in FileKinds : k \in op.marks

FileCreate(kind) == IF "malformed" \in op.marks THEN "no" ELSE Match(Kind, kind)

(* evaluateDriveFileKindPolicy: the trash is never emptied. *)
FileKind(kind) == IF op.path = "files/trash" THEN "no" ELSE Match(Kind, kind)

(* defaultBodyPolicies *)
Verdict(check) ==
    CASE check = "none" -> "yes"
      [] check = "gmail_label_modify" -> LabelModify
      [] check = "gmail_label_create_rename" -> LabelCreateRename
      [] check = "gmail_label_delete" -> LabelDelete
      [] check = "calendar_event_create_self" -> EventCreate(FALSE)
      [] check = "calendar_event_create_guests" -> EventCreate(TRUE)
      [] check = "calendar_event_update_self" -> EventExisting(FALSE)
      [] check = "calendar_event_update_guests" -> EventExisting(TRUE)
      [] check = "calendar_event_delete_self" -> EventDeleted(FALSE)
      [] check = "calendar_event_delete_guests" -> EventDeleted(TRUE)
      [] check = "drive_comment_reply" -> ReplyAction(FALSE)
      [] check = "drive_comment_resolve" -> ReplyAction(TRUE)
      [] check = "drive_comment_owned" -> CommentOwned
      [] check = "drive_file_create_drive" -> FileCreate("drive")
      [] check = "drive_file_create_docs" -> FileCreate("docs")
      [] check = "drive_file_create_sheets" -> FileCreate("sheets")
      [] check = "drive_file_create_slides" -> FileCreate("slides")
      [] check = "drive_file_kind_drive" -> FileKind("drive")
      [] check = "drive_file_kind_docs" -> FileKind("docs")
      [] check = "drive_file_kind_sheets" -> FileKind("sheets")
      [] check = "drive_file_kind_slides" -> FileKind("slides")

(* The body policies that look an object up at Google. *)
AsksGoogle(check) ==
    \/ check \in EventChecks
    \/ check = "drive_comment_owned" /\ ~CommentEditRefused
    \/ check \in FileKindChecks /\ op.path # "files/trash"

-----------------------------------------------------------------------------
(* MatchString: the path of the Drive trash is a file path like any other. *)
Matches(rule, o) ==
    /\ rule.method = o.method
    /\ rule.path = IF o.path = "files/trash" THEN "files/*" ELSE o.path

Matching(i) == {rule \in Catalogue[i].rules : Matches(rule, op)}

(* NewPolicyEngineWithReview: the capabilities still to be tried.  At most   *)
(* one rule of a capability matches a request.                               *)
ToTry == {i \in next..Len(Catalogue) : Catalogue[i].key \in policy.caps /\ Matching(i) # {}}

(* One turn of EvaluateDecision's loop: the rule lets the request through,  *)
(* refuses it, or leaves it to the next; or a look-up it makes fails.       *)
TryRule ==
    /\ at = "scan"
    /\ \E i \in ToTry : \E rule \in Matching(i) :
         /\ \A j \in ToTry : i <= j
         /\ next' = i + 1
         /\ \/ /\ Verdict(rule.check) = "yes"
               /\ at' = "allowed"
               /\ decided' = i
               /\ UNCHANGED failed
            \/ /\ Verdict(rule.check) = "no"
               /\ at' = "refused"
               /\ UNCHANGED <<decided, failed>>
            \/ /\ Verdict(rule.check) = "other"
               /\ UNCHANGED <<at, decided, failed>>
            \/ /\ AsksGoogle(rule.check)
               /\ at' = "refused"
               /\ failed' = TRUE
               /\ UNCHANGED decided
    /\ UNCHANGED <<request, guests, seen>>

(* The loop ends: no enabled capability allows this operation. *)
NoRuleLeft ==
    /\ at = "scan"
    /\ ToTry = {}
    /\ at' = "refused"
    /\ UNCHANGED <<request, guests, next, decided, seen, failed>>

(* Mutant: the review mark is looked up under the capability tried next. *)
DecideByNext ==
    /\ at = "allowed"
    /\ at' = IF /\ next \in Positions
                /\ Catalogue[next].key \in policy.review
                /\ ~approval
             THEN "unapproved" ELSE "forwarded"
    /\ UNCHANGED <<request, guests, next, decided, seen, failed>>

(* handleProxyRelay on the decision: a reviewed capability needs the header. *)
Decide ==
    /\ at = "allowed"
    /\ at' = IF Catalogue[decided].key \in policy.review /\ ~approval
             THEN "unapproved" ELSE "forwarded"
    /\ UNCHANGED <<request, guests, next, decided, seen, failed>>

(* Somebody invites a guest to the event, or the last one leaves. *)
GuestsChange ==
    /\ at = "scan"
    /\ \E i \in Positions : \E rule \in Matching(i) : rule.check \in EventChecks
    /\ guests' = ~guests
    /\ seen' = seen \union {guests'}
    /\ UNCHANGED <<request, at, next, decided, failed>>

Next == TryRule \/ NoRuleLeft \/ Decide \/ GuestsChange

Spec == Init /\ [][Next]_vars

-----------------------------------------------------------------------------
(* What a request needs, said without the engine: the permissions its       *)
(* effects fall under by their descriptions in the console, "never" when    *)
(* none covers it.                                                          *)
Only(key, condition) == IF condition THEN {key} ELSE {"never"}
ByGuests(third, withGuests, self) == IF third THEN {withGuests} ELSE {self}

ByKind(docs, sheets, slides, drive) ==
    CASE Kind = "docs" -> {docs} [] Kind = "sheets" -> {sheets} [] Kind = "slides" -> {slides}
      [] Kind = "drive" -> {drive} [] OTHER -> {"never"}

(* A request without body or object: the one capability that lists it. *)
NeedsOfPlain ==
    LET keys == {Catalogue[i].key : i \in {j \in Positions : Matching(j) # {}}}
    IN  IF keys = {} THEN {"never"} ELSE keys

NeedsOfLabelChange ==
    IF "malformed" \in op.marks \/ Effects = {} THEN {"never"} ELSE Effects

NeedsOfLabel ==
    IF op.method = "DELETE" THEN Only("gmail_labels_delete", "system label" \notin op.marks)
    ELSE Only("gmail_labels_create_rename",
              op.marks \intersect {"system label", "reserved name", "empty body", "malformed"} = {})

NeedsOfEvent(third) ==
    CASE op.method = "DELETE" ->
           ByGuests(third, "calendar_events_delete_guests", "calendar_events_delete_self")
      [] op.method # "DELETE" /\ "malformed" \in op.marks -> {"never"}
      [] op.method = "POST" /\ "malformed" \notin op.marks ->
           ByGuests("guests" \in op.marks, "calendar_events_create_guests", "calendar_events_create_self")
      [] OTHER ->
           ByGuests(third \/ "guests" \in op.marks,
                    "calendar_events_update_guests", "calendar_events_update_self")

NeedsOfComment ==
    CASE op.method = "DELETE" -> Only("drive_comments_delete", "not own" \notin op.marks)
      [] op.method \in {"PATCH", "PUT"} ->
           Only("drive_comments_update",
                op.marks \intersect {"not own", "malformed", "other action", "resolve", "resolved"} = {})
      [] OTHER ->
           IF op.marks \intersect {"malformed", "other action"} # {} THEN {"never"}
           ELSE IF "resolve" \in op.marks THEN {"drive_comments_resolve"}
           ELSE {"drive_comments_reply"}

NeedsOfCreation ==
    IF "malformed" \in op.marks THEN {"never"}
    ELSE ByKind("docs_create", "sheets_create", "slides_create", "drive_files_create")

NeedsOfFile ==
    CASE op.path = "files/trash" -> {"never"}
      [] op.path = "files" -> NeedsOfCreation
      [] op.path = "files/*/export" -> ByKind("docs_read", "sheets_read", "slides_read", "never")
      [] op.path = "files/*/copy" -> ByKind("never", "never", "never", "drive_files_create")
      [] op.path \in {"files/*", "upload/files/*"} ->
           CASE op.method = "DELETE" ->
                  ByKind("docs_delete", "sheets_delete", "slides_delete", "drive_files_delete")
             [] op.method = "GET" -> ByKind("never", "never", "never", "drive_files_read")
             [] OTHER -> ByKind("never", "never", "never", "drive_files_update")

(* The classes of the rules for a request; they are one (OneClass). *)
Classes == UNION {{Class(rule.check) : rule \in Matching(i)} : i \in Positions}

Needs(third) ==
    CASE "label change" \in Classes -> NeedsOfLabelChange
      [] "label" \in Classes -> NeedsOfLabel
      [] "event" \in Classes -> NeedsOfEvent(third)
      [] "comment" \in Classes -> NeedsOfComment
      [] "file" \in Classes -> NeedsOfFile
      [] OTHER -> NeedsOfPlain

-----------------------------------------------------------------------------
(* The policy covered all that a forwarded request does, at some moment of  *)
(* the evaluation: no order of rules, no change of the event between two    *)
(* look-ups and no failure of one lets more through.                        *)
ForwardedWasPermitted ==
    at = "forwarded" => \E third \in seen : Needs(third) \subseteq policy.caps

(* Nor less: when the event stays as it is and Google answers, the request  *)
(* passes the rules exactly when the policy covers it, whichever other      *)
(* capabilities are enabled and wherever they stand in the catalogue.       *)
SteadyDecision ==
    \A third \in BOOLEAN :
        at \in Outcomes /\ seen = {third} /\ ~failed =>
            (at = "refused" <=> ~(Needs(third) \subseteq policy.caps))

(* A request other than a change of labels carried an approval when what it *)
(* needs is marked for review, although other enabled capabilities have     *)
(* rules for the same path; and it was not stopped for an approval that     *)
(* what it needs does not ask for.                                          *)
ReviewFollowsNeed ==
    "label change" \notin Classes =>
        /\ at = "forwarded" => \E third \in seen : Needs(third) \intersect policy.review # {} => approval
        /\ at = "unapproved" => \E third \in seen : Needs(third) \intersect policy.review # {}

(* "Human-review-required policy permissions enforce a non-empty approval   *)
(* explanation before forwarding": every reviewed permission a request      *)
(* needs, also when it needs several.                                       *)
EveryReviewIsAsked ==
    at = "forwarded" => \E third \in seen :
        Needs(third) \intersect policy.review # {} => approval
=============================================================================
