--------------------------- MODULE PolicyCatalog ---------------------------
(***************************************************************************)
(* The catalogue of permissions a policy chooses from: for every           *)
(* capability its key, whether the system policy has it, and the rules by  *)
(* which it lets requests through.  A rule names an HTTP method, a path    *)
(* and, for some, a check of the request's body or of the object at Google.*)
(*                                                                         *)
(* A path regular expression is written as a pattern, a star standing for  *)
(* one path segment and two stars for the rest of the path.  Two patterns  *)
(* of one method never match the same request, with one exception: the     *)
(* fixed path of the Drive trash is also a file path.  Titles, groups and  *)
(* descriptions are left out.                                              *)
(***************************************************************************)
EXTENDS Sequences, Integers

Plain(method, paths) == {[method |-> method, path |-> p, check |-> "none"] : p \in paths}
Checked(method, paths, check) == {[method |-> method, path |-> p, check |-> check] : p \in paths}

(* A capability of a custom policy, and one the system policy has too. *)
Cap(key, rules) == <<[key |-> key, systemDefault |-> FALSE, rules |-> rules]>>
DefaultCap(key, rules) == <<[key |-> key, systemDefault |-> TRUE, rules |-> rules]>>

-----------------------------------------------------------------------------
ModifyPaths == {"gmail/messages/*/modify", "gmail/messages/batchModify", "gmail/threads/*/modify"}
LabelChange == Checked("POST", ModifyPaths, "gmail_label_modify")

GmailReading ==
    DefaultCap("gmail_profile_read", Plain("GET", {"gmail/profile", "gmail/history"}))
    \o DefaultCap("gmail_messages_read",
         Plain("GET", {"gmail/messages", "gmail/messages/*", "gmail/messages/*/attachments/*",
                       "gmail/threads", "gmail/threads/*"}))
    \o DefaultCap("gmail_drafts_read", Plain("GET", {"gmail/drafts", "gmail/drafts/*"}))
    \o DefaultCap("gmail_labels_read", Plain("GET", {"gmail/labels", "gmail/labels/*"}))
    \o DefaultCap("contacts_read",
         Plain("GET", {"people:searchContacts", "people:searchDirectoryPeople",
                       "otherContacts:search"}))

GmailWriting ==
    Cap("gmail_drafts_write", Plain("POST", {"gmail/drafts"}) \union Plain("PUT", {"gmail/drafts/*"}))
    \o Cap("gmail_drafts_delete", Plain("DELETE", {"gmail/drafts/*"}))
    \o Cap("gmail_send", Plain("POST", {"gmail/messages/send", "gmail/drafts/send"}))
    \o Cap("gmail_labels_apply_custom", LabelChange)
    \o Cap("gmail_messages_archive", LabelChange)
    \o Cap("gmail_messages_status", LabelChange)
    \o Cap("gmail_messages_spam", LabelChange)
    \o Cap("gmail_messages_trash",
         LabelChange \union
         Plain("POST", {"gmail/messages/*/trash", "gmail/messages/*/untrash",
                        "gmail/threads/*/trash", "gmail/threads/*/untrash"}))

GmailManaging ==
    Cap("gmail_labels_create_rename",
        Checked("POST", {"gmail/labels"}, "gmail_label_create_rename") \union
        Checked("PATCH", {"gmail/labels/*"}, "gmail_label_create_rename") \union
        Checked("PUT", {"gmail/labels/*"}, "gmail_label_create_rename"))
    \o Cap("gmail_labels_delete", Checked("DELETE", {"gmail/labels/*"}, "gmail_label_delete"))
    \o Cap("gmail_messages_delete",
         Plain("DELETE", {"gmail/messages/*"}) \union Plain("POST", {"gmail/messages/batchDelete"}))
    \o Cap("gmail_messages_import", Plain("POST", {"gmail/messages/import", "gmail/messages"}))
    \o Cap("gmail_watch_manage", Plain("POST", {"gmail/watch", "gmail/stop"}))

CalendarEvents ==
    LET events == "calendars/*/events"
        event  == "calendars/*/events/*"
        creations == {events, "calendars/*/events/import"}
    IN
    DefaultCap("calendar_read",
        Plain("GET", {"users/calendarList", "users/calendarList/*", "calendars/*", events, event,
                      "calendars/*/events/*/instances"}) \union Plain("POST", {"freeBusy"}))
    \o Cap("calendar_events_create_self", Checked("POST", creations, "calendar_event_create_self"))
    \o Cap("calendar_events_create_guests", Checked("POST", creations, "calendar_event_create_guests"))
    \o Cap("calendar_events_update_self",
         Checked("PATCH", {event}, "calendar_event_update_self") \union
         Checked("PUT", {event}, "calendar_event_update_self"))
    \o Cap("calendar_events_update_guests",
         Checked("PATCH", {event}, "calendar_event_update_guests") \union
         Checked("PUT", {event}, "calendar_event_update_guests") \union
         Plain("POST", {"calendars/*/events/*/move"}))
    \o Cap("calendar_events_delete_self", Checked("DELETE", {event}, "calendar_event_delete_self"))
    \o Cap("calendar_events_delete_guests", Checked("DELETE", {event}, "calendar_event_delete_guests"))

CalendarManaging ==
    LET entries == {"calendars/*", "users/calendarList/*"}
        acl == {"calendars/*/acl/*"}
    IN
    Cap("calendar_calendars_manage",
        Plain("POST", {"calendars", "calendars/*/clear", "users/calendarList"}) \union
        Plain("PATCH", entries) \union Plain("PUT", entries) \union Plain("DELETE", entries))
    \o DefaultCap("calendar_access_read", Plain("GET", {"calendars/*/acl", "calendars/*/acl/*"}))
    \o Cap("calendar_access_manage",
         Plain("POST", {"calendars/*/acl", "calendars/*/acl/watch"}) \union
         Plain("PATCH", acl) \union Plain("PUT", acl) \union Plain("DELETE", acl))
    \o Cap("calendar_settings_read", Plain("GET", {"users/settings", "users/settings/*"}))

DriveFiles ==
    LET file == {"files/*"} IN
    DefaultCap("drive_files_read", Checked("GET", file, "drive_file_kind_drive"))
    \o Cap("drive_files_create",
         Checked("POST", {"files"}, "drive_file_create_drive") \union
         Checked("POST", {"files/*/copy"}, "drive_file_kind_drive"))
    \o Cap("drive_files_update",
         Checked("PATCH", {"files/*", "upload/files/*"}, "drive_file_kind_drive") \union
         Checked("PUT", file, "drive_file_kind_drive"))
    \o Cap("drive_files_delete", Checked("DELETE", file, "drive_file_kind_drive"))
    \o DefaultCap("drive_permissions_read",
         Plain("GET", {"files/*/permissions", "files/*/permissions/*"}))
    \o Cap("drive_permissions_manage",
         Plain("POST", {"files/*/permissions"}) \union
         Plain("PATCH", {"files/*/permissions/*"}) \union
         Plain("PUT", {"files/*/permissions/*"}) \union
         Plain("DELETE", {"files/*/permissions/*"}))

DriveComments ==
    LET replies == "files/*/comments/*/replies"
        owned == {"files/*/comments/*", "files/*/comments/*/replies/*"}
    IN
    DefaultCap("drive_comments_read", Plain("GET", {"files/*/comments", replies} \union owned))
    \o Cap("drive_comments_create", Plain("POST", {"files/*/comments"}))
    \o Cap("drive_comments_reply", Checked("POST", {replies}, "drive_comment_reply"))
    \o Cap("drive_comments_resolve", Checked("POST", {replies}, "drive_comment_resolve"))
    \o Cap("drive_comments_update",
         Checked("PATCH", owned, "drive_comment_owned") \union
         Checked("PUT", owned, "drive_comment_owned"))
    \o Cap("drive_comments_delete", Checked("DELETE", owned, "drive_comment_owned"))
    \o DefaultCap("drive_metadata_read",
         Plain("GET", {"changes/startPageToken", "changes", "files", "about", "drives", "drives/*",
                       "apps", "apps/*", "files/*/listLabels", "files/*/revisions",
                       "files/*/revisions/*"}))
    \o Cap("drive_labels_update", Plain("POST", {"files/*/modifyLabels"}))
    \o Cap("drive_revisions_delete", Plain("DELETE", {"files/*/revisions/*"}))

Docs ==
    DefaultCap("docs_read",
        Plain("GET", {"documents/*"}) \union
        Checked("GET", {"files/*/export"}, "drive_file_kind_docs"))
    \o Cap("docs_create",
         Plain("POST", {"documents"}) \union Checked("POST", {"files"}, "drive_file_create_docs"))
    \o Cap("docs_edit", Plain("POST", {"documents/*:batchUpdate"}))
    \o Cap("docs_delete", Checked("DELETE", {"files/*"}, "drive_file_kind_docs"))

Sheets ==
    DefaultCap("sheets_read",
        Plain("GET", {"spreadsheets/*", "spreadsheets/*/values/**", "spreadsheets/*/values:batchGet",
                      "spreadsheets/*/developerMetadata/*"}) \union
        Plain("POST", {"spreadsheets/*:getByDataFilter",
                       "spreadsheets/*/values:batchGetByDataFilter",
                       "spreadsheets/*/developerMetadata:search"}) \union
        Checked("GET", {"files/*/export"}, "drive_file_kind_sheets"))
    \o Cap("sheets_create",
         Plain("POST", {"spreadsheets"}) \union Checked("POST", {"files"}, "drive_file_create_sheets"))
    \o Cap("sheets_edit",
         Plain("PUT", {"spreadsheets/*/values/**"}) \union
         Plain("POST", {"spreadsheets/*:batchUpdate", "spreadsheets/*/values/**:append",
                        "spreadsheets/*/values:batchUpdate", "spreadsheets/*/values/**:clear",
                        "spreadsheets/*/values:batchUpdateByDataFilter",
                        "spreadsheets/*/values:batchClear",
                        "spreadsheets/*/values:batchClearByDataFilter",
                        "spreadsheets/*/sheets/*:copyTo"}))
    \o Cap("sheets_delete", Checked("DELETE", {"files/*"}, "drive_file_kind_sheets"))

Slides ==
    DefaultCap("slides_read",
        Plain("GET", {"presentations/*", "presentations/*/pages/*",
                      "presentations/*/pages/*/thumbnail"}) \union
        Checked("GET", {"files/*/export"}, "drive_file_kind_slides"))
    \o Cap("slides_create",
         Plain("POST", {"presentations"}) \union
         Checked("POST", {"files"}, "drive_file_create_slides"))
    \o Cap("slides_edit", Plain("POST", {"presentations/*:batchUpdate"}))
    \o Cap("slides_delete", Checked("DELETE", {"files/*"}, "drive_file_kind_slides"))

(* PolicyCatalog, in the order in which the engine tries the rules. *)
Catalogue ==
    GmailReading \o GmailWriting \o GmailManaging \o CalendarEvents \o CalendarManaging
    \o DriveFiles \o DriveComments \o Docs \o Sheets \o Slides

-----------------------------------------------------------------------------
Positions == 1..Len(Catalogue)
Keys == {Catalogue[i].key : i \in Positions}
SystemDefaultCapabilityKeys == {Catalogue[i].key : i \in {j \in Positions : Catalogue[j].systemDefault}}

(* The keys scored as Low risk. *)
LowRisk ==
    {"gmail_messages_read", "gmail_drafts_read", "gmail_profile_read", "gmail_labels_read",
     "calendar_read", "calendar_access_read", "calendar_events_create_self", "drive_files_read",
     "drive_permissions_read", "drive_comments_read", "drive_metadata_read", "docs_read",
     "sheets_read", "slides_read", "contacts_read"}

(* ValidatePolicyCatalog, at start-up: no key twice, and every scored key   *)
(* is in the catalogue.                                                     *)
ASSUME CatalogueIsValid ==
    /\ \A i, j \in Positions : Catalogue[i].key = Catalogue[j].key => i = j
    /\ LowRisk \subseteq Keys

-----------------------------------------------------------------------------
(* The body policies by what they look at. *)
EventCreations == {"calendar_event_create_self", "calendar_event_create_guests"}
EventChecks == {"calendar_event_update_self", "calendar_event_update_guests",
                "calendar_event_delete_self", "calendar_event_delete_guests"}
CommentChecks == {"drive_comment_reply", "drive_comment_resolve", "drive_comment_owned"}
FileCreations == {"drive_file_create_drive", "drive_file_create_docs",
                  "drive_file_create_sheets", "drive_file_create_slides"}
FileKindChecks == {"drive_file_kind_drive", "drive_file_kind_docs",
                   "drive_file_kind_sheets", "drive_file_kind_slides"}

Class(check) ==
    CASE check = "none" -> "plain"
      [] check = "gmail_label_modify" -> "label change"
      [] check \in {"gmail_label_create_rename", "gmail_label_delete"} -> "label"
      [] check \in EventCreations \union EventChecks -> "event"
      [] check \in CommentChecks -> "comment"
      [] check \in FileCreations \union FileKindChecks -> "file"

(* What the proofs rely on, facts about the catalogue which TLC evaluates:  *)
(* it is a sequence of capabilities; the rules for one request are of one   *)
(* class; a request without a check has one capability; a check is used by  *)
(* these capabilities, for these methods and paths, and by all of them; and *)
(* "never", which stands for what no capability covers, is the key of none. *)
Checks == {"none", "gmail_label_modify", "gmail_label_create_rename", "gmail_label_delete"}
          \union EventCreations \union EventChecks \union CommentChecks
          \union FileCreations \union FileKindChecks
Rule == [method : STRING, path : STRING, check : Checks]
Capability == [key : STRING, systemDefault : BOOLEAN, rules : SUBSET Rule]

ASSUME CatalogueIsSequence == Catalogue \in Seq(Capability)

ASSUME OneClass ==
    \A i, j \in Positions : \A r \in Catalogue[i].rules, s \in Catalogue[j].rules :
        r.method = s.method /\ r.path = s.path =>
            /\ Class(r.check) = Class(s.check)
            /\ r.check = "none" => i = j

(* The capabilities that one change of labels may need. *)
LabelEffectKeys == {"gmail_messages_archive", "gmail_messages_spam", "gmail_messages_trash",
                    "gmail_messages_status", "gmail_labels_apply_custom"}

UsedFor(check, key, method, path) ==
    CASE check = "none" -> TRUE
      [] check = "gmail_label_modify" -> key \in LabelEffectKeys
      [] check = "gmail_label_create_rename" ->
           key = "gmail_labels_create_rename" /\ method # "DELETE"
      [] check = "gmail_label_delete" -> key = "gmail_labels_delete" /\ method = "DELETE"
      [] check = "calendar_event_create_self" ->
           key = "calendar_events_create_self" /\ method = "POST"
      [] check = "calendar_event_create_guests" ->
           key = "calendar_events_create_guests" /\ method = "POST"
      [] check = "calendar_event_update_self" ->
           key = "calendar_events_update_self" /\ method \in {"PATCH", "PUT"}
      [] check = "calendar_event_update_guests" ->
           key = "calendar_events_update_guests" /\ method \in {"PATCH", "PUT"}
      [] check = "calendar_event_delete_self" ->
           key = "calendar_events_delete_self" /\ method = "DELETE"
      [] check = "calendar_event_delete_guests" ->
           key = "calendar_events_delete_guests" /\ method = "DELETE"
      [] check = "drive_comment_reply" -> key = "drive_comments_reply" /\ method = "POST"
      [] check = "drive_comment_resolve" -> key = "drive_comments_resolve" /\ method = "POST"
      [] check = "drive_comment_owned" ->
           \/ key = "drive_comments_update" /\ method \in {"PATCH", "PUT"}
           \/ key = "drive_comments_delete" /\ method = "DELETE"
      [] check = "drive_file_create_drive" -> key = "drive_files_create" /\ path = "files"
      [] check = "drive_file_create_docs" -> key = "docs_create" /\ path = "files"
      [] check = "drive_file_create_sheets" -> key = "sheets_create" /\ path = "files"
      [] check = "drive_file_create_slides" -> key = "slides_create" /\ path = "files"
      [] check = "drive_file_kind_drive" ->
           \/ key = "drive_files_read" /\ path = "files/*" /\ method = "GET"
           \/ key = "drive_files_create" /\ path = "files/*/copy"
           \/ key = "drive_files_update" /\ path \in {"files/*", "upload/files/*"}
                /\ method \in {"PATCH", "PUT"}
           \/ key = "drive_files_delete" /\ path = "files/*" /\ method = "DELETE"
      [] check = "drive_file_kind_docs" ->
           \/ key = "docs_read" /\ path = "files/*/export"
           \/ key = "docs_delete" /\ path = "files/*" /\ method = "DELETE"
      [] check = "drive_file_kind_sheets" ->
           \/ key = "sheets_read" /\ path = "files/*/export"
           \/ key = "sheets_delete" /\ path = "files/*" /\ method = "DELETE"
      [] check = "drive_file_kind_slides" ->
           \/ key = "slides_read" /\ path = "files/*/export"
           \/ key = "slides_delete" /\ path = "files/*" /\ method = "DELETE"

ASSUME ChecksInUse ==
    \A i \in Positions : \A r \in Catalogue[i].rules :
        UsedFor(r.check, Catalogue[i].key, r.method, r.path)

(* Nor is a rule missing: when one capability has a rule of a class for a   *)
(* method and a path, so has every capability that checks of this class are *)
(* used by, and it has one rule for them.                                   *)
ASSUME ChecksAreComplete ==
    \A i, j \in Positions : \A r \in Catalogue[i].rules : \A check \in Checks \ {"none"} :
        Class(check) = Class(r.check) /\ UsedFor(check, Catalogue[j].key, r.method, r.path) =>
            [method |-> r.method, path |-> r.path, check |-> check] \in Catalogue[j].rules

ASSUME OneRule ==
    \A i \in Positions : \A r, s \in Catalogue[i].rules :
        r.method = s.method /\ r.path = s.path => r = s

ASSUME NeverIsNoKey == "never" \notin Keys
=============================================================================
