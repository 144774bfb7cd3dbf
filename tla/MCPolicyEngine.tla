--------------------------- MODULE MCPolicyEngine ---------------------------
(***************************************************************************)
(* Instances of PolicyEngine for TLC: every method and path of the         *)
(* catalogue, with the contents its body policies tell apart, each under   *)
(* every policy over the capabilities that have a rule for it.             *)
(***************************************************************************)
EXTENDS PolicyEngine

Rules == UNION {Catalogue[i].rules : i \in Positions}

LabelMarks == {{"malformed"}, {"INBOX", "SPAM", "TRASH", "STARRED", "Label_1"}} \union
              {{a, b} : a \in Labels, b \in Labels} \union {{}}

(* The contents worth telling apart for a rule's check. *)
MarksFor(check) ==
    CASE check = "none" -> {{}}
      [] check = "gmail_label_modify" -> LabelMarks
      [] check = "gmail_label_create_rename" ->
           {{}, {"empty body"}, {"malformed"}, {"reserved name"}, {"system label"}}
      [] check = "gmail_label_delete" -> {{}, {"system label"}}
      [] check \in {"calendar_event_delete_self", "calendar_event_delete_guests"} -> {{}}
      [] check \in EventChecks \union EventCreations ->
           {{}, {"guests"}, {"malformed"}}
      [] check \in {"drive_comment_reply", "drive_comment_resolve"} ->
           {{}, {"resolve"}, {"other action"}, {"malformed"}}
      [] check = "drive_comment_owned" -> {{}, {"not own"}}
      [] check \in FileKindChecks -> {{}} \union {{k} : k \in FileKinds}
      [] OTHER -> {{}, {"malformed"}} \union {{k} : k \in FileKinds}

CommentEdits ==
    [method : {"PATCH", "PUT"}, path : {"files/*/comments/*", "files/*/comments/*/replies/*"},
     marks : {{"resolve"}, {"resolved"}, {"malformed"}, {"other action", "not own"}}]

MCOperations ==
    UNION {[method : {rule.method}, path : {rule.path}, marks : MarksFor(rule.check)] : rule \in Rules}
    \union CommentEdits
    \union [method : {"DELETE"}, path : {"files/trash"}, marks : {{}}]
    \union [method : {"POST"}, path : {"gmail/settings/forwardingAddresses"}, marks : {{}}]

Family(o) ==
    {Catalogue[i].key : i \in {j \in Positions : \E rule \in Catalogue[j].rules : Matches(rule, o)}}

(* Forms over that family, with a review mark on anything, and a key of a  *)
(* capability that no longer exists.                                       *)
MCSelections ==
    [o \in MCOperations |->
       [caps : SUBSET Family(o), review : SUBSET Family(o)]
       \union [caps : {Family(o) \union {"gmail_everything"}}, review : {{"gmail_everything"}}]]
=============================================================================
