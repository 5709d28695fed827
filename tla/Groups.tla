---------------------------------- MODULE Groups -------------------------------
(***************************************************************************)
(* A group, its members and its pinned messages (routes/groups.rs, hysj-   *)
(* db/src/groups.rs, pinned_messages.rs and the PinMessage arm of ws/      *)
(* handler.rs).  Every SQL statement is a step: each handler looks up the  *)
(* caller's role or membership first and writes afterwards, and create and *)
(* delete write more than once.  Foreign keys and primary keys of the      *)
(* schema appear as guards and as cascades.                                *)
(***************************************************************************)
EXTENDS Naturals, FiniteSets

CONSTANTS Users,
          Creator,
          Invited,               \* member_ids of the create request
          GroupTasks,            \* tasks that serve the other requests
          Messages,              \* messages that can be pinned
          MaxGroupErrors         \* bound on the statements that fail

ASSUME GroupAssumption ==
  Creator \in Users /\ Invited \subseteq Users /\ MaxGroupErrors \in Nat

VARIABLES group,                 \* "new", "there" or "deleted"
          role,                  \* group_members: "none", "member" or "admin"
          pinned,                \* pinned_messages
          inviting,              \* what the create request has still to insert
          request,               \* the request of each task, once its check passed
          groupErrors

groupVars == <<group, role, pinned, inviting, request, groupErrors>>

Members == {u \in Users : role[u] # "none"}
Admins == {u \in Users : role[u] = "admin"}
NoRequest == [does |-> "nothing"]

GroupInit ==
  /\ group = "new"
  /\ role = [u \in Users |-> "none"]
  /\ pinned = {}
  /\ inviting = {}
  /\ request = [t \in GroupTasks |-> NoRequest]
  /\ groupErrors = 0

-----------------------------------------------------------------------------
\* create_group: the group, then the creator as its admin, then the members.
CreateGroup ==
  /\ group = "new"
  /\ group' = "there"
  /\ inviting' = {Creator} \cup Invited
  /\ UNCHANGED <<role, pinned, request, groupErrors>>

\* add_member of create_group: the creator first, each other after it.  INSERT fails
\* on a row that is there and without a group, and ends the request.
InviteMember(u) ==
  /\ u \in inviting
  /\ Creator \in inviting => u = Creator
  /\ IF group = "there" /\ role[u] = "none"
     THEN /\ role' = [role EXCEPT ![u] = IF u = Creator THEN "admin" ELSE "member"]
          /\ inviting' = inviting \ {u}
     ELSE UNCHANGED role /\ inviting' = {}
  /\ UNCHANGED <<group, pinned, request, groupErrors>>

InviteError ==
  /\ inviting # {} /\ groupErrors < MaxGroupErrors
  /\ inviting' = {}
  /\ groupErrors' = groupErrors + 1
  /\ UNCHANGED <<group, role, pinned, request>>

-----------------------------------------------------------------------------
Takes(t, what) ==
  /\ request[t] = NoRequest
  /\ request' = [request EXCEPT ![t] = what]
  /\ UNCHANGED <<group, role, pinned, inviting, groupErrors>>

Answer(t) == request' = [request EXCEPT ![t] = NoRequest]

\* Mutant: any member may add members.
AllowAddForMembers(t, by, u) ==
  by \in Members /\ Takes(t, [does |-> "add", whom |-> u])

\* add_member, remove_member, delete_group: get_member_role says admin.
AllowAdd(t, by, u) ==
  by \in Admins /\ Takes(t, [does |-> "add", whom |-> u])

AllowRemove(t, by, u) ==
  by \in Admins /\ u # by /\ Takes(t, [does |-> "remove", whom |-> u])

AllowDelete(t, by) ==
  by \in Admins /\ Takes(t, [does |-> "delete", whom |-> by])

\* handle_ws_message, PinMessage: is_member.
AllowPin(t, by, m) ==
  by \in Members /\ Takes(t, [does |-> "pin", message |-> m])

AllowUnpin(t, by, m) ==
  by \in Members /\ Takes(t, [does |-> "unpin", message |-> m])

\* The INSERT of add_member: an error for somebody who is a member, and when the
\* group is gone.
AddMember(t) ==
  /\ request[t].does = "add"
  /\ role' = IF group = "there" /\ role[request[t].whom] = "none"
             THEN [role EXCEPT ![request[t].whom] = "member"] ELSE role
  /\ Answer(t)
  /\ UNCHANGED <<group, pinned, inviting, groupErrors>>

\* The DELETE of remove_member.
RemoveMember(t) ==
  /\ request[t].does = "remove"
  /\ role' = [role EXCEPT ![request[t].whom] = "none"]
  /\ Answer(t)
  /\ UNCHANGED <<group, pinned, inviting, groupErrors>>

\* leave_group: one statement and no check, also for the admin.
LeaveGroup(u) ==
  /\ u \in Members
  /\ role' = [role EXCEPT ![u] = "none"]
  /\ UNCHANGED <<group, pinned, inviting, request, groupErrors>>

\* delete_group: the members first ...
DeleteMembers(t) ==
  /\ request[t].does = "delete"
  /\ role' = [u \in Users |-> "none"]
  /\ request' = [request EXCEPT ![t].does = "deleteGroup"]
  /\ UNCHANGED <<group, pinned, inviting, groupErrors>>

\* Mutant: the schema does not cascade to what came in between.
DeleteRowOnly(t) ==
  /\ request[t].does = "deleteGroup"
  /\ group' = "deleted"
  /\ Answer(t)
  /\ UNCHANGED <<role, pinned, inviting, groupErrors>>

\* ... then the group, and by ON DELETE CASCADE whatever refers to it.
DeleteRow(t) ==
  /\ request[t].does = "deleteGroup"
  /\ group' = "deleted"
  /\ role' = [u \in Users |-> "none"] /\ pinned' = {}
  /\ Answer(t)
  /\ UNCHANGED <<inviting, groupErrors>>

\* pin: INSERT ... ON CONFLICT DO NOTHING; an error when the group is gone.
Pin(t) ==
  /\ request[t].does = "pin"
  /\ pinned' = IF group = "there" THEN pinned \cup {request[t].message} ELSE pinned
  /\ Answer(t)
  /\ UNCHANGED <<group, role, inviting, groupErrors>>

Unpin(t) ==
  /\ request[t].does = "unpin"
  /\ pinned' = pinned \ {request[t].message}
  /\ Answer(t)
  /\ UNCHANGED <<group, role, inviting, groupErrors>>

\* A statement fails.
GroupError(t) ==
  /\ groupErrors < MaxGroupErrors
  /\ request[t] # NoRequest
  /\ groupErrors' = groupErrors + 1
  /\ Answer(t)
  /\ UNCHANGED <<group, role, pinned, inviting>>

GroupNext ==
  \/ CreateGroup \/ InviteError
  \/ \E u \in Users : InviteMember(u) \/ LeaveGroup(u)
  \/ \E t \in GroupTasks :
       \/ \E by \in Users :
            \/ \E u \in Users : AllowAdd(t, by, u) \/ AllowRemove(t, by, u)
            \/ \E m \in Messages : AllowPin(t, by, m) \/ AllowUnpin(t, by, m)
            \/ AllowDelete(t, by)
       \/ AddMember(t) \/ RemoveMember(t) \/ DeleteMembers(t) \/ DeleteRow(t)
       \/ Pin(t) \/ Unpin(t) \/ GroupError(t)

GroupSpec == GroupInit /\ [][GroupNext]_groupVars

-----------------------------------------------------------------------------
(* Properties *)

GroupRequests ==
  {NoRequest}
    \cup [does : {"add", "remove", "delete", "deleteGroup"}, whom : Users]
    \cup [does : {"pin", "unpin"}, message : Messages]

GroupTypeOK ==
  /\ group \in {"new", "there", "deleted"}
  /\ role \in [Users -> {"none", "member", "admin"}]
  /\ pinned \subseteq Messages
  /\ inviting \subseteq Users
  /\ request \in [GroupTasks -> GroupRequests]
  /\ groupErrors \in 0 .. MaxGroupErrors

\* No row of a member or of a pinned message outlives its group, though a request can
\* pass its check before the deletion and write between its statements or after it.
NothingOutlivesGroup ==
  group = "deleted" => Members = {} /\ pinned = {}

\* Out of anybody's hands: there is no admin, and nothing that passed a check while
\* there was one is still to add somebody.
Adminless ==
  /\ group = "there" /\ inviting = {} /\ Admins = {}
  /\ \A t \in GroupTasks : request[t].does # "add"

\* A group whose admin has left, as leave_group lets it, stays so until it is deleted:
\* whatever is asked of it, it has no admin again and nobody joins it.
AdminlessForGood ==
  [][Adminless => (Adminless' /\ Members' \subseteq Members) \/ group' = "deleted"]_groupVars
=============================================================================
