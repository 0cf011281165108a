-------------------------------- MODULE Groups --------------------------------
(***************************************************************************)
(* The security groups of one account: GroupService over the documents of  *)
(* the groups and of their members.  A group is read whole and written     *)
(* back whole; members are added and removed in one transaction.  Groups   *)
(* are used by the grants of policies and by role assignments, which other *)
(* components make and end (Use, Unuse).  Descriptions and times are left  *)
(* out.                                                                    *)
(*                                                                         *)
(* A user acts on the groups it owns.  Console users, superadministrators  *)
(* and service keys act on every group (Admin).                            *)
(***************************************************************************)
EXTENDS UserDirectory

VARIABLES
    groups,   \* the document of each group id
    members,  \* the membership documents
    used      \* groups that a grant or a role assignment names

groupVars == <<groups, members, used>>

NoGroup == [name |-> None]
Deleted == [name |-> None, gone |-> TRUE]
GroupDoc == [name: GroupNames, owner: UserIds, active: BOOLEAN]

Groups == {g \in GroupIds : groups[g] \in GroupDoc}
FindGroupByName(n) == {g \in Groups : groups[g].name = n}
OwnedBy(u) == {g \in Groups : groups[g].owner = u}
Member(g, u) == <<g, u>> \in members
Row(g, us) == {g} \X us

Admin == None
Callers == UserIds \cup {Admin}
MayManage(c, g) == c = Admin \/ (c \in users /\ groups[g].owner = c)

Begin(w, op, g, step, draft) ==
    Become(w, [Idle EXCEPT !.at = step, !.op = op, !.group = g, !.draft = draft])

-----------------------------------------------------------------------------
CreateGroup(w, u, n) ==
    /\ Free(w)
    /\ u \in users
    /\ FindGroupByName(n) = {}
    /\ \E g \in GroupIds :
          /\ groups[g] = NoGroup
          /\ Begin(w, "group", g, "saveGroup", [name |-> n, owner |-> u, active |-> TRUE])
    /\ UNCHANGED <<userVars, groupVars>>

UpdateGroup(w, c, g, n) ==
    /\ Free(w)
    /\ g \in Groups /\ MayManage(c, g)
    /\ FindGroupByName(n) \subseteq {g}
    /\ Begin(w, "group", g, "saveGroup", [groups[g] EXCEPT !.name = n])
    /\ UNCHANGED <<userVars, groupVars>>

SetStatus(w, g, active) ==
    /\ Free(w)
    /\ g \in Groups
    /\ Begin(w, "group", g, "saveGroup", [groups[g] EXCEPT !.active = active])
    /\ UNCHANGED <<userVars, groupVars>>

SaveGroup(w) ==
    /\ At(w, "saveGroup")
    /\ groups' = [groups EXCEPT ![job[w].group] = job[w].draft]
    /\ IF job[w].op = "transfer" THEN Answer(w, TRUE) ELSE Finish(w)
    /\ UNCHANGED <<userVars, members, used>>

-----------------------------------------------------------------------------
DeleteGroup(w, c, g) ==
    /\ Free(w)
    /\ g \in Groups /\ MayManage(c, g)
    /\ g \notin used
    /\ Begin(w, "drop", g, "deleteGroup", None)
    /\ UNCHANGED <<userVars, groupVars>>

DeleteGroupDocument(w) ==
    /\ At(w, "deleteGroup")
    /\ IF job[w].group \in Groups
       THEN groups' = [groups EXCEPT ![job[w].group] = Deleted] /\ Goto(w, "deleteRows")
       ELSE UNCHANGED groups /\ Finish(w)
    /\ UNCHANGED <<userVars, members, used>>

DeleteGroupRows(w) ==
    /\ At(w, "deleteRows")
    /\ members' = members \ Row(job[w].group, UserIds)
    /\ Finish(w)
    /\ UNCHANGED <<userVars, groups, used>>

-----------------------------------------------------------------------------
\* The usernames sent must all resolve; a batch is one transaction.
AddMembers(w, c, g, who) ==
    /\ Free(w)
    /\ g \in Groups /\ MayManage(c, g)
    /\ who \subseteq users
    /\ Become(w, [Idle EXCEPT !.at = "addRows", !.op = "members", !.group = g, !.who = who])
    /\ UNCHANGED <<userVars, groupVars>>

\* A member may leave; the others are removed by the owner.
RemoveMembers(w, c, g, who) ==
    /\ Free(w)
    /\ g \in Groups
    /\ MayManage(c, g) \/ who = {c}
    /\ who \subseteq users
    /\ Become(w, [Idle EXCEPT !.at = "removeRows", !.op = "members", !.group = g, !.who = who])
    /\ UNCHANGED <<userVars, groupVars>>

AddRows(w) ==
    /\ At(w, "addRows")
    /\ members' = members \cup Row(job[w].group, job[w].who)
    /\ IF job[w].op = "transfer" THEN Goto(w, "saveGroup") ELSE Finish(w)
    /\ UNCHANGED <<userVars, groups, used>>

RemoveRows(w) ==
    /\ At(w, "removeRows")
    /\ members' = members \ Row(job[w].group, job[w].who)
    /\ IF job[w].op = "transfer" THEN Answer(w, FALSE) ELSE Finish(w)
    /\ UNCHANGED <<userVars, groups, used>>

-----------------------------------------------------------------------------
\* The previous owner is kept as a member, unless a service asks for it not
\* to be: its row is added before the save, and taken away again when the save
\* fails and there was none before.
TransferOwner(w, c, g, v, keep) ==
    /\ Free(w)
    /\ g \in Groups /\ MayManage(c, g)
    /\ v \in users \ {groups[g].owner}
    /\ c = Admin \/ keep
    /\ LET previous == groups[g].owner
           adds == keep /\ ~Member(g, previous)
       IN  Become(w, [Idle EXCEPT !.at = IF adds THEN "addRows" ELSE "saveGroup",
                                  !.op = "transfer", !.group = g, !.user = v,
                                  !.who = {previous}, !.was = Member(g, previous),
                                  !.keep = keep, !.draft = [groups[g] EXCEPT !.owner = v]])
    /\ UNCHANGED <<userVars, groupVars>>

\* Mutant: the row stays when the save fails.
TransferFails_KeepsRow(w) ==
    /\ At(w, "saveGroup") /\ job[w].op = "transfer"
    /\ Answer(w, FALSE)
    /\ UNCHANGED <<userVars, groupVars>>

TransferFails(w) ==
    /\ At(w, "saveGroup") /\ job[w].op = "transfer"
    /\ IF job[w].keep /\ ~job[w].was THEN Goto(w, "removeRows") ELSE Answer(w, FALSE)
    /\ UNCHANGED <<userVars, groupVars>>

-----------------------------------------------------------------------------
\* A grant to the group or a role assignment, or the end of the last of them.
Use(g) == Quiet /\ g \in Groups /\ used' = used \cup {g}
          /\ UNCHANGED <<userVars, groups, members, job>>
Unuse(g) == Quiet /\ used' = used \ {g}
            /\ UNCHANGED <<userVars, groups, members, job>>

GroupNext(w) ==
    \/ \E u \in UserIds, n \in GroupNames : CreateGroup(w, u, n)
    \/ \E g \in GroupIds, active \in BOOLEAN : SetStatus(w, g, active)
    \/ \E c \in Callers, g \in GroupIds :
          \/ \E n \in GroupNames : UpdateGroup(w, c, g, n)
          \/ DeleteGroup(w, c, g)
          \/ \E v \in UserIds, keep \in BOOLEAN : TransferOwner(w, c, g, v, keep)
          \/ \E who \in SUBSET UserIds \ {{}} : AddMembers(w, c, g, who) \/ RemoveMembers(w, c, g, who)
    \/ SaveGroup(w) \/ DeleteGroupDocument(w) \/ DeleteGroupRows(w)
    \/ AddRows(w) \/ RemoveRows(w) \/ TransferFails(w)
=============================================================================
