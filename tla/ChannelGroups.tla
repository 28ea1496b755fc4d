---------------------------- MODULE ChannelGroups ----------------------------
(***************************************************************************)
(* Channel groups and the rule that a channel is in one group: the HTTP    *)
(* handlers of tca/api/routes/channel_groups.py and the forms of           *)
(* tca/ui/routes.py, on the tables channel_groups and                      *)
(* channel_group_members.                                                  *)
(*                                                                         *)
(* Granularity.  A handler is one job of the writer queue, so two requests *)
(* do not interleave.  Within a job the reads that precede the first write *)
(* are one step and each write transaction is one: other processes with    *)
(* the database open may come in between, a transaction may fail, and the  *)
(* process may die.                                                        *)
(*                                                                         *)
(* Data.  A group's row has a name and a horizon; the description is       *)
(* handled like the horizon.  Validation of the payload is left out.       *)
(***************************************************************************)
EXTENDS RowIds, FiniteSets

CONSTANTS
  Channels,   \* telegram_channels rows that may exist
  Values,     \* values of the columns of a group
  Requests,   \* concurrent HTTP requests
  None,
  MaxGroup,   \* bound: the largest group id
  MaxRivals,  \* bound: transactions of other processes
  MaxFaults   \* bound: failed transactions and crashes

ASSUME GroupAssumption ==
  /\ None \notin Channels
  /\ MaxGroup \in Nat /\ MaxRivals \in Nat /\ MaxFaults \in Nat

VARIABLES
  channels,  \* telegram_channels: the rows that exist
  groups,    \* channel_groups: id |-> row
  member,    \* channel_group_members: channel_id |-> group_id
  pc,        \* the next write of each request's job, or "idle"
  arg,       \* local variables of the job
  answer,    \* the last response to each request
  rivals,    \* transactions of other processes so far
  faults     \* failures and crashes so far

store == <<channels, groups, member>>
vars  == <<store, pc, arg, answer, rivals, faults>>

-----------------------------------------------------------------------------
GroupId == 1 .. MaxGroup
Column == {"name", "horizon"}
Row == [Column -> Values]

\* group: group_id or created.id; want: the channel asked for; old: the group's
\* current channel; row: the row to write; cols: the columns a PATCH names; fail: how
\* the job ends after undoing.
Arg == [group : GroupId \cup {None}, want : Channels \cup {None},
        old : Channels \cup {None}, row : Row \cup {None}, cols : SUBSET Column,
        fail : {"ok", "conflict", "missing", "error"}]

NoArg == [group |-> None, want |-> None, old |-> None, row |-> None, cols |-> {},
          fail |-> "ok"]

TypeOK ==
  /\ channels \subseteq Channels
  /\ DOMAIN groups \subseteq GroupId /\ groups \in [DOMAIN groups -> Row]
  /\ DOMAIN member \subseteq channels /\ member \in [DOMAIN member -> DOMAIN groups]
  /\ pc \in [Requests -> {"idle", "patch", "put", "create", "join", "undo",
                          "clear", "leave", "assign", "restore"}]
  /\ arg \in [Requests -> Arg]
  /\ answer \in [Requests -> {"none", "ok", "conflict", "missing", "error"}]
  /\ rivals \in 0 .. MaxRivals /\ faults \in 0 .. MaxFaults

Init ==
  /\ channels = Channels
  /\ groups = <<>>
  /\ member = <<>>
  /\ pc = [r \in Requests |-> "idle"]
  /\ arg = [r \in Requests |-> NoArg]
  /\ answer = [r \in Requests |-> "none"]
  /\ rivals = 0
  /\ faults = 0

-----------------------------------------------------------------------------
(* Jobs and tables *)

Begins(r) == \A q \in Requests : pc[q] = "idle"

Ends(r, a) ==
  /\ pc' = [pc EXCEPT ![r] = "idle"]
  /\ arg' = [arg EXCEPT ![r] = NoArg]
  /\ answer' = [answer EXCEPT ![r] = a]
  /\ UNCHANGED <<rivals, faults>>

Goes(r, label, a) ==
  /\ pc' = [pc EXCEPT ![r] = label]
  /\ arg' = [arg EXCEPT ![r] = a]
  /\ answer' = [answer EXCEPT ![r] = "none"]
  /\ UNCHANGED <<rivals, faults>>

ChannelsOf(g) == {c \in DOMAIN member : member[c] = g}

\* Bound: there is an id left for one more group.
Room == NextRowId(DOMAIN groups) <= MaxGroup

InsertGroup(row) ==
  LET new == NextRowId(DOMAIN groups)
  IN  /\ groups' = [g \in DOMAIN groups \cup {new} |-> IF g = new THEN row ELSE groups[g]]
      /\ UNCHANGED <<channels, member>>

\* Members go with their group (ON DELETE CASCADE).
RemoveGroup(g) ==
  /\ groups' = [h \in DOMAIN groups \ {g} |-> groups[h]]
  /\ member' = [c \in DOMAIN member \ ChannelsOf(g) |-> member[c]]
  /\ UNCHANGED channels

UpdateGroup(g, row) ==
  /\ groups' = IF g \in DOMAIN groups THEN [groups EXCEPT ![g] = row] ELSE groups
  /\ UNCHANGED <<channels, member>>

\* What an INSERT into channel_group_members meets.
Insertion(g, c) ==
  IF c \in DOMAIN member THEN "unique"
  ELSE IF c \notin channels \/ g \notin DOMAIN groups THEN "foreign key"
  ELSE "ok"

AddMember(g, c) ==
  /\ member' = IF Insertion(g, c) = "ok"
               THEN [d \in DOMAIN member \cup {c} |-> IF d = c THEN g ELSE member[d]]
               ELSE member
  /\ UNCHANGED <<channels, groups>>

RemoveMember(g, c) ==
  /\ member' = [d \in DOMAIN member \ (ChannelsOf(g) \cap {c}) |-> member[d]]
  /\ UNCHANGED <<channels, groups>>

-----------------------------------------------------------------------------
(* /channel-groups *)

CreateGroup(r, row) ==
  /\ Begins(r) /\ Room
  /\ InsertGroup(row)
  /\ Ends(r, "ok")

Found(g) == IF g \in DOMAIN groups THEN "ok" ELSE "missing"

DeleteGroup(r, g) ==
  /\ Begins(r)
  /\ RemoveGroup(g)
  /\ Ends(r, Found(g))

\* Variant: the current row is read before the job is queued.
PatchReadEarly(r, g, F, row) ==
  /\ pc[r] = "idle"
  /\ IF g \in DOMAIN groups
     THEN Goes(r, "patch", [NoArg EXCEPT
            !.group = g, !.cols = F,
            !.row = [f \in Column |-> IF f \in F THEN row[f] ELSE groups[g][f]]])
     ELSE Ends(r, "missing")
  /\ UNCHANGED store

\* F is payload.model_fields_set.
PatchRead(r, g, F, row) ==
  /\ Begins(r)
  /\ IF g \in DOMAIN groups
     THEN Goes(r, "patch", [NoArg EXCEPT
            !.group = g, !.cols = F,
            !.row = [f \in Column |-> IF f \in F THEN row[f] ELSE groups[g][f]]])
     ELSE Ends(r, "missing")
  /\ UNCHANGED store

PatchWrite(r) ==
  /\ pc[r] = "patch"
  /\ UpdateGroup(arg[r].group, arg[r].row)
  /\ Ends(r, Found(arg[r].group))

PutRead(r, g, c) ==
  /\ Begins(r)
  /\ IF g \notin DOMAIN groups \/ c \notin channels
     THEN Ends(r, "missing")
     ELSE IF c \in DOMAIN member
     THEN Ends(r, IF member[c] = g THEN "ok" ELSE "conflict")
     ELSE Goes(r, "put", [NoArg EXCEPT !.group = g, !.want = c])
  /\ UNCHANGED store

\* A foreign key error is not handled: 500.
Outcome(i) ==
  CASE i = "ok" -> "ok" [] i = "unique" -> "conflict" [] i = "foreign key" -> "error"

PutWrite(r) ==
  /\ pc[r] = "put"
  /\ AddMember(arg[r].group, arg[r].want)
  /\ Ends(r, Outcome(Insertion(arg[r].group, arg[r].want)))

\* Deleting a membership that is not there is answered like one that was.
DeleteMembership(r, g, c) ==
  /\ Begins(r)
  /\ RemoveMember(g, c)
  /\ Ends(r, Found(g))

-----------------------------------------------------------------------------
(* /ui/groups: create with an optional channel, and edit *)

UiCreateRead(r, row, c) ==
  /\ Begins(r) /\ Room
  /\ IF c # None /\ c \notin channels
     THEN Ends(r, "missing")
     ELSE IF c \in DOMAIN member
     THEN Ends(r, "conflict")
     ELSE Goes(r, "create", [NoArg EXCEPT !.want = c, !.row = row])
  /\ UNCHANGED store

UiCreateGroup(r) ==
  /\ pc[r] = "create"
  /\ InsertGroup(arg[r].row)
  /\ IF arg[r].want = None
     THEN Ends(r, "ok")
     ELSE Goes(r, "join", [arg[r] EXCEPT !.group = NextRowId(DOMAIN groups)])

\* Variant: only ChannelAlreadyAssignedToGroupError is compensated.
UiCreateJoinUnique(r) ==
  LET i == Insertion(arg[r].group, arg[r].want)
  IN  /\ pc[r] = "join"
      /\ AddMember(arg[r].group, arg[r].want)
      /\ IF i = "ok"
         THEN Ends(r, "ok")
         ELSE IF i = "unique"
         THEN Goes(r, "undo", [arg[r] EXCEPT !.fail = "conflict"])
         ELSE Ends(r, "missing")

\* A foreign key error is taken for a missing channel.
UiCreateJoin(r) ==
  LET i == Insertion(arg[r].group, arg[r].want)
  IN  /\ pc[r] = "join"
      /\ AddMember(arg[r].group, arg[r].want)
      /\ IF i = "ok"
         THEN Ends(r, "ok")
         ELSE Goes(r, "undo", [arg[r] EXCEPT
                !.fail = IF i = "unique" THEN "conflict" ELSE "missing"])

UiCreateUndo(r) ==
  /\ pc[r] = "undo"
  /\ RemoveGroup(arg[r].group)
  /\ Ends(r, arg[r].fail)

UiEdit(r, g, row) ==
  /\ Begins(r)
  /\ UpdateGroup(g, row)
  /\ Ends(r, Found(g))

-----------------------------------------------------------------------------
(* /ui/groups/{id}/channel: assign or clear the channel of a group *)

\* scalar_one_or_none() raises when the group has several channels.
AssignRead(r, g, c) ==
  /\ Begins(r)
  /\ LET current == IF ChannelsOf(g) = {} THEN None ELSE CHOOSE d \in ChannelsOf(g) : TRUE
         a       == [NoArg EXCEPT !.group = g, !.want = c, !.old = current]
     IN  IF g \notin DOMAIN groups
         THEN Ends(r, "missing")
         ELSE IF Cardinality(ChannelsOf(g)) > 1
         THEN Ends(r, "error")
         ELSE IF c = None
         THEN IF current = None THEN Ends(r, "ok") ELSE Goes(r, "clear", a)
         ELSE IF c \notin channels
         THEN Ends(r, "missing")
         ELSE IF c \in DOMAIN member
         THEN Ends(r, IF member[c] = g THEN "ok" ELSE "conflict")
         ELSE Goes(r, IF current = None THEN "assign" ELSE "leave", a)
  /\ UNCHANGED store

AssignClear(r) ==
  /\ pc[r] = "clear"
  /\ RemoveMember(arg[r].group, arg[r].old)
  /\ Ends(r, "ok")

AssignLeave(r) ==
  /\ pc[r] = "leave"
  /\ RemoveMember(arg[r].group, arg[r].old)
  /\ Goes(r, "assign", arg[r])

\* Variant: the old membership is not restored.
AssignInsertOnly(r) ==
  LET i == Insertion(arg[r].group, arg[r].want)
  IN  /\ pc[r] = "assign"
      /\ AddMember(arg[r].group, arg[r].want)
      /\ Ends(r, Outcome(i))

AssignInsert(r) ==
  LET i == Insertion(arg[r].group, arg[r].want)
  IN  /\ pc[r] = "assign"
      /\ AddMember(arg[r].group, arg[r].want)
      /\ IF i = "ok" \/ arg[r].old = None
         THEN Ends(r, Outcome(i))
         ELSE Goes(r, "restore", [arg[r] EXCEPT !.fail = Outcome(i)])

\* If restoring raises as well, that exception is the answer.
AssignRestore(r) ==
  LET i == Insertion(arg[r].group, arg[r].old)
  IN  /\ pc[r] = "restore"
      /\ AddMember(arg[r].group, arg[r].old)
      /\ Ends(r, IF i = "ok" THEN arg[r].fail ELSE Outcome(i))

-----------------------------------------------------------------------------
(* Channels, other processes, failures *)

AddChannel(c) ==
  /\ c \notin channels
  /\ channels' = channels \cup {c}
  /\ UNCHANGED <<groups, member>>

PurgeChannel(c) ==
  /\ c \in channels
  /\ channels' = channels \ {c}
  /\ member' = [d \in DOMAIN member \ {c} |-> member[d]]
  /\ UNCHANGED groups

ChannelRequest(r, c) ==
  /\ Begins(r)
  /\ AddChannel(c) \/ PurgeChannel(c)
  /\ Ends(r, "ok")

Rival ==
  /\ rivals < MaxRivals
  /\ rivals' = rivals + 1
  /\ \/ \E c \in Channels : PurgeChannel(c)
     \/ \E g \in DOMAIN groups : RemoveGroup(g) \/ \E row \in Row : UpdateGroup(g, row)
     \/ \E g \in GroupId, c \in Channels : Insertion(g, c) = "ok" /\ AddMember(g, c)
  /\ UNCHANGED <<pc, arg, answer, faults>>

\* A transaction fails for another reason than a constraint: the database is
\* locked, the disk is full.  No handler of the jobs catches that.
TransactionFails(r) ==
  /\ pc[r] # "idle"
  /\ faults < MaxFaults
  /\ faults' = faults + 1
  /\ pc' = [pc EXCEPT ![r] = "idle"]
  /\ arg' = [arg EXCEPT ![r] = NoArg]
  /\ answer' = [answer EXCEPT ![r] = "error"]
  /\ UNCHANGED <<store, rivals>>

Crash ==
  /\ faults < MaxFaults
  /\ faults' = faults + 1
  /\ pc' = [r \in Requests |-> "idle"]
  /\ arg' = [r \in Requests |-> NoArg]
  /\ answer' = [r \in Requests |-> "none"]
  /\ UNCHANGED <<store, rivals>>

-----------------------------------------------------------------------------
Api(r) ==
  \/ \E row \in Row : CreateGroup(r, row)
  \/ \E g \in GroupId : DeleteGroup(r, g)
  \/ \E g \in GroupId, F \in SUBSET Column, row \in Row : PatchRead(r, g, F, row)
  \/ \E g \in GroupId, c \in Channels : PutRead(r, g, c) \/ DeleteMembership(r, g, c)
  \/ \E c \in Channels : ChannelRequest(r, c)

Ui(r) ==
  \/ \E row \in Row, c \in Channels \cup {None} : UiCreateRead(r, row, c)
  \/ \E g \in GroupId, row \in Row : UiEdit(r, g, row)
  \/ \E g \in GroupId, c \in Channels \cup {None} : AssignRead(r, g, c)

Write(r) ==
  \/ PatchWrite(r) \/ PutWrite(r)
  \/ UiCreateGroup(r) \/ UiCreateJoin(r) \/ UiCreateUndo(r)
  \/ AssignClear(r) \/ AssignLeave(r) \/ AssignInsert(r) \/ AssignRestore(r)

Next ==
  \/ \E r \in Requests : Api(r) \/ Ui(r) \/ Write(r) \/ TransactionFails(r)
  \/ Rival \/ Crash

Spec == Init /\ [][Next]_vars

-----------------------------------------------------------------------------
(* Properties *)

\* A form that creates a group for a channel and is refused, because another
\* process has assigned or removed the channel in the meantime, leaves no group
\* behind: _create_group_from_form_values() takes the group back.
RefusedCreateLeavesNoGroup ==
  [][\A r \in Requests :
       pc[r] \in {"join", "undo"} /\ answer'[r] \in {"conflict", "missing"} =>
         arg[r].group \notin DOMAIN groups']_vars

Changes(r) == pc[r] \in {"leave", "assign", "restore"}

\* The old channel is in its group or, by another process, in another one, or it
\* or the group is gone.
KeepsOld(r, m) ==
  \/ arg[r].old \in DOMAIN m
  \/ arg[r].old \notin channels
  \/ arg[r].group \notin DOMAIN groups

\* A change of a group's channel that meets another process's assignment or
\* removal of the new channel leaves the group its old channel:
\* _assign_group_channel_membership() puts it back, unless the old channel has
\* been assigned elsewhere, or it or the group is gone.
ConflictKeepsOldChannel ==
  [][\A r \in Requests :
       /\ Changes(r) /\ pc'[r] = "idle" /\ arg[r].old # None
       /\ faults' = faults /\ answer'[r] # "ok"
       => KeepsOld(r, member')]_vars

\* A PATCH writes back the columns it does not name; as its read and its write
\* are one job, it never reverts what another request has written.
PatchKeepsOtherColumns ==
  [][\A r \in Requests :
       pc[r] = "patch" /\ answer'[r] = "ok" /\ rivals = 0 =>
         \A f \in Column \ arg[r].cols :
           groups'[arg[r].group][f] = groups[arg[r].group][f]]_vars

=============================================================================
