---------------------------- MODULE Notifications ---------------------------
(***************************************************************************)
(* The API's notifications: fan-out by preference or permission with a     *)
(* find-then-insert de-duplication, and mark read.  A row's number is its  *)
(* creation order; all rows of one recipient would be duplicates of one    *)
(* another.  Modules NotificationPage and Retention have list and prune.   *)
(***************************************************************************)
EXTENDS Integers, Sequences

CONSTANTS
    NoteUser,        \* active operators
    EmitCall,        \* fan-outs that may run at the same time
    DedupeTicks,     \* EMIT_DEDUPE_WINDOW_MS
    NoteBound,       \* rows ever created
    NoteClockBound   \* last tick of the clock

ASSUME NotificationsAssumption ==
    {DedupeTicks, NoteBound, NoteClockBound} \subseteq Nat

VARIABLES
    notes,      \* rows by number
    pref,       \* user -> "on", "off" or "absent" (no OperatorSettings row)
    noteClock,  \* now
    emits       \* fan-out -> its state

noteVars == <<notes, pref, noteClock, emits>>

-----------------------------------------------------------------------------
\* seen and checked: the rows and the time of the de-duplication that let the row in.
Note == [to : NoteUser, read : BOOLEAN, born : 0..NoteClockBound,
         seen : 0..NoteBound, checked : 0..NoteClockBound]

IdleEmit == [at |-> "idle", byPreference |-> FALSE, dedupe |-> FALSE,
             actor |-> {}, on |-> {}, settled |-> {}, todo |-> {}, to |-> {},
             seen |-> 0, checked |-> 0]

NoteTypeOK ==
    /\ notes \in Seq(Note) /\ Len(notes) <= NoteBound
    /\ pref \in [NoteUser -> {"on", "off", "absent"}]
    /\ noteClock \in 0..NoteClockBound
    /\ \A j \in EmitCall :
         /\ emits[j].at \in {"idle", "settings", "emit", "insert"}
         /\ emits[j].todo \cup emits[j].on \cup emits[j].to \subseteq NoteUser

NoteInit ==
    /\ notes = <<>>
    /\ pref = [u \in NoteUser |-> "absent"]
    /\ noteClock = 0
    /\ emits = [j \in EmitCall |-> IdleEmit]

-----------------------------------------------------------------------------
RowsOf(u) == {i \in DOMAIN notes : notes[i].to = u}

\* updateNotificationPreferences: an upsert of the operator's own row.
SavePreference(u, v) ==
    /\ v # pref[u]
    /\ pref' = [pref EXCEPT ![u] = v]
    /\ emits' = [j \in EmitCall |-> [emits[j] EXCEPT !.settled = @ \ {u}]]
    /\ UNCHANGED <<notes, noteClock>>

\* emitToOperatorsWithPreference, first read: the settings rows with the toggle on.
StartPreferenceFanOut(j, dedupe, actor) ==
    /\ emits[j].at = "idle"
    /\ emits' = [emits EXCEPT ![j] =
           [IdleEmit EXCEPT !.at = "settings", !.byPreference = TRUE,
                            !.dedupe = dedupe, !.actor = actor,
                            !.on = {u \in NoteUser : pref[u] = "on"}, !.settled = NoteUser]]
    /\ UNCHANGED <<notes, pref, noteClock>>

\* The second read: users without a settings row.
WithoutRow == {u \in NoteUser : pref[u] = "absent"}

ReadWithoutRow(j) ==
    /\ emits[j].at = "settings"
    /\ emits' = [emits EXCEPT ![j].at = "emit",
                              ![j].on = (@ \cup WithoutRow) \ emits[j].actor,
                              ![j].todo = (emits[j].on \cup WithoutRow) \ emits[j].actor]
    /\ UNCHANGED <<notes, pref, noteClock>>

\* emit to one recipient, or emitToPermissionHolders: one read names the recipients.
StartFanOut(j, dedupe, recipients) ==
    /\ emits[j].at = "idle"
    /\ emits' = [emits EXCEPT ![j] =
           [IdleEmit EXCEPT !.at = "emit", !.dedupe = dedupe, !.todo = recipients]]
    /\ UNCHANGED <<notes, pref, noteClock>>

\* Mutant: a duplicate already read does not count.
RecentUnread(u) == {i \in RowsOf(u) : notes[i].born >= noteClock - DedupeTicks /\ ~notes[i].read}

\* The findFirst of emit.
Recent(u) == {i \in RowsOf(u) : notes[i].born >= noteClock - DedupeTicks}

\* emit, up to the insert: a recent duplicate skips the recipient.
CheckDuplicate(j, u) ==
    /\ emits[j].at = "emit"
    /\ u \in emits[j].todo
    /\ IF emits[j].dedupe /\ Recent(u) # {}
       THEN emits' = [emits EXCEPT ![j].todo = @ \ {u}]
       ELSE emits' = [emits EXCEPT ![j].todo = @ \ {u}, ![j].at = "insert", ![j].to = {u},
                                   ![j].seen = IF emits[j].dedupe THEN Len(notes) ELSE 0,
                                   ![j].checked = noteClock]
    /\ UNCHANGED <<notes, pref, noteClock>>

\* The insert, and the private event to the recipient's stream.
InsertNote(j) ==
    /\ emits[j].at = "insert"
    /\ Len(notes) < NoteBound
    /\ \E u \in emits[j].to :
         notes' = Append(notes, [to |-> u, read |-> FALSE, born |-> noteClock,
                                 seen |-> emits[j].seen, checked |-> emits[j].checked])
    /\ emits' = [emits EXCEPT ![j].at = "emit", ![j].to = {}, ![j].seen = 0, ![j].checked = 0]
    /\ UNCHANGED <<pref, noteClock>>

\* A failed emit is logged and the fan-out goes on.
EmitFails(j) ==
    /\ emits[j].at = "insert"
    /\ emits' = [emits EXCEPT ![j].at = "emit", ![j].to = {}, ![j].seen = 0, ![j].checked = 0]
    /\ UNCHANGED <<notes, pref, noteClock>>

FinishFanOut(j) ==
    /\ emits[j].at = "emit"
    /\ emits[j].todo = {}
    /\ emits' = [emits EXCEPT ![j] = IdleEmit]
    /\ UNCHANGED <<notes, pref, noteClock>>

-----------------------------------------------------------------------------
Unread(u) == {i \in RowsOf(u) : ~notes[i].read}

\* markRead of some of the user's rows that are unread, markAll of all of them.
MarkRead(S) ==
    /\ S # {}
    /\ notes' = [i \in DOMAIN notes |-> [notes[i] EXCEPT !.read = @ \/ i \in S]]
    /\ UNCHANGED <<pref, noteClock, emits>>

NoteTick ==
    /\ noteClock < NoteClockBound
    /\ noteClock' = noteClock + 1
    /\ UNCHANGED <<notes, pref, emits>>

-----------------------------------------------------------------------------
NoteNext ==
    \/ \E u \in NoteUser, v \in {"on", "off"} : SavePreference(u, v)
    \/ \E j \in EmitCall :
         \/ \E d \in BOOLEAN, A \in {{}} \cup {{u} : u \in NoteUser} : StartPreferenceFanOut(j, d, A)
         \/ \E d \in BOOLEAN, R \in SUBSET NoteUser : StartFanOut(j, d, R)
         \/ ReadWithoutRow(j) \/ InsertNote(j) \/ EmitFails(j) \/ FinishFanOut(j)
         \/ \E u \in NoteUser : CheckDuplicate(j, u)
    \/ \E u \in NoteUser :
         \/ MarkRead(Unread(u))
         \/ \E i \in Unread(u) : MarkRead({i})
    \/ NoteTick

NoteSpec == NoteInit /\ [][NoteNext]_noteVars

-----------------------------------------------------------------------------
\* A fan-out by preference reaches exactly the operators who have the toggle on, by
\* choice or by default, the actor excepted; only one who saves the settings between
\* its two reads may be missed.
FanOutReachesOptedIn ==
    \A j \in EmitCall : emits[j].at \in {"emit", "insert"} /\ emits[j].byPreference =>
        emits[j].on \cap emits[j].settled
          = {u \in emits[j].settled : pref[u] # "off"} \ emits[j].actor

\* A row let in by the de-duplication has no other row of its recipient in the window,
\* except one inserted after the check: the check and the insert are two statements.
DuplicatesOnlyByRace ==
    \A k \in DOMAIN notes : \A i \in 1..notes[k].seen :
        notes[i].to = notes[k].to
            => notes[i].born < notes[k].checked - DedupeTicks
=============================================================================
