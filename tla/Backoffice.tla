----------------------------- MODULE Backoffice -----------------------------
(***************************************************************************)
(* What administrators change through the API: accounts, bins, rules, the *)
(* configuration and the reports of citizens, each change followed by its  *)
(* record in the audit log; a citizen's report and its announcement; the   *)
(* seeding of an empty database. Every await of a handler is a step.        *)
(***************************************************************************)
EXTENDS Naturals, Sequences, FiniteSets

CONSTANTS
    Users,         \* accounts, or names for accounts
    Handlers,      \* requests the API works on at a time
    Coords,        \* values that are written, other than the first, 0
    MaxCalls, MaxEvents

\* The documents, field by field.
Things == {"bin", "rule", "config", "report"}

ASSUME BackofficeAssumption ==
    /\ Coords \subseteq Nat /\ MaxCalls \in Nat /\ MaxEvents \in Nat
    /\ {"admin", "user"} \subseteq Users /\ "system" \notin Users /\ Users \cap Things = {}

Fields == (Users \X {"role", "active"}) \cup
          {<<"bin", "lat">>, <<"bin", "lng">>, <<"bin", "active">>,
           <<"rule", "enabled">>, <<"config", "value">>, <<"report", "status">>}

VARIABLES
    db,          \* the value of each field
    location,    \* the GeoJSON point of the bin: its longitude and latitude
    log,         \* the audit log: the fields of each record, and if it was deleted
    tokens,      \* users with an access token that says "admin"
    handlers,
    announced,   \* users with a notification of the report
    calls, events,
    \* History:
    unsure,      \* fields whose last record need not be their value: see Write
    lapsed,      \* an account was changed by someone who was no administrator any more
    torn,        \* a partial update of the bin overlapped another update of it
    owed         \* administrators since before the report was stored

vars == <<db, location, log, tokens, handlers, announced, calls, events, unsure, lapsed,
          torn, owed>>

None == [f \in {} |-> 0]
Idle == [pc |-> "idle", op |-> "none", by |-> "system", sets |-> None,
         seen |-> None, entry |-> 0, crossed |-> FALSE, found |-> {}]

Exists(u) == db[<<u, "role">>] # "none"
IsAdmin(d, u) == d[<<u, "role">>] = "admin" /\ d[<<u, "active">>]
Admins(d) == {u \in Users : IsAdmin(d, u)}
One(f, v) == [g \in {f} |-> v]

\* Either no account is there, and no rule, or those of the seed, or the first of
\* them, administrators by now, with a rule.
FirstDb(roles) ==
    [f \in Fields |->
        CASE f \in Users \X {"role"} -> roles[f[1]]
          [] f[2] \in {"lat", "lng", "value"} -> 0
          [] f = <<"rule", "enabled">> -> IF roles["admin"] = "none" THEN "none" ELSE "on"
          [] f = <<"report", "status">> -> "none"
          [] OTHER -> TRUE]

FirstRoles == {[u \in Users |-> IF u \in some THEN "admin" ELSE "none"] :
                  some \in {{}, {"admin"}, {"admin", "user"}}}

Init ==
    /\ \E roles \in FirstRoles : db = FirstDb(roles)
    /\ location = <<0, 0>>
    /\ log = <<>>
    /\ tokens = Admins(db)
    /\ handlers = [h \in Handlers |-> Idle]
    /\ announced = {}
    /\ calls = 0 /\ events = 0
    /\ unsure = {} /\ lapsed = FALSE /\ torn = FALSE /\ owed = {}

----
\* A handler takes the request of someone whose token has the role: requireRole reads the token, not the account.
Accept(h, op, by, pc, sets) ==
    /\ calls < MaxCalls /\ calls' = calls + 1
    /\ handlers[h].pc = "idle"
    /\ handlers' = [handlers EXCEPT ![h] = [Idle EXCEPT !.pc = pc, !.op = op, !.by = by, !.sets = sets]]
    /\ UNCHANGED <<db, location, log, tokens, announced, events, unsure, lapsed, torn, owed>>

CreateUser(h, by) ==
    \E u \in Users, role \in {"admin", "user"} :
        Accept(h, "create", by, "look", [f \in {<<u, "role">>, <<u, "active">>} |->
                                            IF f[2] = "role" THEN role ELSE TRUE])

\* Variant for AdminRemains: only the deletion is checked.
SelfProtectedDeleteOnly(by, u, role, active) == FALSE

\* One cannot demote or deactivate oneself.
SelfProtected(by, u, role, active) == (by = u) /\ (role = "user" \/ ~active)

\* PATCH may set both at once, or neither.
UpdateUser(h, by) ==
    \E u \in {v \in Users : Exists(v)}, names \in SUBSET {"role", "active"},
       role \in {"admin", "user"}, active \in BOOLEAN :
        /\ ~SelfProtected(by, u, IF "role" \in names THEN role ELSE "admin",
                                "active" \in names => active)
        /\ Accept(h, "update", by, "write",
                  [f \in {u} \X names |-> IF f[2] = "role" THEN role ELSE active])

\* An id that nothing has: nothing is changed, and this is recorded.
Nowhere(h, by) == Accept(h, "update", by, "write", None)

DeleteUser(h, by) ==
    \/ \E u \in {v \in Users : Exists(v)} \ {by} :
          Accept(h, "delete", by, "write", One(<<u, "active">>, FALSE))
    \/ Nowhere(h, by)

UpsertBin(h, by) ==
    \E v \in Coords :
        Accept(h, "upsert", by, "write",
               [f \in {<<"bin", "lat">>, <<"bin", "lng">>, <<"bin", "active">>} |->
                    IF f[2] = "active" THEN TRUE ELSE v])

PutBin(h, by) ==
    \E side \in {"lat", "lng"}, v \in Coords : Accept(h, "put", by, "hook", One(<<"bin", side>>, v))

DeleteBin(h, by) ==
    \/ Accept(h, "delete", by, "write", One(<<"bin", "active">>, FALSE))
    \/ Nowhere(h, by)

\* One rule is created; it stays "deleted" when it has been deleted.
CreateRule(h, by) ==
    /\ db[<<"rule", "enabled">>] = "none" /\ \A g \in Handlers : handlers[g].op # "createRule"
    /\ \E on \in {"on", "off"} : Accept(h, "createRule", by, "write", One(<<"rule", "enabled">>, on))

PutRule(h, by) ==
    \/ /\ db[<<"rule", "enabled">>] # "none"
       /\ \E on \in {"on", "off"} : Accept(h, "putRule", by, "write", One(<<"rule", "enabled">>, on))
    \/ Nowhere(h, by)

DeleteRule(h, by) ==
    \/ /\ db[<<"rule", "enabled">>] # "none"
       /\ Accept(h, "delete", by, "write", One(<<"rule", "enabled">>, "deleted"))
    \/ Nowhere(h, by)

PutConfig(h, by) ==
    \E v \in Coords : Accept(h, "upsert", by, "write", One(<<"config", "value">>, v))

UpdateReport(h, by) ==
    /\ db[<<"report", "status">>] # "none"
    /\ Accept(h, "update", by, "write", One(<<"report", "status">>, "RESOLVED"))

\* Anyone may send a report.
SubmitReport(h) ==
    /\ db[<<"report", "status">>] = "none" /\ \A g \in Handlers : handlers[g].op # "report"
    /\ Accept(h, "report", "system", "store", One(<<"report", "status">>, "NEW"))

DeleteAudit(h, by) == Accept(h, "audit", by, "lookEntry", None)

\* A replica starts: runSeed.
StartSeed(h) == Accept(h, "seed", "system", "count", None)

----
Done(h) == [handlers EXCEPT ![h] = Idle]

\* The look-up before a user is created: 409 if the name is taken.
Look(h) ==
    /\ handlers[h].pc = "look"
    /\ LET u == (CHOOSE f \in DOMAIN handlers[h].sets : TRUE)[1]
       IN  handlers' = IF Exists(u) THEN Done(h) ELSE [handlers EXCEPT ![h].pc = "write"]
    /\ UNCHANGED <<db, location, log, tokens, announced, calls, events, unsure, lapsed, torn, owed>>

\* The hook of the model reads the half of the pair that the update leaves out.
Hook(h) ==
    /\ handlers[h].pc = "hook"
    /\ handlers' = [handlers EXCEPT ![h].pc = "write",
                                    ![h].seen = IF db[<<"bin", "active">>]
                                                THEN <<db[<<"bin", "lng">>], db[<<"bin", "lat">>]>>
                                                ELSE None]
    /\ UNCHANGED <<db, location, log, tokens, announced, calls, events, unsure, lapsed, torn, owed>>

\* What the one write of a handler finds, if its answer is looked at: the unique
\* index refuses a second account of a name, PUT a deleted bin.
Finds(x) ==
    CASE x.op = "create" -> \A f \in DOMAIN x.sets : ~Exists(f[1])
      [] x.op = "put" -> db[<<"bin", "active">>]
      [] OTHER -> TRUE

MovesBin(sets) == \E side \in {"lat", "lng"} : <<"bin", side>> \in DOMAIN sets

\* Variant for LocationInSync: an update of one half leaves the point alone.
PointUnlessPartial(x) ==
    IF {<<"bin", "lng">>, <<"bin", "lat">>} \subseteq DOMAIN x.sets
    THEN <<x.sets[<<"bin", "lng">>], x.sets[<<"bin", "lat">>]>> ELSE location

\* The point that goes with an update of the pair, or of half of it.
Point(x) ==
    LET side(name, i) == IF <<"bin", name>> \in DOMAIN x.sets THEN x.sets[<<"bin", name>>] ELSE x.seen[i]
    IN  IF ~MovesBin(x.sets) \/ ((x.op = "put") /\ (x.seen = None)) THEN location
        ELSE <<side("lng", 1), side("lat", 2)>>

\* Variant for RecordsAgree: the answer is not looked at before the record.
NotFoundRecorded(h) == [handlers EXCEPT ![h].pc = "record"]

\* 404, or an error: nothing is recorded.
NotFound(h) == Done(h)

\* A handler is about to record a change of the field.
Recording(h, f) == handlers[h].pc = "record" /\ f \in DOMAIN handlers[h].sets

\* PUT of a rule that has been deleted.
Vain(x) == x.op = "putRule" /\ db[<<"rule", "enabled">>] = "deleted"

\* A change made while another of the field is about to be recorded leaves the
\* field unsure; any other, once it is recorded, makes it sure again.
Write(h) ==
    LET x == handlers[h]
        after == [f \in Fields |-> IF f \in DOMAIN x.sets THEN x.sets[f] ELSE db[f]]
    IN  /\ x.pc = "write" /\ ~Vain(x)
        /\ IF ~Finds(x)
           THEN handlers' = NotFound(h) /\ UNCHANGED <<db, location, unsure, lapsed, torn, owed>>
           ELSE /\ db' = after
                /\ location' = Point(x)
                /\ handlers' = [g \in Handlers |->
                      IF g = h THEN [x EXCEPT !.pc = "record"]
                      ELSE [handlers[g] EXCEPT !.crossed = @ \/ (MovesBin(x.sets) /\ handlers[g].op = "put"
                                                                 /\ handlers[g].pc = "write")]]
                /\ unsure' = (unsure \ DOMAIN x.sets)
                             \cup {f \in DOMAIN x.sets : \E g \in Handlers : Recording(g, f)}
                /\ lapsed' = (lapsed \/ (~IsAdmin(db, x.by) /\ \E f \in DOMAIN x.sets : f[1] \in Users))
                /\ torn' = IF x.op = "put" THEN x.crossed
                           ELSE (torn /\ ~MovesBin(x.sets))
                /\ owed' = owed \cap Admins(after)
        /\ UNCHANGED <<log, tokens, announced, calls, events>>

\* Whether the rule was found is not looked at: it is recorded all the same.
WriteInVain(h) ==
    /\ handlers[h].pc = "write" /\ Vain(handlers[h])
    /\ handlers' = [handlers EXCEPT ![h].pc = "record"]
    /\ unsure' = unsure \cup DOMAIN handlers[h].sets
    /\ UNCHANGED <<db, location, log, tokens, announced, calls, events, lapsed, torn, owed>>

\* AuditService.log, after the change it records.
Record(h) ==
    /\ handlers[h].pc = "record"
    /\ log' = Append(log, [sets |-> handlers[h].sets, gone |-> FALSE])
    /\ handlers' = Done(h)
    /\ UNCHANGED <<db, location, tokens, announced, calls, events, unsure, lapsed, torn, owed>>

\* DELETE /audit/:id looks for the record, and is recorded in turn.
LookEntry(h) ==
    /\ handlers[h].pc = "lookEntry"
    /\ \/ handlers' = Done(h)
       \/ \E i \in DOMAIN log :
             ~log[i].gone /\ handlers' = [handlers EXCEPT ![h].pc = "remove", ![h].entry = i]
    /\ UNCHANGED <<db, location, log, tokens, announced, calls, events, unsure, lapsed, torn, owed>>

\* No record of the field comes after this one.
IsLast(i, f) == \A j \in DOMAIN log : f \in DOMAIN log[j].sets => j <= i

Remove(h) ==
    /\ handlers[h].pc = "remove"
    /\ log' = [log EXCEPT ![handlers[h].entry].gone = TRUE]
    /\ unsure' = unsure \cup {f \in DOMAIN log[handlers[h].entry].sets : IsLast(handlers[h].entry, f)}
    /\ handlers' = [handlers EXCEPT ![h].pc = "record"]
    /\ UNCHANGED <<db, location, tokens, announced, calls, events, lapsed, torn, owed>>

\* A report is stored; then the administrators are looked up, and in the end
\* each has a notification. fanOut is not waited for.
StoreReport(h) ==
    /\ handlers[h].pc = "store"
    /\ db' = [db EXCEPT ![<<"report", "status">>] = "NEW"]
    /\ handlers' = [handlers EXCEPT ![h].pc = "admins"]
    /\ owed' = Admins(db)
    /\ UNCHANGED <<location, log, tokens, announced, calls, events, unsure, lapsed, torn>>

\* Variant for ReportAnnounced: those that may read reports, by their tokens.
RecipientsByToken == tokens

Recipients == Admins(db)

FindAdmins(h) ==
    /\ handlers[h].pc = "admins"
    /\ handlers' = [handlers EXCEPT ![h].pc = "fanOut", ![h].found = Recipients]
    /\ UNCHANGED <<db, location, log, tokens, announced, calls, events, unsure, lapsed, torn, owed>>

FanOut(h) ==
    /\ handlers[h].pc = "fanOut"
    /\ announced' = announced \cup handlers[h].found
    /\ handlers' = Done(h)
    /\ UNCHANGED <<db, location, log, tokens, calls, events, unsure, lapsed, torn, owed>>

\* runSeed: nothing if there are accounts; else the administrator, then the
\* user. An insert that the unique index refuses ends the start.
SeedStep(h, pc, u, next) ==
    /\ handlers[h].pc = pc
    /\ IF Exists(u)
       THEN handlers' = Done(h) /\ db' = db
       ELSE /\ db' = [db EXCEPT ![<<u, "role">>] = u, ![<<u, "active">>] = TRUE]
            /\ handlers' = IF next = "idle" THEN Done(h) ELSE [handlers EXCEPT ![h].pc = next]
    /\ UNCHANGED <<location, log, tokens, announced, calls, events, unsure, lapsed, torn, owed>>

SeedCount(h) ==
    /\ handlers[h].pc = "count"
    /\ handlers' = IF \E u \in Users : Exists(u) THEN Done(h)
                   ELSE [handlers EXCEPT ![h].pc = "seedAdmin"]
    /\ UNCHANGED <<db, location, log, tokens, announced, calls, events, unsure, lapsed, torn, owed>>

SeedAdmin(h) == SeedStep(h, "seedAdmin", "admin", "seedUser")
SeedUser(h) == SeedStep(h, "seedUser", "user", "idle")

Event == events < MaxEvents /\ events' = events + 1

\* A call to the database rejects, or the replica dies.
Fault(h) ==
    /\ Event
    /\ handlers[h].pc # "idle" /\ handlers' = Done(h)
    /\ unsure' = IF handlers[h].pc = "record" THEN unsure \cup DOMAIN handlers[h].sets ELSE unsure
    /\ owed' = IF handlers[h].op = "report" THEN {} ELSE owed
    /\ UNCHANGED <<db, location, log, tokens, announced, calls, lapsed, torn>>

\* An administrator signs in; a token expires, whatever became of its owner.
SignIn(u) ==
    /\ Event /\ IsAdmin(db, u) /\ u \notin tokens /\ tokens' = tokens \cup {u}
    /\ UNCHANGED <<db, location, log, handlers, announced, calls, unsure, lapsed, torn, owed>>

Expire(u) ==
    /\ Event /\ u \in tokens /\ tokens' = tokens \ {u}
    /\ UNCHANGED <<db, location, log, handlers, announced, calls, unsure, lapsed, torn, owed>>

Next ==
    \/ \E h \in Handlers, by \in tokens :
          \/ CreateUser(h, by) \/ UpdateUser(h, by) \/ DeleteUser(h, by) \/ UpsertBin(h, by)
          \/ PutBin(h, by) \/ DeleteBin(h, by) \/ CreateRule(h, by) \/ PutRule(h, by)
          \/ DeleteRule(h, by) \/ PutConfig(h, by) \/ UpdateReport(h, by) \/ DeleteAudit(h, by)
    \/ \E h \in Handlers :
          \/ SubmitReport(h) \/ StartSeed(h) \/ Look(h) \/ Hook(h) \/ Write(h) \/ WriteInVain(h)
          \/ Record(h) \/ LookEntry(h) \/ Remove(h) \/ StoreReport(h) \/ FindAdmins(h)
          \/ FanOut(h) \/ SeedCount(h) \/ SeedAdmin(h) \/ SeedUser(h) \/ Fault(h)
    \/ \E u \in Users : SignIn(u) \/ Expire(u)

Spec == Init /\ [][Next]_vars

----
TypeOK ==
    /\ DOMAIN db = Fields
    /\ location \in (Coords \cup {0}) \X (Coords \cup {0})
    /\ tokens \subseteq Users /\ announced \subseteq Users /\ owed \subseteq Users
    /\ \A h \in Handlers : DOMAIN handlers[h].sets \subseteq Fields
    /\ \A i \in DOMAIN log : DOMAIN log[i].sets \subseteq Fields
    /\ calls \in 0..MaxCalls /\ events \in 0..MaxEvents
    /\ unsure \subseteq Fields /\ lapsed \in BOOLEAN /\ torn \in BOOLEAN

\* Once there are accounts an active administrator is among them: unless an
\* account was changed by someone who had lost the role, and whose token had not
\* expired (users.routes.ts:104 and 175 only keep one from demoting oneself).
AdminRemains == (\E u \in Users : Exists(u)) /\ ~lapsed => Admins(db) # {}

RecordsOf(f) == {i \in DOMAIN log : ~log[i].gone /\ f \in DOMAIN log[i].sets}
Recorded(f) == log[CHOOSE i \in RecordsOf(f) : \A j \in RecordsOf(f) : j <= i].sets[f]

\* The last record of a field is its value, when no handler is about to record
\* a change of it; it is "deleted" when the rule has been deleted. After an
\* exception the next change that is recorded undisturbed must make it so
\* again. The exceptions: the change was made while another of the field was not
\* yet recorded; its handler failed before the record; its record was deleted
\* from the log; an update of a rule came after its deletion, and was recorded
\* all the same (rules.routes.ts:61-69).
RecordsAgree ==
    \A f \in Fields \ unsure :
        /\ \E i \in DOMAIN log : f \in DOMAIN log[i].sets
        /\ \A h \in Handlers : ~Recording(h, f)
        => RecordsOf(f) # {} /\ db[f] = Recorded(f)

\* The GeoJSON point is that of the latitude and longitude (Dustbin.ts:69-71),
\* unless a partial update overlapped another update.
LocationInSync == ~torn => location = <<db[<<"bin", "lng">>], db[<<"bin", "lat">>]>>

\* When the report has been dealt with, whoever was an active administrator
\* all the time since before it was stored has a notification of it.
ReportAnnounced ==
    (\A h \in Handlers : handlers[h].op # "report") => owed \subseteq announced

----
(***************************************************************************)
(* The inductive invariant behind the four properties.                     *)
(***************************************************************************)

Harmless(f) == IF f[2] = "role" THEN "admin" ELSE TRUE

\* What the guards that let a request in make true of what it will write.
ChangesFit(x) ==
    /\ x.op \in {"none", "audit", "seed"} => x.sets = None
    /\ x.op = "put" => DOMAIN x.sets \subseteq {<<"bin", "lat">>, <<"bin", "lng">>} /\ MovesBin(x.sets)
    /\ x.op \notin {"put", "create"} /\ MovesBin(x.sets)
           => {<<"bin", "lat">>, <<"bin", "lng">>} \subseteq DOMAIN x.sets
    /\ x.op = "createRule" => DOMAIN x.sets = {<<"rule", "enabled">>}
    /\ \A f \in DOMAIN x.sets :
          /\ f[2] = "role" => x.sets[f] \in {"admin", "user"}
          /\ f \in {<<"bin", "lat">>, <<"bin", "lng">>} => x.sets[f] \in Coords
          /\ f = <<"bin", "active">> /\ ~MovesBin(x.sets) => x.sets[f] = FALSE
          /\ f \in {<<"rule", "enabled">>, <<"report", "status">>} => x.sets[f] # "none"
          /\ IF x.op = "create" THEN f[1] \in Users /\ <<f[1], "role">> \in DOMAIN x.sets
             ELSE f[1] = x.by => x.sets[f] = Harmless(f)

\* Which requests are where.
Fits(x) ==
    /\ x.op = "report" <=> x.pc \in {"store", "admins", "fanOut"}
    /\ x.pc = "look" => x.op = "create"
    /\ x.pc = "hook" => x.op = "put"
    /\ x.pc \in {"lookEntry", "remove"} => x.op = "audit"
    /\ x.pc \in {"count", "seedAdmin", "seedUser"} => x.op = "seed"
    /\ x.pc \in {"write", "record"} => x.op \notin {"none", "seed"}
    /\ x.op \notin {"none", "seed", "report"} => x.by \in Users
    /\ x.pc = "seedUser" => Exists("admin")
    /\ x.pc = "remove" => x.entry \in DOMAIN log
    /\ ChangesFit(x)
RequestsFit == \A h \in Handlers : Fits(handlers[h])

\* The account or the report of a field is there.
There(f) == IF f[1] \in Users THEN Exists(f[1])
            ELSE f \in {<<"rule", "enabled">>, <<"report", "status">>} => db[f] # "none"

\* Only a creation or a report writes what is not there yet.
KnownWritten ==
    \A h \in Handlers :
        handlers[h].pc = "record" \/ handlers[h].op \notin {"create", "createRule", "report"}
            => \A f \in DOMAIN handlers[h].sets : There(f)
KnownRecorded == \A i \in DOMAIN log : \A f \in DOMAIN log[i].sets : There(f)

\* A partial update that no other has crossed knows the pair as it is.
PairIsSeen ==
    \A h \in Handlers :
        handlers[h].op = "put" /\ handlers[h].pc = "write" /\ ~handlers[h].crossed
            => IF handlers[h].seen = None THEN ~db[<<"bin", "active">>]
               ELSE handlers[h].seen = <<db[<<"bin", "lng">>], db[<<"bin", "lat">>]>>

Reports == {h \in Handlers : handlers[h].op = "report"}
\* One report at a time; its recipients include those it is owed to.
ReportOwed ==
    /\ \A g, h \in Reports : g = h
    /\ db[<<"report", "status">>] = "none" => owed = {}
    /\ \A h \in Reports :
          /\ handlers[h].pc = "store" => db[<<"report", "status">>] = "none"
          /\ handlers[h].pc = "admins" => owed \subseteq Admins(db)
          /\ handlers[h].pc = "fanOut" => owed \subseteq handlers[h].found

\* Of the field one handler at most is about to record its value; if none is,
\* its last record is still there, and has its value.
Follows(f) ==
    /\ \A h \in Handlers : Recording(h, f)
          => db[f] = handlers[h].sets[f] /\ \A g \in Handlers : Recording(g, f) => g = h
    /\ \/ \E h \in Handlers : Recording(h, f)
       \/ \A i \in DOMAIN log : f \notin DOMAIN log[i].sets
       \/ \E i \in RecordsOf(f) : IsLast(i, f) /\ log[i].sets[f] = db[f]
RecordsFollow == \A f \in Fields \ unsure : Follows(f)

IInv ==
    /\ TypeOK /\ RequestsFit /\ KnownWritten /\ KnownRecorded /\ PairIsSeen
    /\ AdminRemains /\ LocationInSync /\ ReportOwed /\ ReportAnnounced
    /\ RecordsFollow
=============================================================================
