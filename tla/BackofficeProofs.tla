-------------------------- MODULE BackofficeProofs --------------------------
(***************************************************************************)
(* Proofs of the four properties of the back office, for any accounts, any *)
(* number of requests at a time and any number of faults.                  *)
(***************************************************************************)
EXTENDS Backoffice, TLAPS

(* The types of the state: values are of several kinds. *)

Pairs == (Coords \cup {0}) \X (Coords \cup {0})
Values == Coords \cup {0} \cup BOOLEAN \cup {"none", "admin", "user", "NEW", "RESOLVED",
                                      "on", "off", "deleted"}
Changes == UNION {[S -> Values] : S \in SUBSET Fields}
Pcs == {"idle", "look", "hook", "write", "record", "lookEntry", "remove", "store", "admins",
        "fanOut", "count", "seedAdmin", "seedUser"}
Ops == {"none", "create", "update", "delete", "upsert", "put", "createRule", "putRule", "report",
        "audit", "seed"}
Requests ==
    [pc : Pcs, op : Ops, by : Users \cup {"system"}, sets : Changes, seen : Pairs \cup {None},
     entry : Nat, crossed : BOOLEAN, found : SUBSET Users]
Records == [sets : Changes, gone : BOOLEAN]

Typed ==
    /\ TypeOK
    /\ db \in [Fields -> Values]
    /\ handlers \in [Handlers -> Requests]
    /\ log \in Seq(Records)
    /\ db[<<"bin", "lat">>] \in Coords \cup {0} /\ db[<<"bin", "lng">>] \in Coords \cup {0}
Inv == Typed /\ IInv

LEMMA ChangeType ==
    ASSUME NEW c \in Changes
    PROVE  DOMAIN c \subseteq Fields /\ \A f \in DOMAIN c : c[f] \in Values
  BY DEF Changes

LEMMA NewChange ==
    ASSUME NEW S \in SUBSET Fields, NEW c \in [S -> Values]
    PROVE  c \in Changes
  BY DEF Changes

LEMMA NoChange == None \in Changes /\ DOMAIN None = {}
  <1>1. DOMAIN None = {}
    BY DEF None
  <1>2. None \in [{} -> Values]
    BY DEF None
  <1>3. {} \in SUBSET Fields
    OBVIOUS
  <1>4. QED
    BY <1>1, <1>2, <1>3, NewChange

LEMMA PairIsSome == \A p \in Pairs : p # None
  <1>1. \A a, b : <<a, b>> # None
    <2> TAKE a, b
    <2>1. 1 \in DOMAIN <<a, b>>
      OBVIOUS
    <2>2. QED
      BY <2>1, NoChange
  <1>2. QED
    BY <1>1 DEF Pairs

LEMMA IdleFields ==
    /\ Idle \in Requests /\ Idle.pc = "idle" /\ Idle.op = "none" /\ Idle.by = "system"
    /\ Idle.sets = None /\ Idle.crossed = FALSE
  <1>1. None \in Changes /\ None \in Pairs \cup {None}
    BY NoChange
  <1>2. "idle" \in Pcs /\ "none" \in Ops /\ 0 \in Nat /\ {} \in SUBSET Users
    BY DEF Pcs, Ops
  <1>3. Idle \in Requests
    BY <1>1, <1>2 DEF Idle, Requests
  <1>4. QED
    BY <1>3 DEF Idle

\* The fields of an account are not those of anything else.
LEMMA FieldFacts ==
    /\ \A u \in Users : <<u, "role">> \in Fields /\ <<u, "active">> \in Fields
    /\ {<<"bin", "lat">>, <<"bin", "lng">>, <<"bin", "active">>, <<"rule", "enabled">>,
        <<"config", "value">>, <<"report", "status">>} \subseteq Fields
    /\ "bin" \notin Users /\ "rule" \notin Users /\ "config" \notin Users /\ "report" \notin Users
    /\ "admin" \in Users /\ "user" \in Users /\ "system" \notin Users
  BY BackofficeAssumption DEF Fields, Things

LEMMA FieldKinds ==
    ASSUME NEW f \in Fields
    PROVE  /\ f = <<f[1], f[2]>>
           /\ f[1] \in Users => f[2] \in {"role", "active"}
           /\ f[1] \notin Users => f \in {<<"bin", "lat">>, <<"bin", "lng">>, <<"bin", "active">>,
                                          <<"rule", "enabled">>, <<"config", "value">>,
                                          <<"report", "status">>}
  BY FieldFacts DEF Fields

----
(* Steps of one handler that leave the documents, the log and the bell *)

HandlersKeep(h) == \A g \in Handlers \ {h} : handlers'[g] = handlers[g]
DocumentsKeep == UNCHANGED <<db, location, log, announced, unsure, lapsed, torn, owed>>

LEMMA SameDocuments ==
    ASSUME Inv, DocumentsKeep
    PROVE  /\ AdminRemains' /\ LocationInSync' /\ KnownRecorded'
           /\ Admins(db)' = Admins(db) /\ \A f : There(f)' = There(f)
           /\ \A u : Exists(u)' = Exists(u)
  <1>1. \A u : Exists(u)' = Exists(u)
    BY DEF DocumentsKeep, Exists
  <1>2. Admins(db)' = Admins(db)
    BY DEF DocumentsKeep, Admins, IsAdmin
  <1>3. \A f : There(f)' = There(f)
    BY <1>1 DEF There, DocumentsKeep
  <1>4. AdminRemains' /\ LocationInSync' /\ KnownRecorded'
    BY <1>1, <1>2, <1>3 DEF Inv, IInv, AdminRemains, LocationInSync, KnownRecorded, DocumentsKeep
  <1>5. QED
    BY <1>1, <1>2, <1>3, <1>4

\* A field that is neither written nor recorded, with the same handlers about
\* to record it.
LEMMA FollowsKept ==
    ASSUME NEW f, Follows(f), log' = log, db'[f] = db[f],
           \A g \in Handlers : Recording(g, f)' <=> Recording(g, f),
           \A g \in Handlers : Recording(g, f) => handlers'[g].sets = handlers[g].sets
    PROVE  Follows(f)'
  BY DEF Follows, RecordsOf, IsLast

\* The handlers' part of the invariant, for one that is not about to record.
LEMMA OthersRecord ==
    ASSUME Inv, DocumentsKeep, NEW h \in Handlers, HandlersKeep(h),
           handlers[h].pc # "record", handlers'[h].pc # "record"
    PROVE  RecordsFollow'
  <1> SUFFICES ASSUME NEW f \in Fields \ unsure PROVE Follows(f)'
    BY DEF RecordsFollow, DocumentsKeep
  <1>1. \A g \in Handlers : \/ handlers'[g] = handlers[g]
                            \/ handlers[g].pc # "record" /\ handlers'[g].pc # "record"
    BY DEF HandlersKeep
  <1>2. \A g \in Handlers : Recording(g, f)' <=> Recording(g, f)
    BY <1>1 DEF Recording
  <1>3. \A g \in Handlers : Recording(g, f) => handlers'[g].sets = handlers[g].sets
    BY <1>1 DEF Recording
  <1>4. Follows(f) /\ log' = log /\ db'[f] = db[f]
    BY DEF Inv, IInv, RecordsFollow, DocumentsKeep
  <1>5. QED
    BY <1>2, <1>3, <1>4, FollowsKept

\* What a handler may do about the report, short of sending it.
LEMMA ReportKept ==
    ASSUME Inv, NEW h \in Handlers, HandlersKeep(h),
           handlers[h].op # "report", handlers'[h].op # "report",
           announced' = announced, owed' \subseteq owed,
           owed \subseteq Admins(db) => owed' \subseteq Admins(db)',
           db'[<<"report", "status">>] = "none" <=> db[<<"report", "status">>] = "none"
    PROVE  ReportOwed' /\ ReportAnnounced'
  <1>1. Reports' = Reports
    BY DEF Reports, HandlersKeep
  <1>2. \A g \in Reports : handlers'[g] = handlers[g]
    BY DEF Reports, HandlersKeep
  <1>3. ReportOwed'
    BY <1>1, <1>2 DEF Inv, IInv, ReportOwed
  <1>4. (\A g \in Handlers : handlers[g].op # "report") <=> Reports = {}
    BY DEF Reports
  <1>5. (\A g \in Handlers : handlers'[g].op # "report") <=> Reports' = {}
    BY DEF Reports
  <1>6. ReportAnnounced'
    BY <1>1, <1>4, <1>5 DEF Inv, IInv, ReportAnnounced
  <1>7. QED
    BY <1>3, <1>6

LEMMA OneHandler ==
    ASSUME Inv, DocumentsKeep, NEW h \in Handlers, HandlersKeep(h),
           handlers' \in [Handlers -> Requests],
           handlers[h].pc # "record", handlers'[h].pc # "record", Fits(handlers'[h]),
           handlers'[h].op \notin {"create", "createRule", "report"} => \A f \in DOMAIN handlers'[h].sets : There(f),
           handlers'[h].op = "put" /\ handlers'[h].pc = "write"
              => handlers'[h].seen = IF db[<<"bin", "active">>]
                                     THEN <<db[<<"bin", "lng">>], db[<<"bin", "lat">>]>> ELSE None,
           ReportOwed', ReportAnnounced',
           tokens' \subseteq Users, calls' \in 0 .. MaxCalls, events' \in 0 .. MaxEvents
    PROVE  Inv'
  <1>1. /\ db' = db /\ log' = log /\ location' = location /\ announced' = announced
        /\ unsure' = unsure /\ lapsed' = lapsed /\ torn' = torn /\ owed' = owed
    BY DEF DocumentsKeep
  <1>2. \A g \in Handlers : DOMAIN handlers'[g].sets \subseteq Fields
    <2> TAKE g \in Handlers
    <2>1. handlers'[g].sets \in Changes
      BY DEF Requests
    <2>2. QED
      BY <2>1, ChangeType
  <1>3. TypeOK'
    BY <1>1, <1>2 DEF Inv, Typed, TypeOK
  <1>4. Typed'
    BY <1>1, <1>3 DEF Inv, Typed
  <1>5. RequestsFit'
    <2>1. ASSUME NEW g \in Handlers PROVE Fits(handlers'[g])
      BY DEF Inv, IInv, RequestsFit, HandlersKeep
    <2>2. Exists("admin")' = Exists("admin")
      BY SameDocuments
    <2>3. ASSUME NEW g \in Handlers PROVE Fits(handlers[g])'
      BY <1>1, <2>1, <2>2 DEF Fits, ChangesFit, MovesBin
    <2>4. QED
      BY <2>3 DEF RequestsFit
  <1>6. KnownWritten'
    <2> SUFFICES ASSUME NEW g \in Handlers,
                        handlers'[g].pc = "record" \/ handlers'[g].op \notin {"create", "createRule", "report"},
                        NEW f \in DOMAIN handlers'[g].sets
                 PROVE  There(f)'
      BY DEF KnownWritten
    <2>1. There(f)
      BY DEF Inv, IInv, KnownWritten, HandlersKeep
    <2>2. QED
      BY <2>1, SameDocuments
  <1>7. PairIsSeen'
    <2> SUFFICES ASSUME NEW g \in Handlers, handlers'[g].op = "put", handlers'[g].pc = "write",
                        ~handlers'[g].crossed
                 PROVE  IF handlers'[g].seen = None THEN ~db[<<"bin", "active">>]
                        ELSE handlers'[g].seen = <<db[<<"bin", "lng">>], db[<<"bin", "lat">>]>>
      BY <1>1 DEF PairIsSeen
    <2>1. CASE g = h
      <3>1. <<db[<<"bin", "lng">>], db[<<"bin", "lat">>]>> # None
        BY PairIsSome DEF Pairs, Inv, Typed
      <3>2. QED
        BY <2>1, <3>1
    <2>2. CASE g # h
      BY <2>2 DEF HandlersKeep, Inv, IInv, PairIsSeen
    <2>3. QED
      BY <2>1, <2>2
  <1>8. AdminRemains' /\ LocationInSync' /\ KnownRecorded' /\ RecordsFollow'
    BY SameDocuments, OthersRecord
  <1>9. QED
    BY <1>3, <1>4, <1>5, <1>6, <1>7, <1>8 DEF Inv, IInv

\* A handler that is done.
LEMMA DoneFits == Fits(Idle)
  BY IdleFields, NoChange DEF Fits, ChangesFit, MovesBin

\* A request of an administrator is let in.
LEMMA AcceptStep ==
    ASSUME Inv, NEW h \in Handlers, NEW op \in Ops, NEW by \in Users \cup {"system"},
           NEW pc \in Pcs \ {"record"}, NEW sets \in Changes, Accept(h, op, by, pc, sets),
           \A x : x.pc = pc /\ x.op = op /\ x.by = by /\ x.sets = sets => Fits(x),
           op \notin {"create", "createRule", "report"} => \A f \in DOMAIN sets : There(f),
           ~(op = "put" /\ pc = "write"), op = "report" => ReportOwed' /\ ReportAnnounced'
    PROVE  Inv'
  <1> DEFINE x == [Idle EXCEPT !.pc = pc, !.op = op, !.by = by, !.sets = sets]
  <1>1. x \in Requests /\ x.pc = pc /\ x.op = op /\ x.by = by /\ x.sets = sets
    <2>1. op \in Ops /\ pc \in Pcs
      OBVIOUS
    <2>2. x \in Requests
      BY <2>1, IdleFields DEF Requests
    <2>3. QED
      BY <2>2, IdleFields DEF Requests
  <1>2. /\ handlers' = [handlers EXCEPT ![h] = x] /\ handlers[h].pc = "idle"
        /\ DocumentsKeep /\ tokens' = tokens /\ events' = events
        /\ calls < MaxCalls /\ calls' = calls + 1
    BY DEF Accept, DocumentsKeep
  <1> HIDE DEF x
  <1>3. handlers' \in [Handlers -> Requests] /\ handlers'[h] = x /\ HandlersKeep(h)
    BY <1>1, <1>2 DEF Inv, Typed, HandlersKeep
  <1>4. calls' \in 0 .. MaxCalls /\ tokens' \subseteq Users /\ events' \in 0 .. MaxEvents
    <2>1. calls \in 0 .. MaxCalls /\ tokens \subseteq Users /\ events \in 0 .. MaxEvents
      BY DEF Inv, Typed, TypeOK
    <2>2. calls' \in 0 .. MaxCalls
      BY <1>2, <2>1, BackofficeAssumption
    <2>3. QED
      BY <1>2, <2>1, <2>2
  <1>5. handlers[h].op # "report"
    BY <1>2 DEF Inv, IInv, RequestsFit, Fits
  <1>6. ReportOwed' /\ ReportAnnounced'
    <2>1. owed' = owed /\ announced' = announced /\ db' = db /\ Admins(db)' = Admins(db)
      BY <1>2, SameDocuments DEF DocumentsKeep
    <2>2. CASE op # "report"
      BY <1>1, <1>3, <1>5, <2>1, <2>2, ReportKept
    <2>3. QED
      BY <2>2
  <1>7. Fits(x)
    BY <1>1
  <1>8. QED
    BY <1>1, <1>2, <1>3, <1>4, <1>6, <1>7, OneHandler

----
(* The requests *)

LEMMA CreateUserStep ==
    ASSUME Inv, NEW h \in Handlers, NEW by \in tokens, CreateUser(h, by)
    PROVE  Inv'
  <1>0. by \in Users
    BY DEF Inv, Typed, TypeOK
  <1>1. PICK u \in Users, role \in {"admin", "user"} :
            Accept(h, "create", by, "look", [f \in {<<u, "role">>, <<u, "active">>} |->
                                                IF f[2] = "role" THEN role ELSE TRUE])
    BY DEF CreateUser
  <1> DEFINE S == {<<u, "role">>, <<u, "active">>}
             sets == [f \in S |-> IF f[2] = "role" THEN role ELSE TRUE]
  <1>2. S \in SUBSET Fields
    BY FieldFacts
  <1>3. DOMAIN sets = S /\ sets \in [S -> Values]
        /\ \A f \in S : (f[2] = "role" => sets[f] \in {"admin", "user"})
                        /\ f[1] \in Users /\ <<f[1], "role">> \in S
    BY DEF Values
  <1>4. \A f \in S : f \notin {<<"bin", "lat">>, <<"bin", "lng">>, <<"bin", "active">>,
                         <<"rule", "enabled">>, <<"report", "status">>}
    BY FieldFacts
  <1> HIDE DEF sets, S
  <1>5. sets \in Changes
    BY <1>2, <1>3, NewChange
  <1>6. \A x : x.pc = "look" /\ x.op = "create" /\ x.by = by /\ x.sets = sets => Fits(x)
    BY <1>0, <1>3, <1>4 DEF Fits, ChangesFit, MovesBin
  <1>7. Accept(h, "create", by, "look", sets)
    BY <1>1 DEF sets, S
  <1>8. by \in Users \cup {"system"}
    BY <1>0
  <1>9. "create" \in Ops /\ "look" \in Pcs \ {"record"}
    BY DEF Ops, Pcs
  <1>10. QED
    BY <1>5, <1>6, <1>7, <1>8, <1>9, AcceptStep

\* A request that writes one field of something that is there, or is created.
LEMMA OneField ==
    ASSUME Inv, NEW h \in Handlers, NEW by \in tokens,
           NEW op \in {"update", "delete", "upsert", "createRule", "putRule"},
           NEW f \in Fields, NEW v \in Values, Accept(h, op, by, "write", One(f, v)),
           f[2] = "role" => v \in {"admin", "user"}, f[1] = by => v = Harmless(f),
           f \notin {<<"bin", "lat">>, <<"bin", "lng">>}, f = <<"bin", "active">> => v = FALSE,
           f \in {<<"rule", "enabled">>, <<"report", "status">>} => v # "none",
           IF op = "createRule" THEN f = <<"rule", "enabled">> ELSE There(f)
    PROVE  Inv'
  <1> DEFINE sets == One(f, v)
  <1>1. DOMAIN sets = {f} /\ sets \in [{f} -> Values] /\ sets[f] = v
    BY DEF One
  <1> HIDE DEF sets
  <1>2. sets \in Changes
    BY <1>1, NewChange
  <1>3. ~MovesBin(sets)
    BY <1>1 DEF MovesBin
  <1>4. by \in Users
    BY DEF Inv, Typed, TypeOK
  <1>5. \A x : x.pc = "write" /\ x.op = op /\ x.by = by /\ x.sets = sets => Fits(x)
    BY <1>1, <1>3, <1>4 DEF Fits, ChangesFit, MovesBin
  <1>6. by \in Users \cup {"system"}
    BY <1>4
  <1>7. op \in Ops /\ op # "report" /\ "write" \in Pcs \ {"record"} /\ op # "put"
    BY DEF Ops, Pcs
  <1>8. Accept(h, op, by, "write", sets)
    BY DEF sets
  <1>9. op \notin {"create", "createRule", "report"} => \A g \in DOMAIN sets : There(g)
    BY <1>1
  <1>10. QED
    BY <1>2, <1>5, <1>6, <1>7, <1>8, <1>9, AcceptStep

LEMMA UpdateUserStep ==
    ASSUME Inv, NEW h \in Handlers, NEW by \in tokens, UpdateUser(h, by)
    PROVE  Inv'
  <1>1. PICK u \in {v \in Users : Exists(v)}, names \in SUBSET {"role", "active"},
             role \in {"admin", "user"}, active \in BOOLEAN :
            /\ ~SelfProtected(by, u, IF "role" \in names THEN role ELSE "admin",
                                    "active" \in names => active)
            /\ Accept(h, "update", by, "write",
                      [f \in {u} \X names |-> IF f[2] = "role" THEN role ELSE active])
    BY DEF UpdateUser
  <1> DEFINE S == {u} \X names
             sets == [f \in S |-> IF f[2] = "role" THEN role ELSE active]
  <1>2. \A f \in S : \/ f = <<u, "role">> /\ "role" \in names
                     \/ f = <<u, "active">> /\ "active" \in names
    <2> TAKE f \in S
    <2>1. f \in {u} \X names
      OBVIOUS
    <2> HIDE DEF S
    <2>2. f = <<u, f[2]>> /\ f[2] \in names
      BY <2>1
    <2>3. f[2] \in {"role", "active"}
      BY <2>2
    <2>4. QED
      BY <2>2, <2>3
  <1>3. S \in SUBSET Fields /\ u \in Users /\ by \in Users
    <2>1. u \in Users /\ by \in Users
      BY DEF Inv, Typed, TypeOK
    <2>2. \A f \in S : f \in Fields
      BY <1>2, <2>1, FieldFacts
    <2> HIDE DEF S
    <2>3. QED
      BY <2>1, <2>2
  <1>4. \A f \in S : There(f)
    <2>1. \A f \in S : f[1] = u
      BY <1>2
    <2> HIDE DEF S
    <2>2. QED
      BY <1>1, <1>3, <2>1 DEF There
  <1>5. DOMAIN sets = S /\ sets \in [S -> Values]
        /\ \A f \in S : f[2] = "role" => sets[f] \in {"admin", "user"}
    BY DEF Values
  <1>6. \A f \in S : f[1] = by => sets[f] = Harmless(f)
    <2> SUFFICES ASSUME NEW f \in S, f[1] = by PROVE sets[f] = Harmless(f)
      OBVIOUS
    <2>1. CASE f[2] = "role"
      <3>1. "role" \in names /\ u = by
        BY <1>2, <2>1
      <3>2. role = "admin"
        BY <1>1, <3>1 DEF SelfProtected
      <3>3. QED
        BY <2>1, <3>2 DEF Harmless
    <2>2. CASE f[2] # "role"
      <3>1. "active" \in names /\ u = by
        BY <1>2, <2>2
      <3>2. active = TRUE
        BY <1>1, <3>1 DEF SelfProtected
      <3>3. QED
        BY <2>2, <3>2 DEF Harmless
    <2>3. QED
      BY <2>1, <2>2
  <1>7. \A f \in S : f \notin {<<"bin", "lat">>, <<"bin", "lng">>, <<"bin", "active">>,
                              <<"rule", "enabled">>, <<"report", "status">>}
    BY <1>2, FieldFacts
  <1> HIDE DEF sets, S
  <1>8. sets \in Changes
    BY <1>3, <1>5, NewChange
  <1>9. \A x : x.pc = "write" /\ x.op = "update" /\ x.by = by /\ x.sets = sets => Fits(x)
    BY <1>3, <1>5, <1>6, <1>7 DEF Fits, ChangesFit, MovesBin
  <1>10. Accept(h, "update", by, "write", sets)
    BY <1>1 DEF sets, S
  <1>11. by \in Users \cup {"system"} /\ "update" \in Ops /\ "write" \in Pcs \ {"record"}
    BY <1>3 DEF Ops, Pcs
  <1>12. \A f \in DOMAIN sets : There(f)
    BY <1>4, <1>5
  <1>13. QED
    BY <1>8, <1>9, <1>10, <1>11, <1>12, AcceptStep

\* A request about nothing that is there writes no field.
LEMMA NowhereStep ==
    ASSUME Inv, NEW h \in Handlers, NEW by \in tokens, Nowhere(h, by)
    PROVE  Inv'
  <1>1. Accept(h, "update", by, "write", None) /\ by \in Users
    BY DEF Nowhere, Inv, Typed, TypeOK
  <1>2. \A x : x.pc = "write" /\ x.op = "update" /\ x.by = by /\ x.sets = None => Fits(x)
    BY <1>1, NoChange DEF Fits, ChangesFit, MovesBin
  <1>3. "update" \in Ops /\ "write" \in Pcs \ {"record"} /\ by \in Users \cup {"system"}
    BY <1>1 DEF Ops, Pcs
  <1>4. QED
    BY <1>1, <1>2, <1>3, NoChange, AcceptStep

LEMMA DeleteUserStep ==
    ASSUME Inv, NEW h \in Handlers, NEW by \in tokens, DeleteUser(h, by)
    PROVE  Inv'
  <1>1. ASSUME NEW u \in {v \in Users : Exists(v)} \ {by},
               Accept(h, "delete", by, "write", One(<<u, "active">>, FALSE))
        PROVE  Inv'
    <2>1. There(<<u, "active">>) /\ <<u, "active">> \in Fields /\ u # "bin" /\ FALSE \in Values
          /\ <<u, "active">> \notin {<<"rule", "enabled">>, <<"report", "status">>}
      BY FieldFacts DEF There, Values
    <2>2. QED
      BY <1>1, <2>1, OneField
  <1>2. QED
    BY <1>1, NowhereStep DEF DeleteUser

\* The rule is created, changed, or deleted.
LEMMA RuleStep ==
    ASSUME Inv, NEW h \in Handlers, NEW by \in tokens,
           CreateRule(h, by) \/ PutRule(h, by) \/ DeleteRule(h, by)
    PROVE  Inv'
  <1> DEFINE r == <<"rule", "enabled">>
  <1>1. r \in Fields /\ r[1] # by /\ r[1] \notin Users /\ {"on", "off", "deleted"} \subseteq Values
    BY FieldFacts DEF Values, Inv, Typed, TypeOK
  <1>2. db[r] # "none" => There(r)
    BY <1>1 DEF There
  <1>3. ASSUME NEW op \in {"createRule", "putRule", "delete"}, NEW v \in {"on", "off", "deleted"},
               Accept(h, op, by, "write", One(r, v)), op # "createRule" => There(r)
        PROVE  Inv'
    <2>1. v \in Values /\ op \in {"update", "delete", "upsert", "createRule", "putRule"} /\ v # "none"
      BY <1>1
    <2>2. QED
      BY <1>1, <1>3, <2>1, OneField
  <1>4. CASE CreateRule(h, by)
    BY <1>3, <1>4 DEF CreateRule
  <1>5. CASE PutRule(h, by)
    BY <1>2, <1>3, <1>5, NowhereStep DEF PutRule
  <1>6. CASE DeleteRule(h, by)
    BY <1>2, <1>3, <1>6, NowhereStep DEF DeleteRule
  <1>7. QED
    BY <1>4, <1>5, <1>6

\* The fields that are always there are of no account.
LEMMA PlainThere ==
    ASSUME Inv, NEW by \in tokens,
           NEW f \in {<<"bin", "lat">>, <<"bin", "lng">>, <<"bin", "active">>,
                      <<"config", "value">>}
    PROVE  There(f) /\ f \in Fields /\ f[1] # by /\ f[2] # "role"
  <1>1. by \in Users
    BY DEF Inv, Typed, TypeOK
  <1>2. QED
    BY <1>1, FieldFacts DEF There

LEMMA PlainStep ==
    ASSUME Inv, NEW h \in Handlers, NEW by \in tokens,
           DeleteBin(h, by) \/ PutConfig(h, by) \/ UpdateReport(h, by)
    PROVE  Inv'
  <1>1. CASE DeleteBin(h, by)
    <2>1. FALSE \in Values
      BY DEF Values
    <2>2. QED
      BY <1>1, <2>1, PlainThere, OneField, NowhereStep DEF DeleteBin
  <1>2. CASE PutConfig(h, by)
    <2>1. PICK v \in Coords : Accept(h, "upsert", by, "write", One(<<"config", "value">>, v))
      BY <1>2 DEF PutConfig
    <2>2. v \in Values
      BY DEF Values
    <2>3. QED
      BY <2>1, <2>2, PlainThere, OneField
  <1>3. CASE UpdateReport(h, by)
    <2> DEFINE f == <<"report", "status">>
    <2>1. There(f) /\ f \in Fields /\ f[1] # by /\ "RESOLVED" \in Values
      BY <1>3, FieldFacts DEF There, Values, Inv, Typed, TypeOK, UpdateReport
    <2>2. Accept(h, "update", by, "write", One(f, "RESOLVED"))
      BY <1>3 DEF UpdateReport
    <2>3. QED
      BY <2>1, <2>2, OneField
  <1>4. QED
    BY <1>1, <1>2, <1>3

LEMMA UpsertBinStep ==
    ASSUME Inv, NEW h \in Handlers, NEW by \in tokens, UpsertBin(h, by)
    PROVE  Inv'
  <1>1. PICK v \in Coords :
            Accept(h, "upsert", by, "write",
                   [f \in {<<"bin", "lat">>, <<"bin", "lng">>, <<"bin", "active">>} |->
                        IF f[2] = "active" THEN TRUE ELSE v])
    BY DEF UpsertBin
  <1> DEFINE S == {<<"bin", "lat">>, <<"bin", "lng">>, <<"bin", "active">>}
             sets == [f \in S |-> IF f[2] = "active" THEN TRUE ELSE v]
  <1>2. S \in SUBSET Fields /\ \A f \in S : There(f) /\ f[1] # by /\ f[2] # "role"
    BY PlainThere
  <1>3. DOMAIN sets = S /\ sets \in [S -> Values]
    BY DEF Values
  <1>4. /\ {<<"bin", "lat">>, <<"bin", "lng">>} \subseteq S /\ by \in Users
        /\ \A f \in S : /\ f \in {<<"bin", "lat">>, <<"bin", "lng">>} => sets[f] \in Coords
                        /\ f \notin {<<"rule", "enabled">>, <<"report", "status">>}
    <2>1. by \in Users /\ {<<"bin", "lat">>, <<"bin", "lng">>} \subseteq S
      BY DEF Inv, Typed, TypeOK
    <2>2. \A f \in {<<"bin", "lat">>, <<"bin", "lng">>} : f \in S /\ f[2] # "active"
      OBVIOUS
    <2>3. \A f \in {<<"bin", "lat">>, <<"bin", "lng">>} : sets[f] = v
      BY <2>2
    <2>4. \A f \in S : f \notin {<<"rule", "enabled">>, <<"report", "status">>}
      OBVIOUS
    <2>5. QED
      BY <2>1, <2>3, <2>4
  <1> HIDE DEF sets, S
  <1>5. sets \in Changes
    BY <1>2, <1>3, NewChange
  <1>6. \A x : x.pc = "write" /\ x.op = "upsert" /\ x.by = by /\ x.sets = sets => Fits(x)
    BY <1>2, <1>3, <1>4 DEF Fits, ChangesFit, MovesBin
  <1>7. Accept(h, "upsert", by, "write", sets)
    BY <1>1 DEF sets, S
  <1>8. by \in Users \cup {"system"} /\ "upsert" \in Ops /\ "write" \in Pcs \ {"record"}
    BY DEF Inv, Typed, TypeOK, Ops, Pcs
  <1>9. \A f \in DOMAIN sets : There(f)
    BY <1>2, <1>3
  <1>10. QED
    BY <1>5, <1>6, <1>7, <1>8, <1>9, AcceptStep

LEMMA PutBinStep ==
    ASSUME Inv, NEW h \in Handlers, NEW by \in tokens, PutBin(h, by)
    PROVE  Inv'
  <1>1. PICK side \in {"lat", "lng"}, v \in Coords : Accept(h, "put", by, "hook", One(<<"bin", side>>, v))
    BY DEF PutBin
  <1> DEFINE f == <<"bin", side>>
             sets == One(f, v)
  <1>2. DOMAIN sets = {f} /\ sets \in [{f} -> Values] /\ sets[f] \in Coords
    BY DEF One, Values
  <1>3. There(f) /\ f \in Fields /\ f[1] # by /\ f[2] # "role"
        /\ f \in {<<"bin", "lat">>, <<"bin", "lng">>} /\ by \in Users
    <2>1. f \in {<<"bin", "lat">>, <<"bin", "lng">>} /\ by \in Users
      BY DEF Inv, Typed, TypeOK
    <2>2. QED
      BY <2>1, PlainThere
  <1>4. Accept(h, "put", by, "hook", sets)
    BY <1>1
  <1> HIDE DEF sets, f
  <1>5. sets \in Changes
    BY <1>2, <1>3, NewChange
  <1>6. \A x : x.pc = "hook" /\ x.op = "put" /\ x.by = by /\ x.sets = sets => Fits(x)
    BY <1>2, <1>3 DEF Fits, ChangesFit, MovesBin
  <1>7. by \in Users \cup {"system"} /\ "put" \in Ops /\ "hook" \in Pcs \ {"record"}
    BY DEF Inv, Typed, TypeOK, Ops, Pcs
  <1>8. \A g \in DOMAIN sets : There(g)
    BY <1>2, <1>3
  <1>9. QED
    BY <1>4, <1>5, <1>6, <1>7, <1>8, AcceptStep

LEMMA EmptyStep ==
    ASSUME Inv, NEW h \in Handlers, StartSeed(h) \/ \E by \in tokens : DeleteAudit(h, by)
    PROVE  Inv'
  <1>1. CASE StartSeed(h)
    <2>1. Accept(h, "seed", "system", "count", None)
      BY <1>1 DEF StartSeed
    <2>2. \A x : x.pc = "count" /\ x.op = "seed" /\ x.by = "system" /\ x.sets = None => Fits(x)
      BY NoChange DEF Fits, ChangesFit, MovesBin
    <2>3. "seed" \in Ops /\ "count" \in Pcs \ {"record"}
      BY DEF Ops, Pcs
    <2>4. QED
      BY <2>1, <2>2, <2>3, NoChange, AcceptStep
  <1>2. ASSUME NEW by \in tokens, DeleteAudit(h, by)
        PROVE  Inv'
    <2>1. Accept(h, "audit", by, "lookEntry", None) /\ by \in Users
      BY <1>2 DEF DeleteAudit, Inv, Typed, TypeOK
    <2>2. \A x : x.pc = "lookEntry" /\ x.op = "audit" /\ x.by = by /\ x.sets = None => Fits(x)
      BY <2>1, NoChange DEF Fits, ChangesFit, MovesBin
    <2>3. "audit" \in Ops /\ "lookEntry" \in Pcs \ {"record"} /\ by \in Users \cup {"system"}
      BY <2>1 DEF Ops, Pcs
    <2>4. QED
      BY <2>1, <2>2, <2>3, NoChange, AcceptStep
  <1>3. QED
    BY <1>1, <1>2

LEMMA SubmitReportStep ==
    ASSUME Inv, NEW h \in Handlers, SubmitReport(h)
    PROVE  Inv'
  <1> DEFINE f == <<"report", "status">>
             sets == One(f, "NEW")
             x == [Idle EXCEPT !.pc = "store", !.op = "report", !.by = "system", !.sets = sets]
  <1>1. DOMAIN sets = {f} /\ sets \in [{f} -> Values] /\ f \in Fields /\ f[1] # "system"
        /\ f[2] # "role" /\ f \notin {<<"bin", "lat">>, <<"bin", "lng">>, <<"bin", "active">>}
        /\ sets[f] = "NEW"
    BY FieldFacts DEF One, Values
  <1>2. /\ Accept(h, "report", "system", "store", sets)
        /\ db[<<"report", "status">>] = "none" /\ Reports = {}
    BY DEF SubmitReport, Reports
  <1>3. handlers' = [handlers EXCEPT ![h] = x] /\ db' = db /\ owed' = owed
    BY <1>2 DEF Accept
  <1> HIDE DEF sets, f
  <1>4. sets \in Changes
    BY <1>1, NewChange
  <1>5. x.pc = "store" /\ x.op = "report"
    BY IdleFields DEF Requests
  <1> HIDE DEF x
  <1>6. \A y : y.pc = "store" /\ y.op = "report" /\ y.by = "system" /\ y.sets = sets => Fits(y)
    BY <1>1 DEF Fits, ChangesFit, MovesBin
  <1>7. handlers'[h] = x /\ HandlersKeep(h)
    BY <1>3 DEF Inv, Typed, HandlersKeep
  <1>8. \A g \in Handlers : handlers'[g].op = "report" => g = h
    BY <1>2, <1>7 DEF Reports, HandlersKeep
  <1>9. owed = {}
    BY <1>2 DEF Inv, IInv, ReportOwed
  <1>10. ReportOwed'
    BY <1>2, <1>3, <1>5, <1>7, <1>8, <1>9 DEF ReportOwed, Reports
  <1>11. ReportAnnounced'
    BY <1>3, <1>9 DEF ReportAnnounced
  <1>12. "report" \in Ops /\ "store" \in Pcs \ {"record"}
    BY DEF Ops, Pcs
  <1>13. QED
    BY <1>2, <1>4, <1>6, <1>10, <1>11, <1>12, AcceptStep

----
(* Look-ups *)

\* A handler goes on, or is done.
LEMMA GoesOn ==
    ASSUME Inv, DocumentsKeep, NEW h \in Handlers, NEW pc \in Pcs \ {"record"},
           \/ handlers' = Done(h)
           \/ handlers' = [handlers EXCEPT ![h].pc = pc],
           handlers[h].op # "report", handlers[h].pc \notin {"idle", "record"},
           pc = "write" => handlers[h].op = "create",
           pc \in {"seedAdmin", "seedUser"} => handlers[h].op = "seed",
           pc \notin {"look", "hook", "lookEntry", "count", "store", "admins", "fanOut", "remove"},
           pc = "seedUser" => Exists("admin"),
           tokens' = tokens, calls' = calls, events' = events
    PROVE  Inv'
  <1>1. handlers[h] \in Requests /\ Fits(handlers[h])
        /\ (handlers[h].op \notin {"create", "createRule"} => \A f \in DOMAIN handlers[h].sets : There(f))
    BY DEF Inv, Typed, IInv, RequestsFit, KnownWritten
  <1>2. tokens' \subseteq Users /\ calls' \in 0 .. MaxCalls /\ events' \in 0 .. MaxEvents
    BY DEF Inv, Typed, TypeOK
  <1>3. \A x : x \in Requests /\ handlers' = [handlers EXCEPT ![h] = x]
           => handlers' \in [Handlers -> Requests] /\ handlers'[h] = x /\ HandlersKeep(h)
    BY DEF Inv, Typed, HandlersKeep
  <1>4. owed' = owed /\ announced' = announced /\ db' = db /\ Admins(db)' = Admins(db)
    BY SameDocuments DEF DocumentsKeep
  <1>5. CASE handlers' = Done(h)
    <2>1. handlers' = [handlers EXCEPT ![h] = Idle]
      BY <1>5 DEF Done
    <2>2. handlers' \in [Handlers -> Requests] /\ handlers'[h] = Idle /\ HandlersKeep(h)
      BY <1>3, <2>1, IdleFields
    <2>3. ReportOwed' /\ ReportAnnounced'
      BY <1>4, <2>2, IdleFields, ReportKept
    <2>4. DOMAIN Idle.sets = {}
      BY IdleFields, NoChange
    <2>5. QED
      BY <1>2, <2>2, <2>3, <2>4, IdleFields, DoneFits, OneHandler
  <1>6. CASE handlers' = [handlers EXCEPT ![h].pc = pc]
    <2> DEFINE x == [handlers[h] EXCEPT !.pc = pc]
    <2>1. x \in Requests /\ x.pc = pc /\ x.op = handlers[h].op /\ x.by = handlers[h].by
          /\ x.sets = handlers[h].sets /\ x.entry = handlers[h].entry
      BY <1>1 DEF Requests
    <2>2. handlers' = [handlers EXCEPT ![h] = x]
      BY <1>6
    <2> HIDE DEF x
    <2>3. handlers' \in [Handlers -> Requests] /\ handlers'[h] = x /\ HandlersKeep(h)
      BY <1>3, <2>1, <2>2
    <2>4. ReportOwed' /\ ReportAnnounced'
      BY <1>4, <2>1, <2>3, ReportKept
    <2>5. Fits(x)
      BY <1>1, <2>1 DEF Fits, ChangesFit, MovesBin
    <2>6. QED
      BY <1>1, <1>2, <2>1, <2>3, <2>4, <2>5, OneHandler
  <1>7. QED
    BY <1>5, <1>6

LEMMA LookStep == ASSUME Inv, NEW h \in Handlers, Look(h) PROVE Inv'
  <1>1. Fits(handlers[h])
    BY DEF Inv, IInv, RequestsFit
  <1>2. handlers[h].pc = "look" /\ handlers[h].op = "create"
    BY <1>1 DEF Look, Fits
  <1>3. handlers' = Done(h) \/ handlers' = [handlers EXCEPT ![h].pc = "write"]
    BY DEF Look
  <1>4. DocumentsKeep /\ tokens' = tokens /\ calls' = calls /\ events' = events
    BY DEF Look, DocumentsKeep
  <1>5. "write" \in Pcs \ {"record"}
    BY DEF Pcs
  <1>6. QED
    BY <1>2, <1>3, <1>4, <1>5, GoesOn

LEMMA SeedCountStep == ASSUME Inv, NEW h \in Handlers, SeedCount(h) PROVE Inv'
  <1>1. Fits(handlers[h])
    BY DEF Inv, IInv, RequestsFit
  <1>2. handlers[h].pc = "count" /\ handlers[h].op = "seed"
    BY <1>1 DEF SeedCount, Fits
  <1>3. handlers' = Done(h) \/ handlers' = [handlers EXCEPT ![h].pc = "seedAdmin"]
    BY DEF SeedCount
  <1>4. DocumentsKeep /\ tokens' = tokens /\ calls' = calls /\ events' = events
    BY DEF SeedCount, DocumentsKeep
  <1>5. "seedAdmin" \in Pcs \ {"record"}
    BY DEF Pcs
  <1>6. QED
    BY <1>2, <1>3, <1>4, <1>5, GoesOn

LEMMA HookStep == ASSUME Inv, NEW h \in Handlers, Hook(h) PROVE Inv'
  <1> DEFINE seen == IF db[<<"bin", "active">>] THEN <<db[<<"bin", "lng">>], db[<<"bin", "lat">>]>>
                     ELSE None
             x == [handlers[h] EXCEPT !.pc = "write", !.seen = seen]
  <1>1. handlers[h] \in Requests /\ Fits(handlers[h]) /\ handlers[h].pc = "hook"
        /\ (handlers[h].op \notin {"create", "createRule"} => \A f \in DOMAIN handlers[h].sets : There(f))
    BY DEF Inv, Typed, IInv, RequestsFit, KnownWritten, Hook, Fits
  <1>2. handlers[h].op = "put"
    BY <1>1 DEF Fits, ChangesFit, MovesBin
  <1>3. seen \in Pairs \cup {None} /\ "write" \in Pcs
    BY DEF Pairs, Inv, Typed, Pcs
  <1>4. handlers' = [handlers EXCEPT ![h].pc = "write", ![h].seen = seen]
    BY DEF Hook
  <1> HIDE DEF seen
  <1>5. x \in Requests /\ x.pc = "write" /\ x.op = "put" /\ x.by = handlers[h].by
        /\ x.sets = handlers[h].sets /\ x.seen = seen
    BY <1>1, <1>2, <1>3 DEF Requests
  <1>6. handlers' = [handlers EXCEPT ![h] = x]
    BY <1>1, <1>4 DEF Inv, Typed
  <1> HIDE DEF x
  <1>7. handlers' \in [Handlers -> Requests] /\ handlers'[h] = x /\ HandlersKeep(h)
    BY <1>5, <1>6 DEF Inv, Typed, HandlersKeep
  <1>8. DocumentsKeep /\ tokens' = tokens /\ calls' = calls /\ events' = events
    BY DEF Hook, DocumentsKeep
  <1>9. tokens' \subseteq Users /\ calls' \in 0 .. MaxCalls /\ events' \in 0 .. MaxEvents
    BY <1>8 DEF Inv, Typed, TypeOK
  <1>10. owed' = owed /\ announced' = announced /\ db' = db /\ Admins(db)' = Admins(db)
    BY <1>8, SameDocuments DEF DocumentsKeep
  <1>11. ReportOwed' /\ ReportAnnounced'
    BY <1>2, <1>5, <1>7, <1>10, ReportKept
  <1>12. Fits(x)
    BY <1>1, <1>2, <1>5 DEF Fits, ChangesFit, MovesBin
  <1>13. QED
    BY <1>1, <1>2, <1>5, <1>7, <1>8, <1>9, <1>11, <1>12, OneHandler DEF seen

\* A record to delete is found, or not.
LEMMA LookEntryStep == ASSUME Inv, NEW h \in Handlers, LookEntry(h) PROVE Inv'
  <1>1. handlers[h] \in Requests /\ Fits(handlers[h]) /\ handlers[h].pc = "lookEntry"
    BY DEF Inv, Typed, IInv, RequestsFit, LookEntry
  <1>2. handlers[h].op = "audit" /\ handlers[h].sets = None
    BY <1>1 DEF Fits, ChangesFit, MovesBin
  <1>3. DocumentsKeep /\ tokens' = tokens /\ calls' = calls /\ events' = events
    BY DEF LookEntry, DocumentsKeep
  <1>4. CASE handlers' = Done(h)
    <2>1. "idle" \in Pcs \ {"record"}
      BY DEF Pcs
    <2>2. QED
      BY <1>1, <1>2, <1>3, <1>4, <2>1, GoesOn
  <1>5. ASSUME NEW i \in DOMAIN log,
               handlers' = [handlers EXCEPT ![h].pc = "remove", ![h].entry = i]
        PROVE  Inv'
    <2> DEFINE x == [handlers[h] EXCEPT !.pc = "remove", !.entry = i]
    <2>1. i \in Nat /\ "remove" \in Pcs
      BY DEF Inv, Typed, Pcs
    <2>2. x \in Requests /\ x.pc = "remove" /\ x.op = "audit" /\ x.by = handlers[h].by
          /\ x.sets = None /\ x.entry = i
      BY <1>1, <1>2, <2>1 DEF Requests
    <2>3. handlers' = [handlers EXCEPT ![h] = x]
      BY <1>1, <1>5 DEF Inv, Typed
    <2> HIDE DEF x
    <2>4. handlers' \in [Handlers -> Requests] /\ handlers'[h] = x /\ HandlersKeep(h)
      BY <2>2, <2>3 DEF Inv, Typed, HandlersKeep
    <2>5. tokens' \subseteq Users /\ calls' \in 0 .. MaxCalls /\ events' \in 0 .. MaxEvents
      BY <1>3 DEF Inv, Typed, TypeOK
    <2>6. owed' = owed /\ announced' = announced /\ db' = db /\ Admins(db)' = Admins(db)
      BY <1>3, SameDocuments DEF DocumentsKeep
    <2>7. ReportOwed' /\ ReportAnnounced'
      BY <1>2, <2>2, <2>4, <2>6, ReportKept
    <2>8. Fits(x) /\ \A f \in DOMAIN x.sets : There(f)
      BY <1>1, <1>2, <2>2, NoChange DEF Fits, ChangesFit, MovesBin
    <2>9. QED
      BY <1>1, <1>3, <2>2, <2>4, <2>5, <2>7, <2>8, OneHandler
  <1>6. QED
    BY <1>4, <1>5 DEF LookEntry

\* The recipients of the report are found: all that it is owed to.
LEMMA FindAdminsStep == ASSUME Inv, NEW h \in Handlers, FindAdmins(h) PROVE Inv'
  <1> DEFINE x == [handlers[h] EXCEPT !.pc = "fanOut", !.found = Admins(db)]
  <1>1. handlers[h] \in Requests /\ Fits(handlers[h]) /\ handlers[h].pc = "admins"
    BY DEF Inv, Typed, IInv, RequestsFit, FindAdmins
  <1>2. handlers[h].op = "report"
    BY <1>1 DEF Fits, ChangesFit, MovesBin
  <1>3. Admins(db) \subseteq Users /\ "fanOut" \in Pcs
    BY DEF Admins, Pcs
  <1>4. x \in Requests /\ x.pc = "fanOut" /\ x.op = "report" /\ x.by = handlers[h].by
        /\ x.sets = handlers[h].sets /\ x.found = Admins(db)
    BY <1>1, <1>2, <1>3 DEF Requests
  <1>5. handlers' = [handlers EXCEPT ![h] = x]
    BY <1>1 DEF Inv, Typed, FindAdmins, Recipients
  <1> HIDE DEF x
  <1>6. handlers' \in [Handlers -> Requests] /\ handlers'[h] = x /\ HandlersKeep(h)
    BY <1>4, <1>5 DEF Inv, Typed, HandlersKeep
  <1>7. DocumentsKeep /\ tokens' = tokens /\ calls' = calls /\ events' = events
    BY DEF FindAdmins, DocumentsKeep
  <1>8. tokens' \subseteq Users /\ calls' \in 0 .. MaxCalls /\ events' \in 0 .. MaxEvents
    BY <1>7 DEF Inv, Typed, TypeOK
  <1>9. owed' = owed /\ db' = db /\ Admins(db)' = Admins(db)
    BY <1>7, SameDocuments DEF DocumentsKeep
  <1>10. \A g \in Handlers : handlers'[g].op = "report" => g = h
    BY <1>2, <1>4, <1>6 DEF HandlersKeep, Inv, IInv, ReportOwed, Reports
  <1>11. h \in Reports /\ owed \subseteq Admins(db)
         /\ (db[<<"report", "status">>] = "none" => owed = {})
    BY <1>1, <1>2 DEF Inv, IInv, ReportOwed, Reports
  <1>12. ReportOwed'
    BY <1>4, <1>6, <1>9, <1>10, <1>11 DEF ReportOwed, Reports
  <1>13. ReportAnnounced'
    BY <1>4, <1>6 DEF ReportAnnounced
  <1>14. Fits(x)
    BY <1>1, <1>2, <1>4 DEF Fits, ChangesFit, MovesBin
  <1>15. QED
    BY <1>1, <1>4, <1>6, <1>7, <1>8, <1>12, <1>13, <1>14, OneHandler

\* Tokens come and go.
LEMMA TokenStep ==
    ASSUME Inv, NEW u \in Users, SignIn(u) \/ Expire(u)
    PROVE  Inv'
  <1>1. DocumentsKeep /\ handlers' = handlers /\ calls' = calls
        /\ (tokens' = tokens \cup {u} \/ tokens' = tokens \ {u})
    BY DEF SignIn, Expire, DocumentsKeep
  <1>2. events' \in 0 .. MaxEvents
    BY BackofficeAssumption DEF SignIn, Expire, Event, Inv, Typed, TypeOK
  <1>3. /\ db' = db /\ log' = log /\ location' = location /\ announced' = announced
        /\ unsure' = unsure /\ lapsed' = lapsed /\ torn' = torn /\ owed' = owed
    BY <1>1 DEF DocumentsKeep
  <1>4. Typed'
    BY <1>1, <1>2, <1>3 DEF Inv, Typed, TypeOK
  <1>5. Exists("admin")' = Exists("admin") /\ Admins(db)' = Admins(db)
    BY <1>1, SameDocuments
  <1>6. RequestsFit' /\ PairIsSeen'
    BY <1>1, <1>3, <1>5 DEF Inv, IInv, RequestsFit, Fits, PairIsSeen
  <1>7. KnownWritten'
    BY <1>1, SameDocuments DEF Inv, IInv, KnownWritten
  <1>8. ReportOwed' /\ ReportAnnounced'
    BY <1>1, <1>3, <1>5 DEF Inv, IInv, ReportOwed, ReportAnnounced, Reports
  <1>9. RecordsFollow'
    BY <1>1, <1>3 DEF Inv, IInv, RecordsFollow, Follows, Recording, RecordsOf, IsLast
  <1>10. QED
    BY <1>1, <1>4, <1>6, <1>7, <1>8, <1>9, SameDocuments DEF Inv, IInv, Typed

----
(* Steps that change documents *)

\* Nothing that is there goes away.
Grows == \A f \in Fields : There(f) => There(f)'

LEMMA FitsKept ==
    ASSUME Inv, NEW h \in Handlers, HandlersKeep(h), Fits(handlers[h])',
           Exists("admin") => Exists("admin")', DOMAIN log \subseteq DOMAIN log'
    PROVE  RequestsFit'
  <1> SUFFICES ASSUME NEW g \in Handlers, g # h PROVE Fits(handlers[g])'
    BY DEF RequestsFit
  <1>1. Fits(handlers[g]) /\ handlers'[g] = handlers[g]
    BY DEF Inv, IInv, RequestsFit, HandlersKeep
  <1>2. QED
    BY <1>1 DEF Fits, ChangesFit, MovesBin

LEMMA KnownKept ==
    ASSUME Inv, Typed', Grows, NEW h \in Handlers, HandlersKeep(h),
           handlers'[h].pc = "record" \/ handlers'[h].op \notin {"create", "createRule", "report"}
               => \A f \in DOMAIN handlers'[h].sets : There(f)'
    PROVE  KnownWritten'
  <1> SUFFICES ASSUME NEW g \in Handlers, g # h,
                      handlers'[g].pc = "record" \/ handlers'[g].op \notin {"create", "createRule", "report"},
                      NEW f \in DOMAIN handlers'[g].sets
               PROVE  There(f)'
    BY DEF KnownWritten
  <1>1. handlers'[g] = handlers[g] /\ f \in Fields
    <2>1. handlers'[g].sets \in Changes
      BY DEF Typed, Requests
    <2>2. QED
      BY <2>1, ChangeType DEF HandlersKeep
  <1>2. There(f)
    BY <1>1 DEF Inv, IInv, KnownWritten
  <1>3. QED
    BY <1>1, <1>2 DEF Grows

LEMMA RecordedKept ==
    ASSUME Inv, Grows, log' = log
    PROVE  KnownRecorded'
  <1> SUFFICES ASSUME NEW i \in DOMAIN log, NEW f \in DOMAIN log[i].sets
               PROVE  There(f)'
    BY DEF KnownRecorded
  <1>1. f \in Fields
    BY DEF Inv, Typed, TypeOK
  <1>2. There(f)
    BY DEF Inv, IInv, KnownRecorded
  <1>3. QED
    BY <1>1, <1>2 DEF Grows

\* Nothing is recorded of a field that is not there yet, and what is there
\* does not change.
LEMMA RecordsUntouched ==
    ASSUME Inv, \A f \in Fields : There(f) => db'[f] = db[f], log' = log, unsure \subseteq unsure',
           NEW h \in Handlers, HandlersKeep(h), handlers'[h].pc # "record",
           handlers[h].pc = "record" => DOMAIN handlers[h].sets \subseteq unsure'
    PROVE  RecordsFollow'
  <1> SUFFICES ASSUME NEW f \in Fields \ unsure' PROVE Follows(f)'
    BY DEF RecordsFollow
  <1>1. Follows(f)
    BY DEF Inv, IInv, RecordsFollow
  <1>2. \A g \in Handlers : Recording(g, f)' <=> Recording(g, f)
    BY DEF HandlersKeep, Recording
  <1>3. \A g \in Handlers : Recording(g, f) => handlers'[g].sets = handlers[g].sets
    BY DEF HandlersKeep, Recording
  <1>4. CASE There(f)
    BY <1>1, <1>2, <1>3, <1>4, FollowsKept
  <1>5. CASE ~There(f)
    <2>1. \A g \in Handlers : ~Recording(g, f)
      BY <1>5 DEF Inv, IInv, KnownWritten, Recording
    <2>2. \A i \in DOMAIN log : f \notin DOMAIN log[i].sets
      BY <1>5 DEF Inv, IInv, KnownRecorded
    <2>3. QED
      BY <1>2, <2>1, <2>2 DEF Follows
  <1>6. QED
    BY <1>4, <1>5

\* A partial update that goes on knows the pair, if the pair has not changed.
LEMMA PairKept ==
    ASSUME Inv, NEW h \in Handlers, HandlersKeep(h), handlers'[h].pc # "write",
           db'[<<"bin", "lat">>] = db[<<"bin", "lat">>],
           db'[<<"bin", "lng">>] = db[<<"bin", "lng">>],
           db'[<<"bin", "active">>] = db[<<"bin", "active">>]
    PROVE  PairIsSeen'
  <1> SUFFICES ASSUME NEW g \in Handlers, g # h, handlers'[g].op = "put", handlers'[g].pc = "write",
                      ~handlers'[g].crossed
               PROVE  IF handlers'[g].seen = None THEN ~db'[<<"bin", "active">>]
                      ELSE handlers'[g].seen = <<db'[<<"bin", "lng">>], db'[<<"bin", "lat">>]>>
    BY DEF PairIsSeen
  <1>1. handlers'[g] = handlers[g]
    BY DEF HandlersKeep
  <1>2. QED
    BY <1>1 DEF Inv, IInv, PairIsSeen

LEMMA StoreReportStep == ASSUME Inv, NEW h \in Handlers, StoreReport(h) PROVE Inv'
  <1> DEFINE s == <<"report", "status">>
             x == [handlers[h] EXCEPT !.pc = "admins"]
  <1>1. handlers[h] \in Requests /\ Fits(handlers[h]) /\ handlers[h].pc = "store"
    BY DEF Inv, Typed, IInv, RequestsFit, StoreReport
  <1>2. handlers[h].op = "report"
    BY <1>1 DEF Fits, ChangesFit, MovesBin
  <1>3. x \in Requests /\ x.pc = "admins" /\ x.op = "report" /\ x.by = handlers[h].by
        /\ x.sets = handlers[h].sets
    <2>1. "admins" \in Pcs
      BY DEF Pcs
    <2>2. QED
      BY <1>1, <1>2, <2>1 DEF Requests
  <1>4. handlers' = [handlers EXCEPT ![h] = x]
    BY <1>1 DEF Inv, Typed, StoreReport
  <1> HIDE DEF x
  <1>5. handlers' \in [Handlers -> Requests] /\ handlers'[h] = x /\ HandlersKeep(h)
    BY <1>3, <1>4 DEF Inv, Typed, HandlersKeep
  <1>6. db' = [db EXCEPT ![s] = "NEW"] /\ owed' = Admins(db)
        /\ UNCHANGED <<location, log, tokens, announced, calls, events, unsure, lapsed, torn>>
    BY DEF StoreReport
  <1>7. s \in Fields /\ db[s] = "none"
    <2>1. h \in Reports
      BY <1>2 DEF Reports
    <2>2. QED
      BY <1>1, <2>1, FieldFacts DEF Inv, IInv, ReportOwed
  <1>8. db' \in [Fields -> Values] /\ db'[s] = "NEW" /\ \A f \in Fields : f # s => db'[f] = db[f]
    BY <1>6, <1>7 DEF Inv, Typed, Values
  <1>9. /\ db'[<<"bin", "lat">>] = db[<<"bin", "lat">>] /\ db'[<<"bin", "lng">>] = db[<<"bin", "lng">>]
        /\ db'[<<"bin", "active">>] = db[<<"bin", "active">>]
        /\ \A u \in Users : db'[<<u, "role">>] = db[<<u, "role">>] /\ db'[<<u, "active">>] = db[<<u, "active">>]
    BY <1>8, FieldFacts
  <1>10. Admins(db)' = Admins(db) /\ \A u \in Users : Exists(u)' = Exists(u)
    BY <1>9 DEF Admins, IsAdmin, Exists
  <1>11. Typed'
    <2>1. \A g \in Handlers : DOMAIN handlers'[g].sets \subseteq Fields
      <3> TAKE g \in Handlers
      <3>1. handlers'[g].sets \in Changes
        BY <1>5 DEF Requests
      <3>2. QED
        BY <3>1, ChangeType
    <2>2. Admins(db) \subseteq Users
      BY DEF Admins
    <2>3. TypeOK'
      BY <1>6, <1>8, <2>1, <2>2 DEF Inv, Typed, TypeOK
    <2>4. QED
      BY <1>5, <1>6, <1>8, <1>9, <2>3 DEF Inv, Typed
  <1>12. Grows /\ \A f \in Fields : There(f) => db'[f] = db[f]
    BY <1>7, <1>8, <1>10, FieldFacts DEF Grows, There
  <1>13. RequestsFit'
    <2>1. Fits(handlers[h])'
      BY <1>1, <1>2, <1>3, <1>5 DEF Fits, ChangesFit, MovesBin
    <2>2. QED
      BY <1>5, <1>6, <1>10, <2>1, FieldFacts, FitsKept
  <1>14. KnownWritten' /\ KnownRecorded'
    BY <1>3, <1>5, <1>6, <1>11, <1>12, KnownKept, RecordedKept
  <1>15. PairIsSeen'
    BY <1>3, <1>5, <1>9, PairKept
  <1>16. AdminRemains' /\ LocationInSync'
    BY <1>6, <1>9, <1>10 DEF Inv, IInv, AdminRemains, LocationInSync
  <1>17. ReportOwed' /\ ReportAnnounced'
    <2>1. \A g \in Handlers : handlers'[g].op = "report" => g = h
      BY <1>2, <1>5 DEF HandlersKeep, Inv, IInv, ReportOwed, Reports
    <2>2. ReportOwed'
      BY <1>3, <1>5, <1>6, <1>8, <1>10, <2>1 DEF ReportOwed, Reports
    <2>3. ReportAnnounced'
      BY <1>3, <1>5 DEF ReportAnnounced
    <2>4. QED
      BY <2>2, <2>3
  <1>18. RecordsFollow'
    BY <1>1, <1>3, <1>5, <1>6, <1>12, RecordsUntouched
  <1>19. QED
    BY <1>11, <1>13, <1>14, <1>15, <1>16, <1>17, <1>18 DEF Inv, IInv, Typed

\* The domains that TypeOK asks for.
LEMMA SetsInFields ==
    ASSUME handlers' \in [Handlers -> Requests]
    PROVE  \A g \in Handlers : DOMAIN handlers'[g].sets \subseteq Fields
  <1> TAKE g \in Handlers
  <1>1. handlers'[g].sets \in Changes
    BY DEF Requests
  <1>2. QED
    BY <1>1, ChangeType

\* The seed finds the account, and its start is over; or it inserts it.
LEMMA SeedStepHolds ==
    ASSUME Inv, NEW h \in Handlers, NEW pc \in {"seedAdmin", "seedUser"}, NEW u \in {"admin", "user"},
           NEW next \in {"seedUser", "idle"}, SeedStep(h, pc, u, next),
           u = "admin" <=> pc = "seedAdmin", next = "seedUser" => u = "admin"
    PROVE  Inv'
  <1>1. handlers[h] \in Requests /\ Fits(handlers[h]) /\ handlers[h].pc = pc
    BY DEF Inv, Typed, IInv, RequestsFit, SeedStep
  <1>2. handlers[h].op = "seed" /\ handlers[h].sets = None /\ (u = "user" => Exists("admin"))
    BY <1>1 DEF Fits, ChangesFit, MovesBin
  <1>3. UNCHANGED <<location, log, tokens, announced, calls, events, unsure, lapsed, torn, owed>>
    BY DEF SeedStep
  <1>4. CASE Exists(u)
    <2>1. handlers' = Done(h) /\ db' = db
      BY <1>4 DEF SeedStep
    <2>2. DocumentsKeep /\ tokens' = tokens /\ calls' = calls /\ events' = events
      BY <1>3, <2>1 DEF DocumentsKeep
    <2>3. "idle" \in Pcs \ {"record"}
      BY DEF Pcs
    <2>4. QED
      BY <1>1, <1>2, <2>1, <2>2, <2>3, GoesOn
  <1>5. CASE ~Exists(u)
    <2> DEFINE r == <<u, "role">>
               a == <<u, "active">>
               x == IF next = "idle" THEN Idle ELSE [handlers[h] EXCEPT !.pc = next]
    <2>1. db' = [db EXCEPT ![r] = u, ![a] = TRUE]
      BY <1>5 DEF SeedStep
    <2>2. u \in Users /\ r \in Fields /\ a \in Fields /\ r # a /\ u \in Values /\ TRUE \in Values
      BY FieldFacts DEF Values
    <2>3. db' \in [Fields -> Values] /\ db'[r] = u /\ db'[a] = TRUE
          /\ \A f \in Fields : f # r /\ f # a => db'[f] = db[f]
      BY <2>1, <2>2 DEF Inv, Typed
    <2>4. x \in Requests /\ x.pc = next /\ x.op \in {"none", "seed"} /\ x.sets = None
      <3>1. "seedUser" \in Pcs
        BY DEF Pcs
      <3>2. CASE next = "idle"
        BY <3>2, IdleFields
      <3>3. CASE next # "idle"
        BY <1>1, <1>2, <3>1, <3>3 DEF Requests
      <3>4. QED
        BY <3>2, <3>3
    <2>5. next = "seedUser" => x.op = "seed"
      BY <1>1, <1>2 DEF Requests
    <2>6. next = "idle" => x = Idle
      OBVIOUS
    <2>7. handlers' = [handlers EXCEPT ![h] = x]
      <3>1. CASE next = "idle"
        BY <1>5, <3>1 DEF SeedStep, Done
      <3>2. CASE next # "idle"
        BY <1>1, <1>5, <3>2 DEF SeedStep, Inv, Typed
      <3>3. QED
        BY <3>1, <3>2
    <2> HIDE DEF x
    <2>8. handlers' \in [Handlers -> Requests] /\ handlers'[h] = x /\ HandlersKeep(h)
      BY <2>4, <2>7 DEF Inv, Typed, HandlersKeep
    <2>9. /\ db'[<<"bin", "lat">>] = db[<<"bin", "lat">>] /\ db'[<<"bin", "lng">>] = db[<<"bin", "lng">>]
          /\ db'[<<"bin", "active">>] = db[<<"bin", "active">>]
          /\ db'[<<"report", "status">>] = db[<<"report", "status">>]
          /\ \A v \in Users \ {u} : db'[<<v, "role">>] = db[<<v, "role">>]
                                    /\ db'[<<v, "active">>] = db[<<v, "active">>]
      BY <2>2, <2>3, FieldFacts
    <2>10. \A v \in Users : Exists(v) => Exists(v)'
      BY <1>5, <2>9 DEF Exists
    <2>11. Admins(db) \subseteq Admins(db)'
      <3>1. u \notin Admins(db)
        BY <1>5, <2>2 DEF Admins, IsAdmin, Exists
      <3>2. QED
        BY <2>9, <3>1 DEF Admins, IsAdmin
    <2>12. u = "admin" => "admin" \in Admins(db)'
      BY <2>2, <2>3 DEF Admins, IsAdmin
    <2>13. Exists(u)'
      BY <2>3 DEF Exists
    <2>14. Typed'
      <3>1. TypeOK'
        BY <1>3, <2>3, <2>8, SetsInFields DEF Inv, Typed, TypeOK
      <3>2. QED
        BY <1>3, <2>3, <2>8, <2>9, <3>1 DEF Inv, Typed
    <2>15. \A f \in Fields : There(f) => There(f)' /\ db'[f] = db[f]
      <3> TAKE f \in Fields
      <3>1. CASE f[1] \in Users
        BY <1>5, <2>3, <2>10, <3>1 DEF There
      <3>2. CASE f[1] \notin Users
        <4>1. f # r /\ f # a
          BY <2>2, <3>2
        <4>2. db'[f] = db[f]
          BY <2>3, <4>1
        <4>3. QED
          BY <2>9, <3>2, <4>2 DEF There
      <3>3. QED
        BY <3>1, <3>2
    <2>16. RequestsFit'
      <3>1. x.pc = "seedUser" => Exists("admin")'
        BY <2>4, <2>13
      <3>2. handlers'[h] = x
        BY <2>8
      <3>3. Fits(handlers[h])'
        <4>1. CASE next = "idle"
          BY <2>6, <3>2, <4>1, IdleFields, NoChange DEF Fits, ChangesFit, MovesBin
        <4>2. CASE next = "seedUser"
          BY <2>4, <2>5, <3>1, <3>2, <4>2, NoChange DEF Fits, ChangesFit, MovesBin
        <4>3. QED
          BY <4>1, <4>2
      <3>4. QED
        BY <1>3, <2>8, <2>10, <3>3, FieldFacts, FitsKept
    <2>17. KnownWritten' /\ KnownRecorded'
      <3>1. Grows
        BY <2>15 DEF Grows
      <3>2. \A f \in DOMAIN x.sets : There(f)'
        BY <2>4, NoChange
      <3>3. QED
        BY <1>3, <2>8, <2>14, <3>1, <3>2, KnownKept, RecordedKept
    <2>18. PairIsSeen'
      BY <2>4, <2>8, <2>9, PairKept
    <2>19. AdminRemains' /\ LocationInSync'
      <3>1. (u = "user" /\ ~lapsed) => Admins(db) # {}
        BY <1>2, FieldFacts DEF Inv, IInv, AdminRemains
      <3>2. AdminRemains'
        BY <1>3, <2>11, <2>12, <3>1 DEF AdminRemains
      <3>3. QED
        BY <1>3, <2>9, <3>2 DEF Inv, IInv, LocationInSync
    <2>20. ReportOwed' /\ ReportAnnounced'
      BY <1>2, <1>3, <2>4, <2>8, <2>9, <2>11, ReportKept
    <2>21. RecordsFollow'
      BY <1>1, <1>3, <2>4, <2>8, <2>15, RecordsUntouched
    <2>22. QED
      BY <2>14, <2>16, <2>17, <2>18, <2>19, <2>20, <2>21 DEF Inv, IInv, Typed
  <1>6. QED
    BY <1>4, <1>5

\* The notifications are there, or the handler has failed.
LEMMA EndStep == ASSUME Inv, NEW h \in Handlers, FanOut(h) \/ Fault(h) PROVE Inv'
  <1>1. /\ handlers' = [handlers EXCEPT ![h] = Idle] /\ handlers[h] \in Requests /\ Fits(handlers[h])
        /\ UNCHANGED <<db, location, log, tokens, calls, lapsed, torn>>
    BY DEF FanOut, Fault, Done, Inv, Typed, IInv, RequestsFit
  <1>2. handlers' \in [Handlers -> Requests] /\ handlers'[h] = Idle /\ HandlersKeep(h)
    BY <1>1, IdleFields DEF Inv, Typed, HandlersKeep
  <1>3. Admins(db)' = Admins(db) /\ \A v : Exists(v)' = Exists(v)
    BY <1>1 DEF Admins, IsAdmin, Exists
  <1>4. \A f : There(f)' <=> There(f)
    BY <1>1, <1>3 DEF There
  <1>5. events' \in 0 .. MaxEvents
    BY BackofficeAssumption DEF FanOut, Fault, Event, Inv, Typed, TypeOK
  <1>6. unsure \subseteq unsure' /\ unsure' \subseteq Fields
        /\ (handlers[h].pc = "record" => DOMAIN handlers[h].sets \subseteq unsure')
    <2>1. DOMAIN handlers[h].sets \subseteq Fields /\ unsure \subseteq Fields
      BY DEF Inv, Typed, TypeOK
    <2>2. CASE FanOut(h)
      BY <2>1, <2>2 DEF FanOut
    <2>3. CASE Fault(h)
      BY <2>1, <2>3 DEF Fault
    <2>4. QED
      BY <2>2, <2>3
  <1>7. owed' \subseteq owed /\ announced' \subseteq Users
    <2>1. CASE FanOut(h)
      BY <1>1, <2>1 DEF FanOut, Requests, Inv, Typed, TypeOK
    <2>2. CASE Fault(h)
      BY <2>2 DEF Fault, Inv, Typed, TypeOK
    <2>3. QED
      BY <2>1, <2>2
  <1>8. Typed'
    BY <1>1, <1>2, <1>5, <1>6, <1>7, SetsInFields DEF Inv, Typed, TypeOK
  <1>9. RequestsFit'
    <2>1. Fits(handlers[h])'
      BY <1>2, IdleFields, NoChange DEF Fits, ChangesFit, MovesBin
    <2>2. QED
      BY <1>1, <1>2, <1>3, <2>1, FitsKept
  <1>10. KnownWritten' /\ KnownRecorded'
    <2>1. Grows
      BY <1>4 DEF Grows
    <2>2. \A f \in DOMAIN Idle.sets : There(f)'
      BY IdleFields, NoChange
    <2>3. QED
      BY <1>1, <1>2, <1>8, <2>1, <2>2, KnownKept, RecordedKept
  <1>11. PairIsSeen'
    BY <1>1, <1>2, IdleFields, PairKept
  <1>12. AdminRemains' /\ LocationInSync'
    BY <1>1, <1>3 DEF Inv, IInv, AdminRemains, LocationInSync
  <1>13. RecordsFollow'
    BY <1>1, <1>2, <1>6, IdleFields, RecordsUntouched
  <1>14. ReportOwed' /\ ReportAnnounced'
    <2>1. CASE handlers[h].op # "report"
      <3>1. announced' = announced
        <4>1. CASE FanOut(h)
          BY <1>1, <2>1, <4>1 DEF FanOut, Fits
        <4>2. CASE Fault(h)
          BY <4>2 DEF Fault
        <4>3. QED
          BY <4>1, <4>2
      <3>2. QED
        BY <1>1, <1>2, <1>3, <1>7, <2>1, <3>1, IdleFields, ReportKept
    <2>2. CASE handlers[h].op = "report"
      <3>1. h \in Reports /\ \A g \in Handlers : handlers'[g].op # "report"
        BY <1>2, <2>2, IdleFields DEF Reports, HandlersKeep, Inv, IInv, ReportOwed
      <3>2. Reports' = {}
        BY <3>1 DEF Reports
      <3>3. ReportOwed'
        BY <1>1, <1>7, <3>2 DEF Inv, IInv, ReportOwed
      <3>4. owed' \subseteq announced'
        <4>1. CASE FanOut(h)
          <5>1. owed \subseteq handlers[h].found
            BY <3>1, <4>1 DEF FanOut, Inv, IInv, ReportOwed
          <5>2. QED
            BY <4>1, <5>1 DEF FanOut
        <4>2. CASE Fault(h)
          BY <2>2, <4>2 DEF Fault
        <4>3. QED
          BY <4>1, <4>2
      <3>5. QED
        BY <3>3, <3>4 DEF ReportAnnounced
    <2>3. QED
      BY <2>1, <2>2
  <1>15. QED
    BY <1>8, <1>9, <1>10, <1>11, <1>12, <1>13, <1>14 DEF Inv, IInv, Typed

----
(* The log *)

\* The last of some records is the one that is chosen.
LEMMA LastChosen ==
    ASSUME NEW S \in SUBSET Nat, NEW m \in S, \A j \in S : j <= m
    PROVE  (CHOOSE i \in S : \A j \in S : j <= i) = m
  <1> DEFINE c == CHOOSE i \in S : \A j \in S : j <= i
  <1>1. c \in S /\ \A j \in S : j <= c
    OBVIOUS
  <1> HIDE DEF c
  <1>2. c <= m /\ m <= c /\ c \in Nat /\ m \in Nat
    BY <1>1
  <1>3. c = m
    BY <1>2
  <1>4. QED
    BY <1>3 DEF c

\* If the records of a field follow it, the last of them has its value.
LEMMA RecordsFollowAgree == Inv => RecordsAgree
  <1> SUFFICES ASSUME Inv, NEW f \in Fields \ unsure,
                      \E i \in DOMAIN log : f \in DOMAIN log[i].sets,
                      \A h \in Handlers : ~Recording(h, f)
               PROVE  RecordsOf(f) # {} /\ db[f] = Recorded(f)
    BY DEF RecordsAgree
  <1>1. PICK m \in RecordsOf(f) : IsLast(m, f) /\ log[m].sets[f] = db[f]
    BY DEF Inv, IInv, RecordsFollow, Follows
  <1>2. RecordsOf(f) \in SUBSET Nat /\ \A j \in RecordsOf(f) : j <= m
    BY <1>1 DEF RecordsOf, IsLast, Inv, Typed
  <1>3. (CHOOSE i \in RecordsOf(f) : \A j \in RecordsOf(f) : j <= i) = m
    BY <1>1, <1>2, LastChosen
  <1>4. QED
    BY <1>1, <1>3 DEF Recorded

LEMMA RecordStep == ASSUME Inv, NEW h \in Handlers, Record(h) PROVE Inv'
  <1> DEFINE x == handlers[h]
             n == Len(log)
             r == [sets |-> x.sets, gone |-> FALSE]
  <1>1. /\ x \in Requests /\ Fits(x) /\ x.pc = "record" /\ log' = Append(log, r)
        /\ handlers' = [handlers EXCEPT ![h] = Idle]
        /\ UNCHANGED <<db, location, tokens, announced, calls, events, unsure, lapsed, torn, owed>>
    BY DEF Record, Done, Inv, Typed, IInv, RequestsFit
  <1>2. r \in Records /\ r.sets = x.sets /\ r.gone = FALSE /\ DOMAIN x.sets \subseteq Fields
    BY <1>1, ChangeType DEF Records, Requests
  <1> HIDE DEF x, r
  <1>3. /\ log' \in Seq(Records) /\ n \in Nat /\ DOMAIN log = 1 .. n /\ DOMAIN log' = 1 .. n + 1
        /\ log'[n + 1] = r /\ \A i \in 1 .. n : log'[i] = log[i]
    BY <1>1, <1>2 DEF Inv, Typed
  <1> HIDE DEF n
  <1>4. handlers' \in [Handlers -> Requests] /\ handlers'[h] = Idle /\ HandlersKeep(h)
    BY <1>1, IdleFields DEF Inv, Typed, HandlersKeep
  <1>5. Admins(db)' = Admins(db) /\ (\A v : Exists(v)' = Exists(v)) /\ \A f : There(f)' <=> There(f)
    BY <1>1 DEF Admins, IsAdmin, Exists, There
  <1>6. x.op # "report"
    BY <1>1 DEF Fits
  <1>7. Typed'
    <2>1. \A i \in DOMAIN log' : DOMAIN log'[i].sets \subseteq Fields
      <3> TAKE i \in DOMAIN log'
      <3>1. i = n + 1 \/ i \in 1 .. n
        BY <1>3
      <3>2. i = n + 1 => DOMAIN log'[i].sets \subseteq Fields
        BY <1>2, <1>3
      <3>3. i \in 1 .. n => DOMAIN log'[i].sets \subseteq Fields
        BY <1>3 DEF Inv, Typed, TypeOK
      <3>4. QED
        BY <3>1, <3>2, <3>3
    <2>2. QED
      BY <1>1, <1>3, <1>4, <2>1, SetsInFields DEF Inv, Typed, TypeOK
  <1>8. RequestsFit'
    <2>1. Fits(handlers[h])'
      BY <1>4, IdleFields, NoChange DEF Fits, ChangesFit, MovesBin
    <2>2. DOMAIN log \subseteq DOMAIN log'
      BY <1>3
    <2>3. QED
      BY <1>4, <1>5, <2>1, <2>2, FitsKept
  <1>9. KnownWritten'
    <2>1. Grows
      BY <1>5 DEF Grows
    <2>2. \A f \in DOMAIN Idle.sets : There(f)'
      BY IdleFields, NoChange
    <2>3. QED
      BY <1>4, <1>7, <2>1, <2>2, KnownKept
  <1>10. KnownRecorded'
    <2> SUFFICES ASSUME NEW i \in 1 .. n + 1, NEW f \in DOMAIN log'[i].sets
                 PROVE  There(f)
      BY <1>3, <1>5 DEF KnownRecorded
    <2>1. CASE i = n + 1
      BY <1>1, <1>2, <1>3, <2>1 DEF Inv, IInv, KnownWritten, x
    <2>2. CASE i # n + 1
      <3>1. i \in 1 .. n
        BY <1>3, <2>2
      <3>2. QED
        BY <1>3, <3>1 DEF Inv, IInv, KnownRecorded
    <2>3. QED
      BY <2>1, <2>2
  <1>11. PairIsSeen'
    BY <1>1, <1>4, IdleFields, PairKept
  <1>12. AdminRemains' /\ LocationInSync'
    BY <1>1, <1>5 DEF Inv, IInv, AdminRemains, LocationInSync
  <1>13. ReportOwed' /\ ReportAnnounced'
    BY <1>1, <1>4, <1>5, <1>6, IdleFields, ReportKept DEF x
  <1>14. RecordsFollow'
    <2> SUFFICES ASSUME NEW f \in Fields \ unsure PROVE Follows(f)'
      BY <1>1 DEF RecordsFollow
    <2>1. Follows(f) /\ db' = db
      BY <1>1 DEF Inv, IInv, RecordsFollow
    <2>2. \A i \in DOMAIN log' : i <= n + 1 /\ (i = n + 1 \/ i \in 1 .. n)
      BY <1>3
    <2>3. \A g \in Handlers : Recording(g, f)' <=> (Recording(g, f) /\ g # h)
      <3>1. ~Recording(h, f)'
        BY <1>4, IdleFields DEF Recording
      <3>2. \A g \in Handlers \ {h} : Recording(g, f)' <=> Recording(g, f)
        BY <1>4 DEF HandlersKeep, Recording
      <3>3. QED
        BY <3>1, <3>2
    <2>4. \A g \in Handlers : Recording(g, f)' => handlers'[g] = handlers[g]
      BY <1>4, <2>3 DEF HandlersKeep
    <2>5. CASE f \in DOMAIN x.sets
      <3>1. Recording(h, f)
        BY <1>1, <2>5 DEF Recording, x
      <3>2. db[f] = x.sets[f] /\ \A g \in Handlers : ~Recording(g, f)'
        BY <2>1, <2>3, <3>1 DEF Follows, x
      <3> PICK m \in Nat : m = n + 1
        BY <1>3
      <3>3. m \in DOMAIN log' /\ log'[m].sets = x.sets /\ log'[m].gone = FALSE
        BY <1>2, <1>3
      <3>4. m \in RecordsOf(f)' /\ log'[m].sets[f] = db'[f]
        BY <2>1, <2>5, <3>2, <3>3 DEF RecordsOf
      <3>5. IsLast(m, f)'
        BY <2>2 DEF IsLast
      <3>6. QED
        BY <3>2, <3>4, <3>5 DEF Follows
    <2>6. CASE f \notin DOMAIN x.sets
      <3>1. \A g \in Handlers : Recording(g, f)' <=> Recording(g, f)
        BY <2>3, <2>6 DEF Recording, x
      <3>2. \A g \in Handlers : Recording(g, f)'
               => db'[f] = handlers'[g].sets[f] /\ \A k \in Handlers : Recording(k, f)' => k = g
        <4>1. \A g \in Handlers : Recording(g, f) => db[f] = handlers[g].sets[f]
          BY <2>1 DEF Follows
        <4>2. \A g, k \in Handlers : Recording(g, f) /\ Recording(k, f) => k = g
          BY <2>1 DEF Follows
        <4>3. QED
          BY <2>1, <2>4, <3>1, <4>1, <4>2
      <3>3. ASSUME \A i \in DOMAIN log : f \notin DOMAIN log[i].sets
            PROVE  \A i \in DOMAIN log' : f \notin DOMAIN log'[i].sets
        BY <1>2, <1>3, <2>2, <2>6, <3>3
      <3>4. ASSUME NEW i \in RecordsOf(f), IsLast(i, f), log[i].sets[f] = db[f]
            PROVE  i \in RecordsOf(f)' /\ IsLast(i, f)' /\ log'[i].sets[f] = db'[f]
        <4>1. i \in 1 .. n /\ log'[i] = log[i]
          BY <1>3 DEF RecordsOf
        <4>2. i \in RecordsOf(f)'
          BY <1>3, <4>1 DEF RecordsOf
        <4>3. IsLast(i, f)'
          <5> SUFFICES ASSUME NEW j \in DOMAIN log', f \in DOMAIN log'[j].sets PROVE j <= i
            BY DEF IsLast
          <5>1. j \in DOMAIN log /\ log'[j] = log[j]
            BY <1>2, <1>3, <2>2, <2>6
          <5>2. QED
            BY <3>4, <5>1 DEF IsLast
        <4>4. QED
          BY <2>1, <3>4, <4>1, <4>2, <4>3
      <3>5. QED
        BY <2>1, <3>1, <3>2, <3>3, <3>4 DEF Follows
    <2>7. QED
      BY <2>5, <2>6
  <1>15. QED
    BY <1>7, <1>8, <1>9, <1>10, <1>11, <1>12, <1>13, <1>14 DEF Inv, IInv, Typed

\* A record is deleted: if it was the last one of a field, that is unsure.
LEMMA RemoveStep == ASSUME Inv, NEW h \in Handlers, Remove(h) PROVE Inv'
  <1> DEFINE e == handlers[h].entry
             x == [handlers[h] EXCEPT !.pc = "record"]
             r == [log[e] EXCEPT !.gone = TRUE]
  <1>1. /\ handlers[h] \in Requests /\ Fits(handlers[h]) /\ handlers[h].pc = "remove"
        /\ unsure' = unsure \cup {f \in DOMAIN log[e].sets : IsLast(e, f)}
        /\ UNCHANGED <<db, location, tokens, announced, calls, events, lapsed, torn, owed>>
    BY DEF Remove, Inv, Typed, IInv, RequestsFit
  <1>2. e \in DOMAIN log /\ handlers[h].op = "audit" /\ handlers[h].sets = None
        /\ handlers[h].by \in Users
    BY <1>1 DEF Fits, ChangesFit
  <1>3. log[e] \in Records /\ DOMAIN log[e].sets \subseteq Fields
    BY <1>2 DEF Inv, Typed, TypeOK
  <1>4. r \in Records /\ r.sets = log[e].sets /\ r.gone = TRUE
    BY <1>3 DEF Records
  <1>5. log' = [log EXCEPT ![e] = r]
    BY <1>2, <1>3 DEF Remove
  <1>6. handlers' = [handlers EXCEPT ![h] = x]
    BY <1>1 DEF Remove, Inv, Typed
  <1>7. x \in Requests /\ x.pc = "record" /\ x.op = "audit" /\ x.sets = None /\ x.by \in Users
    <2>1. "record" \in Pcs
      BY DEF Pcs
    <2>2. QED
      BY <1>1, <1>2, <2>1 DEF Requests
  <1> HIDE DEF x, r
  <1>8. /\ log' \in Seq(Records) /\ DOMAIN log' = DOMAIN log /\ log'[e] = r
        /\ \A i \in DOMAIN log : i # e => log'[i] = log[i]
    BY <1>2, <1>4, <1>5 DEF Inv, Typed
  <1> HIDE DEF e
  <1>9. handlers' \in [Handlers -> Requests] /\ handlers'[h] = x /\ HandlersKeep(h)
    BY <1>6, <1>7 DEF Inv, Typed, HandlersKeep
  <1>10. Admins(db)' = Admins(db) /\ (\A v : Exists(v)' = Exists(v)) /\ \A f : There(f)' <=> There(f)
    BY <1>1 DEF Admins, IsAdmin, Exists, There
  <1>11. \A i \in DOMAIN log : log'[i].sets = log[i].sets
    BY <1>4, <1>8
  <1>12. Typed'
    <2>1. \A i \in DOMAIN log' : DOMAIN log'[i].sets \subseteq Fields
      BY <1>8, <1>11 DEF Inv, Typed, TypeOK
    <2>2. QED
      BY <1>1, <1>3, <1>8, <1>9, <2>1, SetsInFields DEF Inv, Typed, TypeOK
  <1>13. RequestsFit'
    <2>1. Fits(handlers[h])'
      BY <1>7, <1>9, NoChange DEF Fits, ChangesFit, MovesBin
    <2>2. QED
      BY <1>8, <1>9, <1>10, <2>1, FitsKept
  <1>14. KnownWritten'
    <2>1. Grows
      BY <1>10 DEF Grows
    <2>2. \A f \in DOMAIN x.sets : There(f)'
      BY <1>7, NoChange
    <2>3. QED
      BY <1>9, <1>12, <2>1, <2>2, KnownKept
  <1>15. KnownRecorded'
    BY <1>8, <1>10, <1>11 DEF Inv, IInv, KnownRecorded
  <1>16. PairIsSeen'
    BY <1>1, <1>7, <1>9, PairKept
  <1>17. AdminRemains' /\ LocationInSync'
    BY <1>1, <1>10 DEF Inv, IInv, AdminRemains, LocationInSync
  <1>18. ReportOwed' /\ ReportAnnounced'
    BY <1>1, <1>2, <1>7, <1>9, <1>10, ReportKept
  <1>19. RecordsFollow'
    <2> SUFFICES ASSUME NEW f \in Fields \ unsure' PROVE Follows(f)'
      BY DEF RecordsFollow
    <2>1. Follows(f) /\ db' = db /\ (f \in DOMAIN log[e].sets => ~IsLast(e, f))
      BY <1>1 DEF Inv, IInv, RecordsFollow
    <2>2. \A g \in Handlers : Recording(g, f)' <=> Recording(g, f)
      BY <1>1, <1>7, <1>9, NoChange DEF HandlersKeep, Recording
    <2>3. \A g \in Handlers : Recording(g, f) => handlers'[g] = handlers[g]
      BY <1>1, <1>9 DEF HandlersKeep, Recording
    <2>4. \A g \in Handlers : Recording(g, f)'
             => db'[f] = handlers'[g].sets[f] /\ \A k \in Handlers : Recording(k, f)' => k = g
      <3>1. \A g \in Handlers : Recording(g, f) => db[f] = handlers[g].sets[f]
        BY <2>1 DEF Follows
      <3>2. \A g, k \in Handlers : Recording(g, f) /\ Recording(k, f) => k = g
        BY <2>1 DEF Follows
      <3>3. QED
        BY <2>1, <2>2, <2>3, <3>1, <3>2
    <2>5. \A i : IsLast(i, f)' <=> IsLast(i, f)
      BY <1>8, <1>11 DEF IsLast
    <2>6. ASSUME NEW i \in RecordsOf(f), IsLast(i, f), log[i].sets[f] = db[f]
          PROVE  i \in RecordsOf(f)' /\ log'[i].sets[f] = db'[f]
      <3>1. i \in DOMAIN log /\ f \in DOMAIN log[i].sets /\ ~log[i].gone
        BY DEF RecordsOf
      <3>2. i # e
        BY <2>1, <2>6, <3>1
      <3>3. QED
        BY <1>8, <2>1, <2>6, <3>1, <3>2 DEF RecordsOf
    <2>7. (\A i \in DOMAIN log : f \notin DOMAIN log[i].sets)
             => \A i \in DOMAIN log' : f \notin DOMAIN log'[i].sets
      BY <1>8, <1>11
    <2>8. QED
      BY <2>1, <2>2, <2>4, <2>5, <2>6, <2>7 DEF Follows
  <1>20. QED
    BY <1>12, <1>13, <1>14, <1>15, <1>16, <1>17, <1>18, <1>19 DEF Inv, IInv, Typed

----
(* The write of a handler *)

\* What a write leaves of the handlers: all but how far one is, and whether
\* partial updates were crossed.
WriteKeeps(h) ==
    \A g \in Handlers :
        /\ handlers'[g] \in Requests
        /\ handlers'[g].op = handlers[g].op /\ handlers'[g].by = handlers[g].by
        /\ handlers'[g].sets = handlers[g].sets /\ handlers'[g].seen = handlers[g].seen
        /\ handlers'[g].entry = handlers[g].entry /\ handlers'[g].found = handlers[g].found
        /\ handlers'[g].pc = (IF g = h THEN "record" ELSE handlers[g].pc)
        /\ g # h /\ handlers[g].op = "put" /\ handlers[g].pc = "write" /\ ~handlers'[g].crossed
               => ~handlers[g].crossed /\ ~MovesBin(handlers[h].sets)

\* A write that finds what it writes.
Writes(h) ==
    LET x == handlers[h]
    IN  /\ x.pc = "write" /\ ~Vain(x) /\ Finds(x)
        /\ db' = [f \in Fields |-> IF f \in DOMAIN x.sets THEN x.sets[f] ELSE db[f]]
        /\ location' = Point(x)
        /\ unsure' = (unsure \ DOMAIN x.sets)
                     \cup {f \in DOMAIN x.sets : \E g \in Handlers : Recording(g, f)}
        /\ lapsed' = (lapsed \/ (~IsAdmin(db, x.by) /\ \E f \in DOMAIN x.sets : f[1] \in Users))
        /\ torn' = IF x.op = "put" THEN x.crossed ELSE (torn /\ ~MovesBin(x.sets))
        /\ owed' = owed \cap Admins(db)'
        /\ WriteKeeps(h) /\ handlers' \in [Handlers -> Requests]
        /\ UNCHANGED <<log, tokens, announced, calls, events>>

LEMMA WriteEffect ==
    ASSUME Inv, NEW h \in Handlers, Write(h), Finds(handlers[h])
    PROVE  Writes(h)
  <1> DEFINE x == handlers[h]
             y(g) == IF g = h THEN [x EXCEPT !.pc = "record"]
                     ELSE [handlers[g] EXCEPT !.crossed = @ \/ (MovesBin(x.sets) /\ handlers[g].op = "put"
                                                                /\ handlers[g].pc = "write")]
  <1>1. handlers' = [g \in Handlers |-> y(g)]
    BY DEF Write
  <1>2. x.pc = "write" /\ ~Vain(x) /\ "record" \in Pcs
    BY DEF Write, Pcs
  <1>3. ASSUME NEW g \in Handlers
        PROVE  /\ y(g) \in Requests
               /\ y(g).op = handlers[g].op /\ y(g).by = handlers[g].by
               /\ y(g).sets = handlers[g].sets /\ y(g).seen = handlers[g].seen
               /\ y(g).entry = handlers[g].entry /\ y(g).found = handlers[g].found
               /\ y(g).pc = (IF g = h THEN "record" ELSE handlers[g].pc)
               /\ g # h /\ handlers[g].op = "put" /\ handlers[g].pc = "write" /\ ~y(g).crossed
                      => ~handlers[g].crossed /\ ~MovesBin(x.sets)
    <2>1. handlers[g] \in Requests
      BY DEF Inv, Typed
    <2>2. CASE g = h
      <3>1. y(g) = [handlers[g] EXCEPT !.pc = "record"]
        BY <2>2
      <3> HIDE DEF y, x
      <3>2. QED
        BY <1>2, <2>1, <2>2, <3>1 DEF Requests
    <2>3. CASE g # h
      <3> DEFINE c == handlers[g].crossed \/ (MovesBin(x.sets) /\ handlers[g].op = "put"
                                              /\ handlers[g].pc = "write")
      <3>1. y(g) = [handlers[g] EXCEPT !.crossed = c]
        BY <2>3
      <3>2. c \in BOOLEAN
        OBVIOUS
      <3>3. handlers[g].op = "put" /\ handlers[g].pc = "write" /\ ~c
              => ~handlers[g].crossed /\ ~MovesBin(x.sets)
        OBVIOUS
      <3> HIDE DEF y, x, c
      <3>4. /\ y(g) \in Requests
            /\ y(g).op = handlers[g].op /\ y(g).by = handlers[g].by
            /\ y(g).sets = handlers[g].sets /\ y(g).seen = handlers[g].seen
            /\ y(g).entry = handlers[g].entry /\ y(g).found = handlers[g].found
            /\ y(g).pc = handlers[g].pc /\ y(g).crossed = c
        BY <2>1, <3>1, <3>2 DEF Requests
      <3>5. QED
        BY <2>3, <3>3, <3>4
    <2>4. QED
      BY <2>2, <2>3
  <1>4. WriteKeeps(h) /\ handlers' \in [Handlers -> Requests]
    <2> HIDE DEF y
    <2>1. \A g \in Handlers : handlers'[g] = y(g)
      BY <1>1
    <2>2. handlers' \in [Handlers -> Requests]
      BY <1>1, <1>3
    <2>3. QED
      BY <1>3, <2>1, <2>2 DEF WriteKeeps
  <1>5. db' = [f \in Fields |-> IF f \in DOMAIN x.sets THEN x.sets[f] ELSE db[f]]
        /\ owed' = owed \cap Admins([f \in Fields |-> IF f \in DOMAIN x.sets THEN x.sets[f] ELSE db[f]])
    BY DEF Write
  <1>6. owed' = owed \cap Admins(db)'
    BY <1>5 DEF Admins
  <1>7. /\ location' = Point(x)
        /\ unsure' = (unsure \ DOMAIN x.sets)
                     \cup {f \in DOMAIN x.sets : \E g \in Handlers : Recording(g, f)}
        /\ lapsed' = (lapsed \/ (~IsAdmin(db, x.by) /\ \E f \in DOMAIN x.sets : f[1] \in Users))
        /\ torn' = IF x.op = "put" THEN x.crossed ELSE (torn /\ ~MovesBin(x.sets))
        /\ UNCHANGED <<log, tokens, announced, calls, events>>
    BY DEF Write
  <1>8. QED
    BY <1>2, <1>4, <1>5, <1>6, <1>7 DEF Writes

\* The new values of the fields.
LEMMA WriteValues ==
    ASSUME Inv, NEW h \in Handlers, Writes(h)
    PROVE  /\ db' \in [Fields -> Values] /\ DOMAIN handlers[h].sets \subseteq Fields
           /\ \A f \in DOMAIN handlers[h].sets : db'[f] = handlers[h].sets[f]
           /\ \A f \in Fields \ DOMAIN handlers[h].sets : db'[f] = db[f]
           /\ handlers[h].op \notin {"none", "seed", "report"} /\ ChangesFit(handlers[h])
           /\ handlers[h].by \in Users
  <1> DEFINE x == handlers[h]
  <1>1. x \in Requests /\ Fits(x) /\ x.pc = "write"
    BY DEF Inv, Typed, IInv, RequestsFit, Writes
  <1>2. DOMAIN x.sets \subseteq Fields /\ \A f \in DOMAIN x.sets : x.sets[f] \in Values
    BY <1>1, ChangeType DEF Requests
  <1>3. x.op \notin {"none", "seed", "report"} /\ ChangesFit(x) /\ x.by \in Users
    BY <1>1 DEF Fits
  <1>4. db' = [f \in Fields |-> IF f \in DOMAIN x.sets THEN x.sets[f] ELSE db[f]]
    BY DEF Writes
  <1> HIDE DEF x
  <1>5. db' \in [Fields -> Values]
    BY <1>2, <1>4 DEF Inv, Typed
  <1>6. QED
    BY <1>2, <1>3, <1>4, <1>5 DEF x

\* Accounts, the rule and the report do not go away; what is written is there.
LEMMA WriteGrows ==
    ASSUME Inv, NEW h \in Handlers, Writes(h)
    PROVE  /\ Grows /\ \A u \in Users : Exists(u) => Exists(u)'
           /\ \A f \in DOMAIN handlers[h].sets : There(f)'
           /\ db'[<<"report", "status">>] = "none" <=> db[<<"report", "status">>] = "none"
           /\ <<"report", "status">> \in DOMAIN handlers[h].sets
                 => db[<<"report", "status">>] # "none"
  <1> DEFINE x == handlers[h]
             s == <<"report", "status">>
             r == <<"rule", "enabled">>
  <1>1. ASSUME NEW u \in Users, <<u, "role">> \in DOMAIN x.sets
        PROVE  Exists(u)'
    <2>1. x.sets[<<u, "role">>] \in {"admin", "user"}
      BY <1>1, WriteValues DEF ChangesFit
    <2>2. db'[<<u, "role">>] \in {"admin", "user"}
      BY <1>1, <2>1, WriteValues
    <2>3. QED
      BY <2>2 DEF Exists
  <1>2. ASSUME NEW u \in Users, Exists(u)
        PROVE  Exists(u)'
    <2>1. CASE <<u, "role">> \in DOMAIN x.sets
      BY <1>1, <2>1
    <2>2. CASE <<u, "role">> \notin DOMAIN x.sets
      BY <1>2, <2>2, WriteValues, FieldFacts DEF Exists
    <2>3. QED
      BY <2>1, <2>2
  <1>3. s \in DOMAIN x.sets => db[s] # "none" /\ db'[s] # "none"
    <2> SUFFICES ASSUME s \in DOMAIN x.sets PROVE db[s] # "none" /\ db'[s] # "none"
      OBVIOUS
    <2>1. x.op # "create" /\ x.op # "createRule" /\ x.op # "report"
      <3>1. x.op # "report" /\ ChangesFit(x)
        BY WriteValues
      <3>2. x.op # "create"
        BY <3>1, FieldFacts DEF ChangesFit
      <3>3. x.op # "createRule"
        BY <3>1 DEF ChangesFit
      <3>4. QED
        BY <3>1, <3>2, <3>3
    <2>2. There(s)
      BY <2>1 DEF Inv, IInv, KnownWritten
    <2>3. db'[s] # "none"
      BY WriteValues DEF ChangesFit
    <2>4. QED
      BY <2>2, <2>3, FieldFacts DEF There
  <1>4. db'[s] = "none" <=> db[s] = "none"
    BY <1>3, WriteValues, FieldFacts
  <1>5. r \in DOMAIN x.sets => db'[r] # "none"
    BY WriteValues DEF ChangesFit
  <1>6. r \notin DOMAIN x.sets => db'[r] = db[r]
    BY WriteValues, FieldFacts
  <1>7. ASSUME NEW f, There(f)
        PROVE  There(f)'
    BY <1>2, <1>4, <1>5, <1>6, <1>7 DEF There
  <1>8. ASSUME NEW f \in DOMAIN x.sets
        PROVE  There(f)'
    <2>1. CASE x.op = "create"
      <3>1. f[1] \in Users /\ <<f[1], "role">> \in DOMAIN x.sets
        BY <2>1, WriteValues DEF ChangesFit
      <3>2. QED
        BY <1>1, <3>1 DEF There
    <2>2. CASE x.op = "createRule"
      <3>1. ChangesFit(x) /\ r[1] \notin Users
        BY WriteValues, FieldFacts
      <3>2. f = r
        BY <2>2, <3>1 DEF ChangesFit
      <3>3. QED
        BY <1>5, <3>1, <3>2 DEF There
    <2>3. CASE x.op \notin {"create", "createRule"}
      <3>1. There(f)
        BY <2>3, WriteValues DEF Inv, IInv, KnownWritten
      <3>2. QED
        BY <1>7, <3>1
    <2>4. QED
      BY <2>1, <2>2, <2>3
  <1>9. QED
    BY <1>2, <1>3, <1>4, <1>7, <1>8 DEF Grows

\* An administrator's write leaves that administrator; anyone else's either
\* touches no account or is a lapse.
LEMMA WriteAdmins ==
    ASSUME Inv, NEW h \in Handlers, Writes(h)
    PROVE  AdminRemains'
  <1> DEFINE x == handlers[h]
             u == x.by
             r == <<u, "role">>
             a == <<u, "active">>
  <1>1. CASE IsAdmin(db, u)
    <2>1. u \in Users /\ r \in Fields /\ a \in Fields /\ r[1] = u /\ r[2] = "role"
          /\ a[1] = u /\ a[2] = "active"
      BY WriteValues, FieldFacts
    <2>2. db[r] = "admin" /\ db[a]
      BY <1>1 DEF IsAdmin
    <2>3. CASE x.op = "create"
      <3>1. r \notin DOMAIN x.sets /\ a \notin DOMAIN x.sets
        BY <2>1, <2>2, <2>3 DEF Writes, Finds, Exists
      <3>2. db'[r] = "admin" /\ db'[a]
        BY <2>1, <2>2, <3>1, WriteValues
      <3>3. QED
        BY <2>1, <3>2 DEF AdminRemains, Admins, IsAdmin
    <2>4. CASE x.op # "create"
      <3>1. r \in DOMAIN x.sets => x.sets[r] = "admin"
        BY <2>1, <2>4, WriteValues DEF ChangesFit, Harmless
      <3>2. a \in DOMAIN x.sets => x.sets[a] = TRUE
        BY <2>1, <2>4, WriteValues DEF ChangesFit, Harmless
      <3>3. db'[r] = "admin" /\ db'[a]
        BY <2>1, <2>2, <3>1, <3>2, WriteValues
      <3>4. QED
        BY <2>1, <3>3 DEF AdminRemains, Admins, IsAdmin
    <2>5. QED
      BY <2>3, <2>4
  <1>2. CASE ~IsAdmin(db, u) /\ \E f \in DOMAIN x.sets : f[1] \in Users
    BY <1>2 DEF Writes, AdminRemains
  <1>3. CASE \A f \in DOMAIN x.sets : f[1] \notin Users
    <2>1. \A v \in Users : <<v, "role">> \notin DOMAIN x.sets /\ <<v, "active">> \notin DOMAIN x.sets
      BY <1>3
    <2>2. \A v \in Users : db'[<<v, "role">>] = db[<<v, "role">>] /\ db'[<<v, "active">>] = db[<<v, "active">>]
      BY <2>1, WriteValues, FieldFacts
    <2>3. Admins(db)' = Admins(db) /\ \A v \in Users : Exists(v)' = Exists(v)
      BY <2>2 DEF Admins, IsAdmin, Exists
    <2>4. ~lapsed' => ~lapsed
      BY DEF Writes
    <2>5. QED
      BY <2>3, <2>4 DEF AdminRemains, Inv, IInv
  <1>4. QED
    BY <1>1, <1>2, <1>3

LEMMA WriteTyped ==
    ASSUME Inv, NEW h \in Handlers, Writes(h)
    PROVE  Typed'
  <1> DEFINE x == handlers[h]
             lat == <<"bin", "lat">>
             lng == <<"bin", "lng">>
  <1>1. x.seen \in Pairs \cup {None} /\ ChangesFit(x)
    BY WriteValues DEF Inv, Typed, Requests
  <1>2. lat \in DOMAIN x.sets => x.sets[lat] \in Coords
    BY <1>1 DEF ChangesFit
  <1>3. lng \in DOMAIN x.sets => x.sets[lng] \in Coords
    BY <1>1 DEF ChangesFit
  <1>4. MovesBin(x.sets) /\ ~({lat, lng} \subseteq DOMAIN x.sets) => x.op = "put"
    <2>1. x.op = "create" => ~MovesBin(x.sets)
      BY <1>1, FieldFacts DEF ChangesFit, MovesBin
    <2>2. QED
      BY <1>1, <2>1 DEF ChangesFit
  <1>5. Point(x) \in Pairs
    <2>1. CASE ~MovesBin(x.sets) \/ ((x.op = "put") /\ (x.seen = None))
      BY <2>1 DEF Point, Inv, Typed, TypeOK, Pairs
    <2>2. CASE MovesBin(x.sets) /\ ~((x.op = "put") /\ (x.seen = None))
      <3> DEFINE l == IF lng \in DOMAIN x.sets THEN x.sets[lng] ELSE x.seen[1]
                 t == IF lat \in DOMAIN x.sets THEN x.sets[lat] ELSE x.seen[2]
      <3>1. l \in Coords \cup {0} /\ t \in Coords \cup {0}
        <4>1. CASE {lat, lng} \subseteq DOMAIN x.sets
          BY <1>2, <1>3, <4>1
        <4>2. CASE ~({lat, lng} \subseteq DOMAIN x.sets)
          <5>1. x.seen \in Pairs
            BY <1>1, <1>4, <2>2, <4>2
          <5>2. x.seen[1] \in Coords \cup {0} /\ x.seen[2] \in Coords \cup {0}
            BY <5>1 DEF Pairs
          <5>3. QED
            BY <1>2, <1>3, <5>2
        <4>3. QED
          BY <4>1, <4>2
      <3>2. Point(x) = <<l, t>>
        BY <2>2 DEF Point
      <3> HIDE DEF l, t
      <3>3. QED
        BY <3>1, <3>2 DEF Pairs
    <2>3. QED
      BY <2>1, <2>2
  <1>6. db'[lat] \in Coords \cup {0} /\ db'[lng] \in Coords \cup {0}
    BY <1>2, <1>3, WriteValues, FieldFacts DEF Inv, Typed
  <1>7. /\ location' \in Pairs /\ owed' \subseteq owed /\ handlers' \in [Handlers -> Requests]
        /\ unsure' \subseteq Fields /\ lapsed' \in BOOLEAN
        /\ UNCHANGED <<log, tokens, announced, calls, events>>
    BY <1>5, WriteValues DEF Writes, Inv, Typed, TypeOK
  <1>8. torn' \in BOOLEAN
    <2>1. x.crossed \in BOOLEAN /\ torn \in BOOLEAN
      BY DEF Inv, Typed, TypeOK, Requests
    <2>2. QED
      BY <2>1 DEF Writes
  <1>9. TypeOK'
    <2>1. DOMAIN db' = Fields
      BY WriteValues
    <2>2. QED
      BY <1>7, <1>8, <2>1, SetsInFields DEF Inv, Typed, TypeOK, Pairs
  <1>10. QED
    BY <1>6, <1>7, <1>9, WriteValues DEF Inv, Typed

LEMMA WriteFits ==
    ASSUME Inv, NEW h \in Handlers, Writes(h)
    PROVE  RequestsFit' /\ KnownWritten' /\ KnownRecorded'
  <1>1. log' = log /\ WriteKeeps(h)
    BY DEF Writes
  <1>2. RequestsFit'
    <2> SUFFICES ASSUME NEW g \in Handlers PROVE Fits(handlers[g])'
      BY DEF RequestsFit
    <2>1. Fits(handlers[g]) /\ (g = h => handlers[g].pc = "write")
      BY DEF Inv, IInv, RequestsFit, Writes
    <2>2. Exists("admin") => Exists("admin")'
      BY WriteGrows, FieldFacts
    <2>3. /\ handlers'[g].op = handlers[g].op /\ handlers'[g].by = handlers[g].by
          /\ handlers'[g].sets = handlers[g].sets /\ handlers'[g].entry = handlers[g].entry
          /\ handlers'[g].pc = (IF g = h THEN "record" ELSE handlers[g].pc)
      BY <1>1 DEF WriteKeeps
    <2>4. ChangesFit(handlers[g])'
      BY <2>1, <2>3 DEF Fits, ChangesFit, MovesBin
    <2>5. g = h => handlers[g].op # "report"
      BY WriteValues
    <2>6. QED
      BY <1>1, <2>1, <2>2, <2>3, <2>4, <2>5 DEF Fits
  <1>3. KnownWritten'
    <2> SUFFICES ASSUME NEW g \in Handlers,
                        handlers'[g].pc = "record" \/ handlers'[g].op \notin {"create", "createRule", "report"},
                        NEW f \in DOMAIN handlers'[g].sets
                 PROVE  There(f)'
      BY DEF KnownWritten
    <2>1. handlers'[g].sets = handlers[g].sets /\ handlers'[g].op = handlers[g].op
          /\ (g # h => handlers'[g].pc = handlers[g].pc)
      BY <1>1 DEF WriteKeeps
    <2>2. CASE g = h
      BY <2>1, <2>2, WriteGrows
    <2>3. CASE g # h
      <3>1. There(f)
        BY <2>1, <2>3 DEF Inv, IInv, KnownWritten
      <3>2. f \in Fields
        BY <2>1 DEF Inv, Typed, TypeOK
      <3>3. QED
        BY <3>1, <3>2, WriteGrows DEF Grows
    <2>4. QED
      BY <2>2, <2>3
  <1>4. KnownRecorded'
    BY <1>1, WriteGrows, RecordedKept
  <1>5. QED
    BY <1>2, <1>3, <1>4

\* The pair, its point, and those that are about to write half of it.
LEMMA WritePair ==
    ASSUME Inv, NEW h \in Handlers, Writes(h)
    PROVE  PairIsSeen' /\ LocationInSync'
  <1> DEFINE x == handlers[h]
             lat == <<"bin", "lat">>
             lng == <<"bin", "lng">>
             act == <<"bin", "active">>
  <1>1. lat \in Fields /\ lng \in Fields /\ act \in Fields /\ ChangesFit(x)
    BY FieldFacts, WriteValues
  <1>2. ~MovesBin(x.sets) => db'[lat] = db[lat] /\ db'[lng] = db[lng]
                             /\ (db'[act] = db[act] \/ db'[act] = FALSE)
    <2> SUFFICES ASSUME ~MovesBin(x.sets)
                 PROVE  db'[lat] = db[lat] /\ db'[lng] = db[lng]
                        /\ (db'[act] = db[act] \/ db'[act] = FALSE)
      OBVIOUS
    <2>1. lat \notin DOMAIN x.sets /\ lng \notin DOMAIN x.sets
      BY DEF MovesBin
    <2>2. act \in DOMAIN x.sets => x.sets[act] = FALSE
      BY <1>1 DEF ChangesFit
    <2>3. QED
      BY <1>1, <2>1, <2>2, WriteValues
  <1>3. PairIsSeen'
    <2> SUFFICES ASSUME NEW g \in Handlers, handlers'[g].op = "put", handlers'[g].pc = "write",
                        ~handlers'[g].crossed
                 PROVE  IF handlers'[g].seen = None THEN ~db'[act]
                        ELSE handlers'[g].seen = <<db'[lng], db'[lat]>>
      BY DEF PairIsSeen
    <2>1. g # h /\ handlers[g].pc = "write" /\ handlers[g].op = "put"
          /\ handlers'[g].seen = handlers[g].seen
      BY DEF Writes, WriteKeeps
    <2>2. ~handlers[g].crossed /\ ~MovesBin(x.sets)
      BY <2>1 DEF Writes, WriteKeeps
    <2>3. IF handlers[g].seen = None THEN ~db[act] ELSE handlers[g].seen = <<db[lng], db[lat]>>
      BY <2>1, <2>2 DEF Inv, IInv, PairIsSeen
    <2>4. QED
      BY <1>2, <2>1, <2>2, <2>3
  <1>4. location' = Point(x) /\ torn' = (IF x.op = "put" THEN x.crossed ELSE (torn /\ ~MovesBin(x.sets)))
        /\ x.pc = "write" /\ Finds(x)
    BY DEF Writes
  <1>5. ASSUME ~torn'
        PROVE  location' = <<db'[lng], db'[lat]>>
    <2>1. CASE x.op = "put"
      <3>1. ~x.crossed /\ db[act] /\ MovesBin(x.sets)
        BY <1>1, <1>4, <1>5, <2>1 DEF Finds, ChangesFit
      <3>2. x.seen # None /\ x.seen = <<db[lng], db[lat]>>
        BY <1>4, <2>1, <3>1 DEF Inv, IInv, PairIsSeen
      <3>3. Point(x) = <<IF lng \in DOMAIN x.sets THEN x.sets[lng] ELSE x.seen[1],
                         IF lat \in DOMAIN x.sets THEN x.sets[lat] ELSE x.seen[2]>>
        BY <2>1, <3>1, <3>2 DEF Point
      <3>4. x.seen[1] = db[lng] /\ x.seen[2] = db[lat]
        BY <3>2
      <3>5. db'[lng] = (IF lng \in DOMAIN x.sets THEN x.sets[lng] ELSE x.seen[1])
            /\ db'[lat] = (IF lat \in DOMAIN x.sets THEN x.sets[lat] ELSE x.seen[2])
        BY <1>1, <3>4, WriteValues
      <3>6. QED
        BY <1>4, <3>3, <3>5
    <2>2. CASE x.op # "put" /\ MovesBin(x.sets)
      <3>1. x.op # "create"
        BY <1>1, <2>2, FieldFacts DEF ChangesFit, MovesBin
      <3>2. lat \in DOMAIN x.sets /\ lng \in DOMAIN x.sets
        BY <1>1, <2>2, <3>1 DEF ChangesFit
      <3>3. Point(x) = <<x.sets[lng], x.sets[lat]>>
        BY <2>2, <3>2 DEF Point
      <3>4. QED
        BY <1>4, <3>2, <3>3, WriteValues
    <2>3. CASE x.op # "put" /\ ~MovesBin(x.sets)
      <3>1. ~torn /\ location' = location
        BY <1>4, <1>5, <2>3 DEF Point
      <3>2. location = <<db[lng], db[lat]>>
        BY <3>1 DEF Inv, IInv, LocationInSync
      <3>3. QED
        BY <1>2, <2>3, <3>1, <3>2
    <2>4. QED
      BY <2>1, <2>2, <2>3
  <1>6. QED
    BY <1>3, <1>5 DEF LocationInSync

LEMMA WriteReport ==
    ASSUME Inv, NEW h \in Handlers, Writes(h)
    PROVE  ReportOwed' /\ ReportAnnounced'
  <1>1. \A g \in Handlers : handlers'[g].op = handlers[g].op /\ handlers'[g].found = handlers[g].found
                            /\ (g # h => handlers'[g].pc = handlers[g].pc)
    BY DEF Writes, WriteKeeps
  <1>2. Reports' = Reports /\ h \notin Reports
    BY <1>1, WriteValues DEF Reports
  <1>3. \A g \in Reports : handlers'[g].pc = handlers[g].pc /\ handlers'[g].found = handlers[g].found
    BY <1>1, <1>2 DEF Reports
  <1>4. owed' \subseteq owed /\ owed' \subseteq Admins(db)' /\ announced' = announced
    BY DEF Writes
  <1>5. db'[<<"report", "status">>] = "none" <=> db[<<"report", "status">>] = "none"
    BY WriteGrows
  <1>6. ReportOwed'
    BY <1>2, <1>3, <1>4, <1>5 DEF Inv, IInv, ReportOwed
  <1>7. ReportAnnounced'
    BY <1>1, <1>4 DEF Inv, IInv, ReportAnnounced
  <1>8. QED
    BY <1>6, <1>7

\* A change that overlaps one that is about to be recorded makes the field
\* unsure; any other will be its last record.
LEMMA WriteRecords ==
    ASSUME Inv, NEW h \in Handlers, Writes(h)
    PROVE  RecordsFollow'
  <1> DEFINE x == handlers[h]
  <1> SUFFICES ASSUME NEW f \in Fields \ unsure' PROVE Follows(f)'
    BY DEF RecordsFollow
  <1>1. log' = log /\ x.pc = "write"
        /\ unsure' = (unsure \ DOMAIN x.sets)
                     \cup {e \in DOMAIN x.sets : \E g \in Handlers : Recording(g, e)}
    BY DEF Writes
  <1>2. \A g \in Handlers : handlers'[g].sets = handlers[g].sets
                            /\ handlers'[g].pc = (IF g = h THEN "record" ELSE handlers[g].pc)
    BY DEF Writes, WriteKeeps
  <1>3. \A g \in Handlers : Recording(g, f)' <=> IF g = h THEN f \in DOMAIN x.sets ELSE Recording(g, f)
    BY <1>2 DEF Recording
  <1>4. CASE f \in DOMAIN x.sets
    <2>1. \A g \in Handlers : ~Recording(g, f)
      BY <1>1, <1>4
    <2>2. db'[f] = handlers'[h].sets[f]
      BY <1>2, <1>4, WriteValues
    <2>3. \A g \in Handlers : Recording(g, f)' <=> g = h
      BY <1>3, <1>4, <2>1
    <2>4. QED
      BY <2>2, <2>3 DEF Follows
  <1>5. CASE f \notin DOMAIN x.sets
    <2>1. Follows(f)
      BY <1>1, <1>5 DEF Inv, IInv, RecordsFollow
    <2>2. db'[f] = db[f]
      BY <1>5, WriteValues
    <2>3. \A g \in Handlers : Recording(g, f)' <=> Recording(g, f)
      BY <1>3, <1>5 DEF Recording
    <2>4. QED
      BY <1>1, <1>2, <2>1, <2>2, <2>3, FollowsKept
  <1>6. QED
    BY <1>4, <1>5

\* The update of a rule that is gone: its field is unsure from now on.
LEMMA WriteInVainStep == ASSUME Inv, NEW h \in Handlers, WriteInVain(h) PROVE Inv'
  <1> DEFINE x == [handlers[h] EXCEPT !.pc = "record"]
  <1>1. /\ handlers[h] \in Requests /\ Fits(handlers[h]) /\ handlers[h].pc = "write"
        /\ handlers[h].op = "putRule" /\ unsure' = unsure \cup DOMAIN handlers[h].sets
        /\ UNCHANGED <<db, location, log, tokens, announced, calls, events, lapsed, torn, owed>>
    BY DEF WriteInVain, Vain, Inv, Typed, IInv, RequestsFit
  <1>2. handlers' = [handlers EXCEPT ![h] = x]
    BY <1>1 DEF WriteInVain, Inv, Typed
  <1>3. x \in Requests /\ x.pc = "record" /\ x.op = "putRule" /\ x.sets = handlers[h].sets
        /\ x.by = handlers[h].by
    <2>1. "record" \in Pcs
      BY DEF Pcs
    <2>2. QED
      BY <1>1, <2>1 DEF Requests
  <1> HIDE DEF x
  <1>4. handlers' \in [Handlers -> Requests] /\ handlers'[h] = x /\ HandlersKeep(h)
    BY <1>2, <1>3 DEF Inv, Typed, HandlersKeep
  <1>5. Admins(db)' = Admins(db) /\ (\A v : Exists(v)' = Exists(v)) /\ \A f : There(f)' <=> There(f)
    BY <1>1 DEF Admins, IsAdmin, Exists, There
  <1>6. Typed'
    <2>1. unsure' \subseteq Fields
      BY <1>1 DEF Inv, Typed, TypeOK
    <2>2. QED
      BY <1>1, <1>4, <2>1, SetsInFields DEF Inv, Typed, TypeOK
  <1>7. RequestsFit'
    <2>1. Fits(handlers[h])'
      BY <1>1, <1>3, <1>4 DEF Fits, ChangesFit, MovesBin
    <2>2. QED
      BY <1>1, <1>4, <1>5, <2>1, FitsKept
  <1>8. KnownWritten' /\ KnownRecorded'
    <2>1. Grows
      BY <1>5 DEF Grows
    <2>2. \A f \in DOMAIN x.sets : There(f)'
      BY <1>1, <1>3, <1>5 DEF Inv, IInv, KnownWritten
    <2>3. QED
      BY <1>1, <1>4, <1>6, <2>1, <2>2, KnownKept, RecordedKept
  <1>9. PairIsSeen'
    BY <1>1, <1>3, <1>4, PairKept
  <1>10. AdminRemains' /\ LocationInSync'
    BY <1>1, <1>5 DEF Inv, IInv, AdminRemains, LocationInSync
  <1>11. ReportOwed' /\ ReportAnnounced'
    BY <1>1, <1>3, <1>4, <1>5, ReportKept
  <1>12. RecordsFollow'
    <2> SUFFICES ASSUME NEW f \in Fields \ unsure' PROVE Follows(f)'
      BY DEF RecordsFollow
    <2>1. Follows(f) /\ f \notin DOMAIN handlers[h].sets
      BY <1>1 DEF Inv, IInv, RecordsFollow
    <2>2. \A g \in Handlers : Recording(g, f)' <=> Recording(g, f)
      BY <1>3, <1>4, <2>1 DEF HandlersKeep, Recording
    <2>3. \A g \in Handlers : handlers'[g].sets = handlers[g].sets
      BY <1>3, <1>4 DEF HandlersKeep
    <2>4. QED
      BY <1>1, <2>1, <2>2, <2>3, FollowsKept
  <1>13. QED
    BY <1>6, <1>7, <1>8, <1>9, <1>10, <1>11, <1>12 DEF Inv, IInv, Typed

LEMMA WriteStep == ASSUME Inv, NEW h \in Handlers, Write(h) PROVE Inv'
  <1>1. CASE Finds(handlers[h])
    <2>1. Writes(h)
      BY <1>1, WriteEffect
    <2>2. QED
      BY <2>1, WriteTyped, WriteFits, WritePair, WriteReport, WriteRecords, WriteAdmins
         DEF Inv, IInv, Typed
  <1>2. CASE ~Finds(handlers[h])
    <2>1. Fits(handlers[h]) /\ handlers[h].pc = "write"
      BY DEF Inv, IInv, RequestsFit, Write
    <2>2. handlers[h].op # "report"
      BY <2>1 DEF Fits
    <2>3. handlers' = Done(h) /\ DocumentsKeep /\ tokens' = tokens /\ calls' = calls /\ events' = events
      BY <1>2 DEF Write, NotFound, DocumentsKeep
    <2>4. "idle" \in Pcs \ {"record"}
      BY DEF Pcs
    <2>5. QED
      BY <2>1, <2>2, <2>3, <2>4, GoesOn
  <1>3. QED
    BY <1>1, <1>2

----
(* The seed *)

LEMMA SeedSteps == ASSUME Inv, NEW h \in Handlers, SeedAdmin(h) \/ SeedUser(h) PROVE Inv'
  <1>1. CASE SeedAdmin(h)
    BY <1>1, SeedStepHolds DEF SeedAdmin
  <1>2. CASE SeedUser(h)
    BY <1>2, SeedStepHolds DEF SeedUser
  <1>3. QED
    BY <1>1, <1>2

----
(* The invariant *)

LEMMA InvInit == Init => Inv
  <1> SUFFICES ASSUME Init PROVE Inv
    OBVIOUS
  <1>1. PICK roles \in FirstRoles : db = FirstDb(roles)
    BY DEF Init
  <1>2. roles \in [Users -> {"none", "admin"}]
        /\ ((\A u \in Users : roles[u] = "none") \/ roles["admin"] = "admin")
    BY FieldFacts DEF FirstRoles
  <1>3. ASSUME NEW u \in Users
        PROVE  db[<<u, "role">>] = roles[u] /\ db[<<u, "active">>] = TRUE
    <2>1. <<u, "role">> \in Fields /\ <<u, "active">> \in Fields /\ u # "report" /\ u # "bin"
      BY FieldFacts
    <2>2. db[<<u, "role">>] = roles[u]
      BY <1>1, <2>1 DEF FirstDb
    <2>3. db[<<u, "active">>] = TRUE
      BY <1>1, <2>1 DEF FirstDb
    <2>4. QED
      BY <2>2, <2>3
  <1>4. db[<<"bin", "lat">>] = 0 /\ db[<<"bin", "lng">>] = 0 /\ db[<<"report", "status">>] = "none"
    BY <1>1, FieldFacts DEF FirstDb
  <1>5. db \in [Fields -> Values]
    <2>1. \A f \in Fields : db[f] \in Values
      <3> TAKE f \in Fields
      <3>1. CASE f[1] \in Users
        <4>1. f = <<f[1], "role">> \/ f = <<f[1], "active">>
          BY <3>1, FieldKinds
        <4>2. QED
          BY <1>2, <1>3, <3>1, <4>1 DEF Values
      <3>2. CASE f[1] \notin Users
        <4>1. f \notin Users \X {"role"}
          BY <3>2
        <4>2. db[f] \in {0, "none", "on", TRUE}
          BY <1>1, <4>1 DEF FirstDb
        <4>3. QED
          BY <4>2 DEF Values
      <3>3. QED
        BY <3>1, <3>2
    <2>2. db = [f \in Fields |-> db[f]]
      BY <1>1 DEF FirstDb
    <2>3. QED
      BY <2>1, <2>2
  <1>6. /\ location = <<0, 0>> /\ log = <<>> /\ tokens = Admins(db)
        /\ handlers = [h \in Handlers |-> Idle] /\ announced = {} /\ calls = 0 /\ events = 0
        /\ unsure = {} /\ lapsed = FALSE /\ torn = FALSE /\ owed = {}
    BY DEF Init
  <1>7. handlers \in [Handlers -> Requests] /\ \A h \in Handlers : handlers[h] = Idle
    BY <1>6, IdleFields
  <1>8. log \in Seq(Records) /\ DOMAIN log = {}
    BY <1>6
  <1>9. Typed
    <2>1. Admins(db) \subseteq Users
      BY DEF Admins
    <2>2. \A h \in Handlers : DOMAIN handlers[h].sets \subseteq Fields
      BY <1>7, IdleFields, NoChange
    <2>3. calls \in 0 .. MaxCalls /\ events \in 0 .. MaxEvents
      BY <1>6, BackofficeAssumption
    <2>4. DOMAIN db = Fields
      BY <1>5
    <2>5. location \in (Coords \cup {0}) \X (Coords \cup {0})
      BY <1>6
    <2>6. TypeOK
      BY <1>6, <1>8, <2>1, <2>2, <2>3, <2>4, <2>5 DEF TypeOK
    <2>7. QED
      BY <1>4, <1>5, <1>7, <1>8, <2>6 DEF Typed
  <1>10. RequestsFit /\ KnownWritten /\ KnownRecorded /\ PairIsSeen
    BY <1>7, <1>8, IdleFields, NoChange, DoneFits
       DEF RequestsFit, KnownWritten, KnownRecorded, PairIsSeen
  <1>11. AdminRemains
    <2>1. CASE \A u \in Users : roles[u] = "none"
      BY <1>3, <2>1 DEF AdminRemains, Exists
    <2>2. CASE roles["admin"] = "admin"
      <3>1. "admin" \in Admins(db)
        BY <1>3, <2>2, FieldFacts DEF Admins, IsAdmin
      <3>2. QED
        BY <3>1 DEF AdminRemains
    <2>3. QED
      BY <1>2, <2>1, <2>2
  <1>12. LocationInSync
    BY <1>4, <1>6 DEF LocationInSync
  <1>13. ReportOwed /\ ReportAnnounced
    BY <1>6, <1>7, IdleFields DEF ReportOwed, ReportAnnounced, Reports
  <1>14. RecordsFollow
    BY <1>7, <1>8, IdleFields DEF RecordsFollow, Follows, Recording
  <1>15. QED
    BY <1>9, <1>10, <1>11, <1>12, <1>13, <1>14 DEF Inv, IInv, Typed

\* Nothing happens.
LEMMA StutterStep == ASSUME Inv, UNCHANGED vars PROVE Inv'
  <1>1. DocumentsKeep /\ handlers' = handlers /\ tokens' = tokens /\ calls' = calls /\ events' = events
    BY DEF vars, DocumentsKeep
  <1>2. Typed'
    BY <1>1 DEF Inv, Typed, TypeOK, DocumentsKeep
  <1>3. RequestsFit' /\ KnownWritten' /\ KnownRecorded' /\ PairIsSeen'
    BY <1>1 DEF Inv, IInv, RequestsFit, Fits, ChangesFit, MovesBin, KnownWritten, KnownRecorded,
                There, Exists, PairIsSeen, DocumentsKeep
  <1>4. AdminRemains' /\ LocationInSync' /\ ReportOwed' /\ ReportAnnounced'
    BY <1>1 DEF Inv, IInv, AdminRemains, LocationInSync, ReportOwed, ReportAnnounced, Reports,
                Admins, IsAdmin, Exists, DocumentsKeep
  <1>5. RecordsFollow'
    BY <1>1 DEF Inv, IInv, RecordsFollow, Follows, Recording, RecordsOf, IsLast, DocumentsKeep
  <1>6. QED
    BY <1>2, <1>3, <1>4, <1>5 DEF Inv, IInv, Typed

LEMMA InvStep == ASSUME Inv, [Next]_vars PROVE Inv'
  <1>1. CASE UNCHANGED vars
    BY <1>1, StutterStep
  <1>2. ASSUME NEW h \in Handlers, NEW by \in tokens,
               \/ CreateUser(h, by) \/ UpdateUser(h, by) \/ DeleteUser(h, by) \/ UpsertBin(h, by)
               \/ PutBin(h, by)
        PROVE  Inv'
    BY <1>2, CreateUserStep, UpdateUserStep, DeleteUserStep, UpsertBinStep, PutBinStep
  <1>3. ASSUME NEW h \in Handlers, NEW by \in tokens,
               \/ DeleteBin(h, by) \/ CreateRule(h, by) \/ PutRule(h, by) \/ DeleteRule(h, by)
               \/ PutConfig(h, by) \/ UpdateReport(h, by)
        PROVE  Inv'
    BY <1>3, PlainStep, RuleStep
  <1>4. ASSUME NEW h \in Handlers, NEW by \in tokens, DeleteAudit(h, by)
        PROVE  Inv'
    BY <1>4, EmptyStep
  <1>5. ASSUME NEW h \in Handlers, SubmitReport(h) \/ StartSeed(h)
        PROVE  Inv'
    BY <1>5, SubmitReportStep, EmptyStep
  <1>6. ASSUME NEW h \in Handlers,
               Look(h) \/ Hook(h) \/ LookEntry(h) \/ FindAdmins(h) \/ SeedCount(h)
        PROVE  Inv'
    BY <1>6, LookStep, HookStep, LookEntryStep, FindAdminsStep, SeedCountStep
  <1>7. ASSUME NEW h \in Handlers,
               Write(h) \/ WriteInVain(h) \/ Record(h) \/ Remove(h) \/ StoreReport(h)
        PROVE  Inv'
    BY <1>7, WriteStep, WriteInVainStep, RecordStep, RemoveStep, StoreReportStep
  <1>8. ASSUME NEW h \in Handlers, FanOut(h) \/ Fault(h) \/ SeedAdmin(h) \/ SeedUser(h)
        PROVE  Inv'
    BY <1>8, EndStep, SeedSteps
  <1>9. ASSUME NEW u \in Users, SignIn(u) \/ Expire(u)
        PROVE  Inv'
    BY <1>9, TokenStep
  <1>10. QED
    BY <1>1, <1>2, <1>3, <1>4, <1>5, <1>6, <1>7, <1>8, <1>9 DEF Next

LEMMA InvHolds == Spec => []Inv
  <1>1. Inv /\ [Next]_vars => Inv'
    BY InvStep
  <1>2. QED
    BY InvInit, <1>1, PTL DEF Spec

(***************************************************************************)
(* The properties.                                                         *)
(***************************************************************************)

\* Every field that is written, recorded or unsure is one of a document.
THEOREM TypeCorrect == Spec => []TypeOK
  <1>1. Inv => TypeOK
    BY DEF Inv, Typed
  <1>2. QED
    BY InvHolds, <1>1, PTL

\* However many administrators, requests and expired tokens there are, some
\* account stays an active administrator, unless one who had lost the role
\* changed an account with a token that still said "admin".
THEOREM AdminHolds == Spec => []AdminRemains
  <1>1. Inv => AdminRemains
    BY DEF Inv, IInv
  <1>2. QED
    BY InvHolds, <1>1, PTL

\* The last audit record of a field is its value, whatever the order of the
\* writes and of the records that follow them, for a field that is not unsure:
\* since its last undisturbed change no other one overlapped it, failed before its
\* record, had its record deleted, or was that of a rule already deleted.
THEOREM RecordsHold == Spec => []RecordsAgree
  <1>1. QED
    BY InvHolds, RecordsFollowAgree, PTL

\* The hook of the model keeps the point of a bin with its latitude and
\* longitude through full updates, and partial ones that nothing crossed.
THEOREM LocationHolds == Spec => []LocationInSync
  <1>1. Inv => LocationInSync
    BY DEF Inv, IInv
  <1>2. QED
    BY InvHolds, <1>1, PTL

\* Nobody who was an active administrator throughout misses a citizen's report,
\* though its recipients are looked up after it is stored.
THEOREM AnnouncedHolds == Spec => []ReportAnnounced
  <1>1. Inv => ReportAnnounced
    BY DEF Inv, IInv
  <1>2. QED
    BY InvHolds, <1>1, PTL
=============================================================================
