------------------------------ MODULE Database ------------------------------
(***************************************************************************)
(* What the router keeps in Redis for one session (database.go), as a      *)
(* record and the operations on it:                                        *)
(*   listed  the session is a member of the set "sessions"                 *)
(*   queue   the list "session:<instance>:<id>", the message log           *)
(*   objs    the set "session_objs:<instance>:<id>"                        *)
(*   vals    the keys "period:...", "group:..." and "page:..."             *)
(*   config  the keys "config:..."                                         *)
(* A session object is named by its type and its subject.  The operations  *)
(* are the successful ones: Redis answers and nothing is interrupted.      *)
(***************************************************************************)
EXTENDS Messages, Integers, Sequences, Functions

IntTypes == {"period", "group", "page"}

Objects == (IntTypes \cup {"config"}) \X Names

Absent == -1        \* the answer of GET for a key that does not exist

RedisType == [listed: BOOLEAN, queue: Seq(Msg), objs: SUBSET Objects,
              vals: [IntTypes \X Names -> Nat \cup {Absent}],
              config: [Names -> Msg \cup {NoMsg}]]

EmptyRedis == [listed |-> FALSE, queue |-> << >>, objs |-> {},
               vals |-> [o \in IntTypes \X Names |-> Absent],
               config |-> [n \in Names |-> NoMsg]]

(***************************************************************************)
(* SaveMessage: SADD sessions, then RPUSH onto the log.                    *)
(***************************************************************************)
SaveMessage(db, m) ==
    [db EXCEPT !.listed = TRUE, !.queue = Append(@, m)]

(***************************************************************************)
(* SetSessionObject: SET the object's key, then SADD it to session_objs.   *)
(***************************************************************************)
SetInt(db, type, name, v) ==
    [db EXCEPT !.vals[<<type, name>>] = v, !.objs = @ \cup {<<type, name>>}]

SetConfig(db, m) ==
    [db EXCEPT !.config[m.sender] = m, !.objs = @ \cup {<<"config", m.sender>>}]

\* Mutant: session_objs is forgotten as well.
KeepSessionObjects(db) == db

(***************************************************************************)
(* DeleteSessionObjects looks for the objects to delete under the key of   *)
(* the log instead of that of session_objs.  DeleteSession has just        *)
(* deleted the log, so SMEMBERS answers with the empty set, no object is   *)
(* deleted, and only session_objs itself goes.                             *)
(***************************************************************************)
DeleteSessionObjects(db) == [db EXCEPT !.objs = {}]

\* Mutant: the log survives.
DeleteAllButLog(db) == DeleteSessionObjects([db EXCEPT !.listed = FALSE])

DeleteSession(db) ==
    DeleteSessionObjects([db EXCEPT !.queue = << >>, !.listed = FALSE])

(***************************************************************************)
(* Redis LRANGE from lo to hi, both inclusive and counted from 0: what is  *)
(* beyond the end of the list is left out.                                 *)
(***************************************************************************)
LRange(list, lo, hi) ==
    SubSeq(list, lo + 1, IF hi + 1 < Len(list) THEN hi + 1 ELSE Len(list))

(***************************************************************************)
(* What NewRouter makes of the session objects: the subjects it creates,   *)
(* the period or group it gives them (0 when there is no such object), and *)
(* the configs it may take for last_cfg.  Smembers has no order, so with   *)
(* more than one config object any of them may be the last one read.       *)
(***************************************************************************)
StoredSubjects(db) == {n \in Names : \E o \in db.objs : o[2] = n}

StoredInt(db, type, name) ==
    IF <<type, name>> \in db.objs THEN db.vals[<<type, name>>] ELSE 0

StoredConfigs(db) ==
    IF \E n \in Names : <<"config", n>> \in db.objs
    THEN {db.config[n] : n \in {k \in Names : <<"config", k>> \in db.objs}}
    ELSE {NoMsg}

(***************************************************************************)
(* The page that Django shows a subject (session_experiment, views.py): it *)
(* reads the period and page keys, never session_objs.  The page named     *)
(* Wait is number 0; NoPage is the 404 for a subject who has a period but  *)
(* no page.                                                                *)
(***************************************************************************)
WaitPage == 0

NoPage == -1

PageServed(db, name) ==
    IF db.vals[<<"period", name>>] \in {Absent, 0}
    THEN WaitPage
    ELSE IF db.vals[<<"page", name>>] = Absent
         THEN NoPage
         ELSE db.vals[<<"page", name>>]
=============================================================================
