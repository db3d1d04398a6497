------------------------------ MODULE WebServer ------------------------------
(* The web interface as a server: webui/server.py with auth.py, api.py, the   *)
(* handlers of control.py, the editors engines.py and profiles.py, the import *)
(* of a run and the browsing of its records. JobStore has the jobs.           *)
(*                                                                            *)
(* A connection has a thread, which handles one request after another. What a *)
(* handler does between two looks at shared state is one step.                *)
EXTENDS Integers, FiniteSets, Sequences, SequencesExt

CONSTANTS
    Connections,
    Requests,      \* [method, path, body, origin, host, name, text, right]
    MaxRequests,   \* bound: requests in one behaviour
    MaxClock,      \* bound: the clock
    MaxRestarts,   \* bound: restarts of the server
    Options,       \* what it may be started with: [control, auth]
    Idle, Absolute,                          \* of a session
    BackoffAfter, BackoffBase, BackoffMax,   \* 3, 2 s and 300 s
    DrainLimit,    \* a body is 0, at most this, or more
    Drivers,
    Archives,      \* by name: the members of an archive, in its order
    Stored, StoredConfig,  \* the run directories and .yml files at first
    NotJson, None

ASSUME WebAssumption ==
    /\ IsFiniteSet(Connections)
    /\ Options \subseteq [control: BOOLEAN, auth: BOOLEAN]
    /\ {MaxRequests, MaxClock, MaxRestarts, Idle, Absolute, BackoffAfter,
        BackoffBase, BackoffMax, DrainLimit} \subseteq Nat
    /\ BackoffAfter > 0 /\ 0 < BackoffBase /\ BackoffBase <= BackoffMax
    /\ None \notin Nat

ASSUME RequestAssumption == \A r \in Requests :
    /\ r.body \in Nat /\ {r.origin, r.host, r.right} \subseteq BOOLEAN
    /\ r.path = "import" => r.text \in DOMAIN Archives

(* A run directory as the interface sees it.                                  *)
Manifest == "run-manifest.json"
StoredRuns == {Stored[id] : id \in DOMAIN Stored} \ {None}
Members == {Manifest} \cup UNION {run.members : run \in StoredRuns}
              \cup UNION {ToSet(Archives[a].members) : a \in DOMAIN Archives}
Labels == {None, "imported"} \cup {run.label : run \in StoredRuns}
              \cup {r.text : r \in {q \in Requests : q.path = "label"}}
Profiles == {None, "smoke"} \cup {run.profile : run \in StoredRuns}
Measured == {<< >>} \cup {run.records : run \in StoredRuns}
RunDirectories == [members: SUBSET Members, label: Labels, profile: Profiles,
                   records: Measured]

ASSUME FilesAssumption ==
    /\ Stored \in [DOMAIN Stored -> RunDirectories \cup {None}]
    /\ None \notin RunDirectories
    /\ \A a \in DOMAIN Archives : Archives[a].members \in Seq(Members)

VARIABLES
    options,    \* --allow-control, --auth
    conn,       \* [Connections -> the state of its handler thread]
    clock,
    failures,   \* Auth._failures of the one address everybody comes from
    sessions,   \* Auth._sessions, by the number of the sign-in
    config,     \* the .yml files, by <<kind, name>>
    temporary,  \* their .tmp files
    runs,       \* results/: by run id, [members, label]
    staging,    \* the .import- directories: by connection, the members so far
    received, restarts,
    signedIn,   \* history: when each session was given out
    signedOut,  \* history: the sessions somebody ended
    wrong       \* history: wrong passwords since the last right one

vars == <<options, conn, clock, failures, sessions, config, temporary, runs, staging,
          received, restarts, signedIn, signedOut, wrong>>
auth == <<failures, sessions, signedIn, signedOut, wrong>>
files == <<config, temporary, runs, staging>>
rest == <<options, clock, received, restarts>>

AllowControl == options.control
AuthEnabled == options.auth

Fresh == [pc |-> "idle", req |-> None, session |-> None, unread |-> 0,
          consumed |-> FALSE, bodies |-> 0, status |-> None, answer |-> None,
          member |-> 0]

Init ==
    /\ options \in Options
    /\ conn = [c \in Connections |-> Fresh]
    /\ clock = 0
    /\ failures = [count |-> 0, next |-> 0]
    /\ sessions = << >> /\ signedIn = << >> /\ signedOut = {} /\ wrong = 0
    /\ config = StoredConfig
    /\ temporary = [p \in DOMAIN StoredConfig |-> None]
    /\ runs = Stored
    /\ staging = [c \in Connections |-> None]
    /\ received = 0 /\ restarts = 0

Req(c) == conn[c].req
At(c, place) == conn[c].pc = place
Go(c, place) == conn' = [conn EXCEPT ![c].pc = place]

-----------------------------------------------------------------------------
(* Answers                                                                    *)

(* Bytes the client announced and this handler has not read. The flag is the  *)
(* handler object's, which is the connection's.                               *)
PendingRequestBody(k) == IF k.consumed THEN 0 ELSE k.req.body

Ended(k, status, answer) ==
    [k EXCEPT !.pc = "idle", !.req = None, !.session = None, !.member = 0,
              !.status = status,
              !.answer = <<k.req.path, k.req.method, status, answer>>]

(* A plausible bug: a refusal leaves its body in the connection.              *)
SendJson_Undrained(k, status, answer) ==
    Ended(k, status, answer)

(* A refusal is sent once its body is out of the way: read, or the connection *)
(* ended. A server error is one too.                                          *)
SendJson(k, status, answer) ==
    LET pending == PendingRequestBody(k)
        sent == Ended(k, status, answer)
    IN IF pending = 0 \/ status < 400 THEN sent
       ELSE IF pending <= DrainLimit
            THEN [sent EXCEPT !.unread = 0, !.consumed = TRUE]
       ELSE [sent EXCEPT !.pc = "closed"]

Answer(c, status, answer) ==
    conn' = [conn EXCEPT ![c] = SendJson(@, status, answer)]
Refuse(c, status) == Answer(c, status, None)

ReadBody(k) == IF k.req.body = 0 THEN k
               ELSE [k EXCEPT !.unread = 0, !.consumed = TRUE]

-----------------------------------------------------------------------------
(* auth.py                                                                    *)

RetryAfter == IF failures.count < BackoffAfter THEN 0
              ELSE IF failures.next > clock THEN failures.next - clock ELSE 0

(* A plausible bug: the wait begins one failure late.                         *)
Delay_Late(n) == LET d == BackoffBase * 2 ^ (n - BackoffAfter)
                 IN IF n <= BackoffAfter THEN 0
                    ELSE IF d < BackoffMax THEN d ELSE BackoffMax

Delay(n) == LET d == BackoffBase * 2 ^ (n - BackoffAfter)
            IN IF n < BackoffAfter THEN 0
               ELSE IF d < BackoffMax THEN d ELSE BackoffMax

RecordFailure ==
    failures' = [count |-> failures.count + 1,
                 next |-> clock + Delay(failures.count + 1)]

Live(s) == /\ s \in DOMAIN sessions /\ sessions[s] # None
           /\ clock - sessions[s].created <= Absolute
           /\ clock - sessions[s].seen <= Idle

(* A plausible bug: a session that is used begins anew.                       *)
Touched_Renewed(s) == [created |-> clock, seen |-> clock]
Touched(s) == [sessions[s] EXCEPT !.seen = clock]

(* is_valid: an expired session is forgotten, one that is used is kept.       *)
IsValid(s, valid) ==
    IF ~ AuthEnabled THEN valid /\ UNCHANGED sessions
    ELSE IF s \notin DOMAIN sessions THEN ~ valid /\ UNCHANGED sessions
    ELSE IF sessions[s] = None THEN ~ valid /\ UNCHANGED sessions
    ELSE /\ valid = Live(s)
         /\ sessions' = [sessions EXCEPT ![s] = IF Live(s) THEN Touched(s)
                                                ELSE None]

-----------------------------------------------------------------------------
(* The handler of a request, up to its path                                   *)

Asked(k, r, s) ==
    [k EXCEPT !.pc = "request", !.req = r, !.session = s, !.unread = r.body,
              !.status = None, !.answer = None,
              !.bodies = IF r.body = 0 THEN @ ELSE IF @ = 0 THEN 1 ELSE 2]

(* A browser sends the cookie of any sign-in it remembers, or none.           *)
Receive(c) ==
    /\ At(c, "idle") /\ conn[c].unread = 0 /\ received < MaxRequests
    /\ \E r \in Requests : \E s \in DOMAIN signedIn \cup {None} :
         conn' = [conn EXCEPT ![c] = Asked(@, r, s)]
    /\ received' = received + 1
    /\ UNCHANGED <<options, clock, restarts, auth, files>>

(* What an earlier answer left unread is taken for a request line: http.server *)
(* answers 400 and ends the connection.                                       *)
ReadGarbage(c) ==
    /\ At(c, "idle") /\ conn[c].unread > 0 /\ received < MaxRequests
    /\ conn' = [conn EXCEPT ![c].pc = "closed", ![c].status = 400]
    /\ received' = received + 1
    /\ UNCHANGED <<options, clock, restarts, auth, files>>

Changes(r) == r.method \in {"POST", "PUT", "DELETE"}

RefuseOutside(c) ==
    /\ At(c, "request")
    /\ ~ (Req(c).host /\ (Changes(Req(c)) => Req(c).origin))
    /\ Refuse(c, 403)
    /\ UNCHANGED <<rest, auth, files>>

Inside(c) == /\ At(c, "request") /\ Req(c).host
             /\ Changes(Req(c)) => Req(c).origin

PublicPaths == {"page-of-sign-in", "health"}

Logout(c) ==
    /\ Inside(c) /\ Req(c).path = "logout"
    /\ LET s == conn[c].session IN
       /\ sessions' = IF s \in DOMAIN sessions
                      THEN [sessions EXCEPT ![s] = None] ELSE sessions
       /\ signedOut' = signedOut \cup {s}
    /\ Answer(c, 200, "ok")
    /\ UNCHANGED <<rest, files, failures, signedIn, wrong>>

(* Every other path is behind the sign-in; a page is redirected to it.        *)
Admit(c) ==
    /\ Inside(c) /\ Req(c).path \notin {"login", "logout"} \cup PublicPaths
    /\ \E valid \in BOOLEAN :
         /\ IsValid(conn[c].session, valid)
         /\ IF valid THEN Go(c, "admitted")
            ELSE IF Req(c).path = "page"
                 THEN conn' = [conn EXCEPT ![c] = Ended(@, 302, None)]
            ELSE Refuse(c, 401)
    /\ UNCHANGED <<rest, files, failures, signedIn, signedOut, wrong>>

(* health tells those who are signed in more.                                 *)
Health(c) ==
    /\ Inside(c) /\ Req(c).path = "health"
    /\ \E valid \in BOOLEAN :
         /\ IsValid(conn[c].session, valid)
         /\ Answer(c, 200, [authenticated |-> valid,
                            control |-> IF valid THEN AllowControl ELSE None])
    /\ UNCHANGED <<rest, files, failures, signedIn, signedOut, wrong>>

ServePublicPage(c) ==
    /\ Inside(c) /\ Req(c).path = "page-of-sign-in"
    /\ Answer(c, 200, "page")
    /\ UNCHANGED <<rest, auth, files>>

-----------------------------------------------------------------------------
(* Signing in: the wait, the password and its consequence are three looks     *)

LoginRefused(c) ==
    /\ Inside(c) /\ Req(c).path = "login"
    /\ ~ AuthEnabled \/ RetryAfter > 0
    /\ Refuse(c, IF AuthEnabled THEN 429 ELSE 400)
    /\ UNCHANGED <<rest, auth, files>>

LoginBegins(c) ==
    /\ Inside(c) /\ Req(c).path = "login"
    /\ AuthEnabled /\ RetryAfter = 0
    /\ conn' = [conn EXCEPT ![c] = [ReadBody(@) EXCEPT !.pc = "password"]]
    /\ UNCHANGED <<rest, auth, files>>

LoginFails(c) ==
    /\ At(c, "password") /\ ~ Req(c).right
    /\ RecordFailure /\ wrong' = wrong + 1
    /\ Refuse(c, 401)
    /\ UNCHANGED <<rest, files, sessions, signedIn, signedOut>>

(* The failures are cleared in one critical section, the session is made in   *)
(* the next.                                                                  *)
LoginClears(c) ==
    /\ At(c, "password") /\ Req(c).right
    /\ failures' = [count |-> 0, next |-> 0] /\ wrong' = 0
    /\ Go(c, "clear")
    /\ UNCHANGED <<rest, files, sessions, signedIn, signedOut>>

LoginSucceeds(c) ==
    /\ At(c, "clear")
    /\ sessions' = Append(sessions, [created |-> clock, seen |-> clock])
    /\ signedIn' = Append(signedIn, clock)
    /\ Answer(c, 200, Len(sessions'))
    /\ UNCHANGED <<rest, files, failures, signedOut, wrong>>

-----------------------------------------------------------------------------
(* api.dispatch and the handlers that only read                               *)

Routes == [runs |-> {"GET"}, records |-> {"GET"}, setup |-> {"GET"},
           engines |-> {"GET", "PUT"}, profiles |-> {"GET", "PUT"},
           validate |-> {"POST"}, clone |-> {"POST"}, label |-> {"PUT"},
           import |-> {"POST"}]
Api(c) == Req(c).path \in DOMAIN Routes

(* What is no endpoint is a file of the run, a bundle of it or a page.        *)
Dispatch(c) ==
    /\ At(c, "admitted") /\ Req(c).path # "import"
    /\ IF Api(c)
       THEN LET k == IF Req(c).method \in {"POST", "PUT"} THEN ReadBody(conn[c])
                                                          ELSE conn[c]
            IN conn' = [conn EXCEPT ![c] =
                 IF Req(c).text = NotJson
                 THEN SendJson(k, 400, None)
                 ELSE IF Req(c).method \notin Routes[Req(c).path]
                 THEN SendJson(k, 405, None)
                 ELSE [k EXCEPT !.pc = "handler"]]
       ELSE IF Req(c).method \notin {"GET", "HEAD"} THEN Refuse(c, 405)
       ELSE IF Req(c).path = "page" THEN Answer(c, 200, "page")
       ELSE Answer(c, IF runs[Req(c).name] = None THEN 404 ELSE 200, "file")
    /\ UNCHANGED <<rest, auth, files>>

Handling(c, path, method) == /\ At(c, "handler") /\ Req(c).path = path
                             /\ Req(c).method = method

(* Only a directory with a readable manifest is a run; a name that is a path  *)
(* is none.                                                                   *)
ListRuns(c) ==
    /\ Handling(c, "runs", "GET")
    /\ Answer(c, 200, {id \in DOMAIN runs : runs[id] # None})
    /\ UNCHANGED <<rest, auth, files>>

FacetFields == {"engine", "phase"}
Facets(records) == [f \in FacetFields |-> {r[f] : r \in ToSet(records)} \ {None}]

(* Fields that no facet names do not filter.                                  *)
FilterRecords(records, selection) ==
    SelectSeq(records, LAMBDA r :
        \A f \in DOMAIN selection \cap FacetFields : r[f] \in selection[f])

(* Points of one engine in one line, in the order of their x.                 *)
Series(records) ==
    LET drawn == SelectSeq(records, LAMBDA r : r.qps # None /\ r.recall # None)
    IN [e \in {r.engine : r \in ToSet(drawn)} |->
          SortSeq(SelectSeq(drawn, LAMBDA r : r.engine = e),
                  LAMBDA a, b : \/ a.recall < b.recall
                                \/ (a.recall = b.recall /\ a.qps < b.qps))]

(* Records of two measurement versions are not shown beside each other: the   *)
(* reader raises, and the answer is a 500.                                    *)
BrowseRecords(c) ==
    /\ Handling(c, "records", "GET")
    /\ LET run == runs[Req(c).name] IN
       IF run = None THEN Refuse(c, 404)
       ELSE IF Cardinality({r.version : r \in ToSet(run.records)}) > 1
            THEN Refuse(c, 500)
       ELSE Answer(c, 200,
              [facets |-> Facets(run.records),
               records |-> FilterRecords(run.records, Req(c).text),
               series |-> Series(FilterRecords(run.records, Req(c).text))])
    /\ UNCHANGED <<rest, auth, files>>

(* setup.plan: images, a corpus that is not made up, a smoke run that         *)
(* completed, and then a measurement, which is never done.                    *)
SetupSteps == <<"images", "datasets", "smoke", "measure">>
Done(step, present, smoke) ==
    CASE step = "images" -> \A p \in DOMAIN config :
              p[1] = "engines" /\ config[p] # None => config[p].built
      [] step = "datasets" -> \E d \in present : d # "tiny"
      [] step = "smoke" -> smoke
      [] step = "measure" -> FALSE

SetupPlan(c) ==
    /\ Handling(c, "setup", "GET")
    /\ \E present \in SUBSET {"tiny", "fetched"} :
         LET smoke == \E id \in DOMAIN runs :
                 runs[id] # None /\ runs[id].profile = "smoke"
             undone == {i \in 1 .. 4 : ~ Done(SetupSteps[i], present, smoke)}
         IN Answer(c, 200, [next |-> SetupSteps[CHOOSE i \in undone :
                                       \A j \in undone : i <= j],
                            ready |-> undone = {4}])
    /\ UNCHANGED <<rest, auth, files>>

ReadConfig(c) ==
    /\ \/ Handling(c, "engines", "GET") \/ Handling(c, "profiles", "GET")
    /\ LET found == config[<<Req(c).path, Req(c).name>>]
       IN Answer(c, IF found = None THEN 404 ELSE 200, found)
    /\ UNCHANGED <<rest, auth, files>>

-----------------------------------------------------------------------------
(* The editors                                                                *)

OtherEngines(name) == {p \in DOMAIN config : /\ p[1] = "engines" /\ p[2] # name
                                             /\ config[p] # None}

CollisionErrors(name, text) ==
    IF \E p \in OtherEngines(name) : config[p].constructor = text.constructor
    THEN {"ann_constructor is already used"} ELSE {}

OtherImages(name) == UNION {config[p].images : p \in OtherEngines(name)}

(* A text is a file as the editors see it: the name it gives itself, and what *)
(* it says of the engine.                                                     *)
ValidateEngine(name, text) ==
    IF text.runtime = None THEN {"runtime must be a mapping"}
    ELSE (IF text.name # name THEN {"name in file"} ELSE {})
       \cup (IF text.constructor = None THEN {"ann_constructor is required"} ELSE {})
       \cup (IF text.runtime \notin Drivers THEN {"driver does not exist"} ELSE {})
       \cup CollisionErrors(name, text)
       \cup (IF text.images \cap OtherImages(name) # {}
             THEN {"image is already used"} ELSE {})

ValidateProfile(name, text) ==
    (IF text.name # name THEN {"name in file"} ELSE {})
    \cup (IF text.datasets = {} THEN {"datasets must be a non-empty list"} ELSE {})

Validate(kind, name, text) ==
    IF kind = "engines" THEN ValidateEngine(name, text)
                        ELSE ValidateProfile(name, text)

(* Every handler that would change something asks first whether it may.       *)
Denied(c) ==
    /\ At(c, "handler") /\ ~ AllowControl
    /\ Req(c).path \in {"validate", "clone", "label"} \/ Req(c).method = "PUT"
    /\ Refuse(c, 403)
    /\ UNCHANGED <<rest, auth, files>>

ValidateText(c) ==
    /\ Handling(c, "validate", "POST") /\ AllowControl
    /\ Answer(c, 200, ValidateEngine(Req(c).name, Req(c).text))
    /\ UNCHANGED <<rest, auth, files>>

(* A copy takes the base's text with its own name, images and constructor; it *)
(* is not written.                                                            *)
CloneEngine(c) ==
    /\ Handling(c, "clone", "POST") /\ AllowControl
    /\ LET base == config[<<"engines", Req(c).text>>]
           p == <<"engines", Req(c).name>>
       IN IF config[p] # None \/ base = None THEN Refuse(c, 400)
          ELSE Answer(c, 200, [base EXCEPT !.name = Req(c).name,
                                 !.constructor = Req(c).name,
                                 !.images = {Req(c).name}])
    /\ UNCHANGED <<rest, auth, files>>

Edited(c) == <<Req(c).path, Req(c).name>>

PutText(c) ==
    /\ \/ Handling(c, "engines", "PUT") \/ Handling(c, "profiles", "PUT")
    /\ AllowControl
    /\ LET errors == Validate(Req(c).path, Req(c).name, Req(c).text)
       IN IF errors # {} THEN Answer(c, 400, errors) ELSE Go(c, "write")
    /\ UNCHANGED <<rest, auth, files>>

(* The temporary file has the name of what it replaces, whoever writes it.    *)
WriteTemporary(c) ==
    /\ At(c, "write")
    /\ temporary' = [temporary EXCEPT ![Edited(c)] = Req(c).text]
    /\ Go(c, "replace")
    /\ UNCHANGED <<rest, auth, config, runs, staging>>

ReplaceText(c) ==
    /\ At(c, "replace")
    /\ IF temporary[Edited(c)] = None
       THEN Refuse(c, 400) /\ UNCHANGED <<config, temporary>>
       ELSE /\ config' = [config EXCEPT ![Edited(c)] = temporary[Edited(c)]]
            /\ temporary' = [temporary EXCEPT ![Edited(c)] = None]
            /\ Answer(c, 200, "ok")
    /\ UNCHANGED <<rest, auth, runs, staging>>

SetLabel(c) ==
    /\ Handling(c, "label", "PUT") /\ AllowControl
    /\ LET id == Req(c).name IN
       IF runs[id] = None THEN Refuse(c, 404) /\ UNCHANGED runs
       ELSE IF Req(c).text = None THEN Refuse(c, 400) /\ UNCHANGED runs
       ELSE /\ runs' = [runs EXCEPT ![id].label =
                          IF Req(c).text = "" THEN None ELSE Req(c).text]
            /\ Answer(c, 200, "ok")
    /\ UNCHANGED <<rest, auth, config, temporary, staging>>

-----------------------------------------------------------------------------
(* The import of a run                                                        *)

Importing(c) == At(c, "admitted") /\ Req(c).path = "import"
Archive(c) == Archives[Req(c).text]
Target(c) == IF Req(c).name = None THEN Archive(c).top ELSE Req(c).name

(* inspect: one top directory, no links, devices or paths that leave it, and  *)
(* a manifest.                                                                *)
Acceptable(archive) == /\ archive.sane
                       /\ Manifest \in ToSet(archive.members)

ImportRefused(c) ==
    /\ Importing(c) /\ (~ AllowControl \/ Req(c).body = 0)
    /\ Refuse(c, IF AllowControl THEN 400 ELSE 403)
    /\ UNCHANGED <<rest, auth, files>>

(* The archive has been read to a file of its own when it is looked at.       *)
ImportChecked(c) ==
    /\ Importing(c) /\ AllowControl /\ Req(c).body > 0
    /\ LET k == ReadBody(conn[c]) IN
       IF ~ Acceptable(Archive(c)) \/ runs[Target(c)] # None
       THEN conn' = [conn EXCEPT ![c] = SendJson(k, 400, None)]
            /\ UNCHANGED staging
       ELSE /\ conn' = [conn EXCEPT ![c] = [k EXCEPT !.pc = "extract",
                                                     !.member = 1]]
            /\ staging' = [staging EXCEPT ![c] = {}]
    /\ UNCHANGED <<rest, auth, config, temporary, runs>>

ExtractMember(c) ==
    /\ At(c, "extract") /\ conn[c].member <= Len(Archive(c).members)
    /\ staging' = [staging EXCEPT ![c] = @ \cup
                     {Archive(c).members[conn[c].member]}]
    /\ conn' = [conn EXCEPT ![c].member = @ + 1]
    /\ UNCHANGED <<rest, auth, config, temporary, runs>>

(* Whatever fails, the staging directory goes.                                *)
ImportFails(c) ==
    /\ At(c, "extract")
    /\ staging' = [staging EXCEPT ![c] = None]
    /\ Refuse(c, 400)
    /\ UNCHANGED <<rest, auth, config, temporary, runs>>

Imported(c) == [members |-> staging[c], label |-> "imported", profile |-> None,
                records |-> << >>]

(* A plausible bug: what is there under the name is moved out of the way.     *)
RenameImport_Replacing(c) ==
    /\ At(c, "extract") /\ conn[c].member > Len(Archive(c).members)
    /\ runs' = [runs EXCEPT ![Target(c)] = Imported(c)]
    /\ Answer(c, 201, Target(c))
    /\ staging' = [staging EXCEPT ![c] = None]
    /\ UNCHANGED <<rest, auth, config, temporary>>

(* The label is written and the directory renamed to where the runs are; it   *)
(* fails on one that has come to be there since.                              *)
RenameImport(c) ==
    /\ At(c, "extract") /\ conn[c].member > Len(Archive(c).members)
    /\ IF runs[Target(c)] # None
       THEN Refuse(c, 400) /\ UNCHANGED runs
       ELSE /\ runs' = [runs EXCEPT ![Target(c)] = Imported(c)]
            /\ Answer(c, 201, Target(c))
    /\ staging' = [staging EXCEPT ![c] = None]
    /\ UNCHANGED <<rest, auth, config, temporary>>

-----------------------------------------------------------------------------
(* Around the server                                                          *)

(* A benchmark that was started makes its directory with its manifest.        *)
BenchmarkBegins ==
    /\ \E id \in DOMAIN runs :
         /\ runs[id] = None
         /\ runs' = [runs EXCEPT ![id] = [members |-> {Manifest}, label |-> None,
                                   profile |-> "smoke", records |-> << >>]]
    /\ UNCHANGED <<conn, rest, auth, config, temporary, staging>>

Tick ==
    /\ clock < MaxClock
    /\ clock' = clock + 1
    /\ UNCHANGED <<options, conn, received, restarts, auth, files>>

(* A client that reads "Connection: close", or is cut off, connects again.    *)
Reconnect(c) ==
    /\ At(c, "closed")
    /\ conn' = [conn EXCEPT ![c] = Fresh]
    /\ UNCHANGED <<rest, auth, files>>

(* The threads are daemons: whatever they were doing ends with the server. An *)
(* .import- directory stays, and nothing lists or reads it.                   *)
Restart ==
    /\ restarts < MaxRestarts
    /\ restarts' = restarts + 1
    /\ conn' = [c \in Connections |-> Fresh]
    /\ failures' = [count |-> 0, next |-> 0] /\ wrong' = 0
    /\ sessions' = [s \in DOMAIN sessions |-> None]
    /\ signedOut' = signedOut \cup DOMAIN signedIn
    /\ staging' = [c \in Connections |-> None]
    /\ UNCHANGED <<options, clock, received, signedIn, config, temporary, runs>>

Handle(c) ==
    \/ Receive(c) \/ ReadGarbage(c) \/ RefuseOutside(c) \/ Logout(c) \/ Admit(c)
    \/ Health(c) \/ ServePublicPage(c)
    \/ LoginRefused(c) \/ LoginBegins(c) \/ LoginFails(c) \/ LoginClears(c)
    \/ LoginSucceeds(c)
    \/ Dispatch(c) \/ ListRuns(c) \/ BrowseRecords(c) \/ SetupPlan(c)
    \/ ReadConfig(c) \/ Denied(c) \/ ValidateText(c) \/ CloneEngine(c)
    \/ PutText(c) \/ WriteTemporary(c) \/ ReplaceText(c) \/ SetLabel(c)
    \/ ImportRefused(c) \/ ImportChecked(c) \/ ExtractMember(c)
    \/ ImportFails(c) \/ RenameImport(c)
    \/ Reconnect(c)

Next == (\E c \in Connections : Handle(c)) \/ BenchmarkBegins \/ Tick \/ Restart

Spec == Init /\ [][Next]_vars

-----------------------------------------------------------------------------
(* Properties                                                                 *)

(* Type correctness. What an answer says is not typed: it is for the client.  *)
Places == {"idle", "closed", "request", "admitted", "password", "clear", "handler",
           "write", "replace", "extract"}
IsHandler(k) ==
    /\ DOMAIN k = DOMAIN Fresh
    /\ k.pc \in Places
    /\ k.pc \notin {"idle", "closed"} => k.req \in Requests
    /\ k.unread \in Nat /\ k.consumed \in BOOLEAN /\ k.bodies \in 0 .. 2
    /\ k.status \in Nat \cup {None} /\ k.member \in Nat
TextsOf(p) == {r.text : r \in {q \in Requests : <<q.path, q.name>> = p}}
TypeOK ==
    /\ options \in Options
    /\ DOMAIN conn = Connections
    /\ \A c \in Connections : /\ IsHandler(conn[c])
                              /\ conn[c].session \in DOMAIN signedIn \cup {None}
    /\ clock \in 0 .. MaxClock /\ received \in 0 .. MaxRequests
    /\ restarts \in 0 .. MaxRestarts
    /\ failures \in [count: Nat, next: Nat] /\ wrong \in Nat
    /\ sessions \in Seq([created: Nat, seen: Nat] \cup {None})
    /\ signedIn \in Seq(Nat) /\ signedOut \subseteq DOMAIN signedIn \cup {None}
    /\ runs \in [DOMAIN Stored -> RunDirectories \cup {None}]
    /\ staging \in [Connections -> (SUBSET Members) \cup {None}]
    /\ DOMAIN config = DOMAIN StoredConfig /\ DOMAIN temporary = DOMAIN StoredConfig
    /\ \A p \in DOMAIN StoredConfig :
          /\ config[p] \in TextsOf(p) \cup {StoredConfig[p]}
          /\ temporary[p] \in TextsOf(p) \cup {None}

(* A refusal is readable: its body has been read, or the connection ends with *)
(* it, for the first request of a connection that has a body (_send_json; the *)
(* flag that says a body was read is never put back).                         *)
RefusalsAreRead ==
    \A c \in Connections :
        LET k == conn[c] IN
        (k.pc = "idle" /\ k.status # None /\ k.bodies <= 1)
            => (k.status >= 400 => k.unread = 0)

(* However many threads try at once, wrong passwords are slowed down: a wait  *)
(* lets each thread through once (retry_after, login, _record_failure).       *)
GuessesAreSlowed ==
    wrong < BackoffAfter
              + Cardinality(Connections) * (1 + clock \div BackoffBase)

(* A session is honoured from its sign-in for its lifetime, however often it  *)
(* is used, and not after a sign-out or a restart (Auth.is_valid, logout).    *)
SessionsEnd ==
    [][\A c \in Connections :
         (AuthEnabled /\ At(c, "request") /\ conn'[c].pc = "admitted") =>
            LET s == conn[c].session IN
            /\ s \in DOMAIN signedIn /\ s \notin signedOut
            /\ clock - signedIn[s] <= Absolute]_vars

Whole == {ToSet(Archives[a].members) : a \in DOMAIN Archives} \cup {{Manifest}}

(* A run directory appears with everything its archive holds, and no import   *)
(* touches one that is there, whatever else is being imported or started      *)
(* under its name, and wherever a server went down (import_bundle).           *)
RunsStayWhole ==
    [][\A id \in DOMAIN runs :
         IF runs[id] = None
         THEN runs'[id] # None => runs'[id].members \in Whole
         ELSE runs'[id] # None /\ runs'[id].members = runs[id].members]_vars
=============================================================================
