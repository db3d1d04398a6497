--------------------------- MODULE WebServerProofs ---------------------------
(* The safety properties of the web server, for any number of connections,    *)
(* requests and restarts, and any of the files it may be started on.          *)
EXTENDS WebServer, FiniteSetTheorems, SequenceTheorems, TLAPS

-----------------------------------------------------------------------------
(* The handler of a connection                                                *)

(* A handler is in the middle of a request.                                   *)
Waiting(k) == k.pc \notin {"idle", "closed"}

(* The flag that says a body was read is never put back, so it is right for   *)
(* the first request that has a body, and only for it.                        *)
BodyHolds(k) ==
    /\ k.bodies = 0 => ~ k.consumed /\ k.unread = 0
    /\ Waiting(k) /\ k.req.body > 0 => k.bodies > 0
    /\ Waiting(k) /\ k.bodies <= 1 =>
          k.unread = 0 \/ (~ k.consumed /\ k.unread = k.req.body)
    /\ k.pc = "idle" /\ k.status # None /\ k.bodies <= 1 /\ k.status >= 400 =>
          k.unread = 0

Sound(k) == IsHandler(k) /\ BodyHolds(k)

LEMMA FreshIsSound == Sound(Fresh)
  BY WebAssumption DEF Sound, IsHandler, BodyHolds, Waiting, Fresh, Places

LEMMA EndedFields ==
  ASSUME NEW k, IsHandler(k), NEW status \in Nat, NEW answer
  PROVE  LET e == Ended(k, status, answer) IN
         /\ DOMAIN e = DOMAIN Fresh
         /\ e.pc = "idle" /\ e.session = None /\ e.member = 0 /\ e.status = status
         /\ e.unread = k.unread /\ e.consumed = k.consumed /\ e.bodies = k.bodies
  BY DEF Ended, IsHandler, Fresh

(* An answer leaves the handler idle or the connection closed, and an error   *)
(* leaves nothing of its request behind in an open one.                       *)
LEMMA SendJsonIsSound ==
  ASSUME NEW k, Sound(k), Waiting(k), NEW status \in Nat, NEW answer
  PROVE  LET sent == SendJson(k, status, answer) IN
         /\ Sound(sent)
         /\ sent.pc \in {"idle", "closed"} /\ sent.session = None
  <1> DEFINE e == Ended(k, status, answer)
             pending == PendingRequestBody(k)
  <1>1. /\ DOMAIN e = DOMAIN Fresh
        /\ e.pc = "idle" /\ e.session = None /\ e.member = 0 /\ e.status = status
        /\ e.unread = k.unread /\ e.consumed = k.consumed /\ e.bodies = k.bodies
    BY EndedFields DEF Sound
  <1>2. k.req \in Requests /\ k.req.body \in Nat
    BY RequestAssumption DEF Sound, IsHandler, Waiting
  <1>3. CASE pending = 0 \/ status < 400
    <2>1. SendJson(k, status, answer) = e
      BY <1>3 DEF SendJson
    <2>2. IsHandler(e)
      BY <1>1 DEF Sound, IsHandler, Places
    <2>3. BodyHolds(e)
      BY <1>1, <1>2, <1>3 DEF Sound, IsHandler, BodyHolds, Waiting, PendingRequestBody
    <2> QED
      BY <1>1, <2>1, <2>2, <2>3 DEF Sound
  <1>4. CASE pending # 0 /\ ~ (status < 400) /\ pending <= DrainLimit
    <2>1. SendJson(k, status, answer) = [e EXCEPT !.unread = 0, !.consumed = TRUE]
      BY <1>4 DEF SendJson
    <2>2. k.bodies # 0
      BY <1>2, <1>4 DEF PendingRequestBody, Sound, BodyHolds, IsHandler, Waiting
    <2> QED
      BY <1>1, <2>1, <2>2 DEF Sound, IsHandler, BodyHolds, Waiting, Places, Fresh
  <1>5. CASE pending # 0 /\ ~ (status < 400) /\ ~ (pending <= DrainLimit)
    <2>1. SendJson(k, status, answer) = [e EXCEPT !.pc = "closed"]
      BY <1>5 DEF SendJson
    <2> QED
      BY <1>1, <2>1 DEF Sound, IsHandler, BodyHolds, Waiting, Places, Fresh
  <1> QED
    BY <1>3, <1>4, <1>5

LEMMA ReadBodyIsSound ==
  ASSUME NEW k, Sound(k), Waiting(k)
  PROVE  LET read == ReadBody(k) IN
         /\ Sound(read) /\ Waiting(read)
         /\ read.session = k.session /\ read.req = k.req
  <1>1. k.req \in Requests /\ k.req.body \in Nat
    BY RequestAssumption DEF Sound, IsHandler, Waiting
  <1>2. CASE k.req.body = 0
    BY <1>2 DEF ReadBody
  <1>3. CASE k.req.body # 0
    <2>1. k.bodies # 0
      BY <1>1, <1>3 DEF Sound, BodyHolds
    <2> QED
      BY <1>1, <1>3, <2>1
      DEF ReadBody, Sound, IsHandler, BodyHolds, Waiting, Places, Fresh
  <1> QED
    BY <1>2, <1>3

(* A handler goes on with the request it has.                                 *)
LEMMA GoingOnIsSound ==
  ASSUME NEW k, Sound(k), Waiting(k), NEW place \in Places \ {"idle", "closed"}
  PROVE  LET on == [k EXCEPT !.pc = place] IN
         Sound(on) /\ on.pc = place /\ on.session = k.session
  BY DEF Sound, IsHandler, BodyHolds, Waiting, Places, Fresh

-----------------------------------------------------------------------------
(* The steps of a handler                                                     *)

HandlersHold ==
    /\ DOMAIN conn = Connections
    /\ \A c \in Connections : /\ Sound(conn[c])
                              /\ conn[c].session \in DOMAIN signedIn \cup {None}

(* One handler moves, to one of these places.                                 *)
Moves(c, places) ==
    /\ DOMAIN conn' = Connections
    /\ \A d \in Connections \ {c} : conn'[d] = conn[d]
    /\ Sound(conn'[c]) /\ conn'[c].session \in DOMAIN signedIn \cup {None}
    /\ conn'[c].pc \in places

LEMMA AnswerMoves ==
  ASSUME HandlersHold, NEW c \in Connections, Waiting(conn[c]),
         NEW status \in Nat, NEW answer, Answer(c, status, answer)
  PROVE  Moves(c, {"idle", "closed"})
  <1>1. /\ Sound(SendJson(conn[c], status, answer))
        /\ SendJson(conn[c], status, answer).pc \in {"idle", "closed"}
        /\ SendJson(conn[c], status, answer).session = None
    BY SendJsonIsSound DEF HandlersHold
  <1> QED
    BY <1>1 DEF HandlersHold, Moves, Answer

LEMMA RefuseMoves ==
  ASSUME HandlersHold, NEW c \in Connections, Waiting(conn[c]),
         NEW status \in Nat, Refuse(c, status)
  PROVE  Moves(c, {"idle", "closed"})
  BY AnswerMoves DEF Refuse

LEMMA GoMoves ==
  ASSUME HandlersHold, NEW c \in Connections, Waiting(conn[c]),
         NEW place \in Places \ {"idle", "closed"}, Go(c, place)
  PROVE  Moves(c, {place})
  BY GoingOnIsSound DEF HandlersHold, Moves, Go

(* The steps that change nothing but the handler.                             *)
Quiet(c) ==
    \/ Receive(c) \/ ReadGarbage(c) \/ RefuseOutside(c) \/ ServePublicPage(c)
    \/ LoginRefused(c) \/ Dispatch(c) \/ ListRuns(c) \/ BrowseRecords(c)
    \/ SetupPlan(c) \/ ReadConfig(c) \/ Denied(c) \/ ValidateText(c)
    \/ CloneEngine(c) \/ PutText(c) \/ ImportRefused(c) \/ Reconnect(c)

QuietPlaces == {"idle", "closed", "request", "handler", "write"}

LEMMA QuietMoves ==
  ASSUME HandlersHold, NEW c \in Connections, Quiet(c)
  PROVE  Moves(c, QuietPlaces)
  <1> USE DEF QuietPlaces
  <1>a. Moves(c, {"idle", "closed"}) => Moves(c, QuietPlaces)
    BY DEF Moves
  <1>b. ASSUME Waiting(conn[c]), NEW status \in Nat, NEW answer,
               Answer(c, status, answer)
        PROVE  Moves(c, QuietPlaces)
    BY <1>a, <1>b, AnswerMoves
  <1>c. ASSUME Waiting(conn[c]), NEW status \in Nat, Refuse(c, status)
        PROVE  Moves(c, QuietPlaces)
    BY <1>a, <1>c, RefuseMoves
  <1>1. CASE Receive(c)
    <2>1. PICK r \in Requests, s \in DOMAIN signedIn \cup {None} :
             conn' = [conn EXCEPT ![c] = Asked(conn[c], r, s)]
      BY <1>1 DEF Receive
    <2>2. r.body \in Nat
      BY RequestAssumption
    <2>3. Sound(conn[c]) /\ conn[c].unread = 0 /\ conn[c].pc = "idle"
      BY <1>1 DEF HandlersHold, Receive, At
    <2>4. LET k == Asked(conn[c], r, s) IN
          /\ DOMAIN k = DOMAIN Fresh
          /\ k.pc = "request" /\ k.req = r /\ k.session = s
          /\ k.unread = r.body /\ k.status = None
          /\ k.consumed = conn[c].consumed /\ k.member = conn[c].member
          /\ k.bodies = IF r.body = 0 THEN conn[c].bodies
                        ELSE IF conn[c].bodies = 0 THEN 1 ELSE 2
      BY <2>3 DEF Asked, Sound, IsHandler, Fresh
    <2>5. Sound(Asked(conn[c], r, s))
      BY <2>2, <2>3, <2>4 DEF Sound, IsHandler, BodyHolds, Waiting, Places
    <2> QED
      BY <2>1, <2>4, <2>5 DEF HandlersHold, Moves
  <1>2. CASE ReadGarbage(c)
    BY <1>2 DEF ReadGarbage, At, HandlersHold, Moves, Sound, IsHandler, BodyHolds,
                Waiting, Places, Fresh
  <1>3. CASE RefuseOutside(c)
    BY <1>3, <1>c DEF RefuseOutside, At, Waiting
  <1>4. CASE ServePublicPage(c)
    BY <1>4, <1>b DEF ServePublicPage, Inside, At, Waiting
  <1>5. CASE LoginRefused(c)
    BY <1>5, <1>c DEF LoginRefused, Inside, At, Waiting
  <1>6. CASE Dispatch(c)
    <2>1. Waiting(conn[c]) /\ Sound(conn[c])
      BY <1>6 DEF Dispatch, At, Waiting, HandlersHold
    <2>2. CASE Api(c)
      <3> DEFINE k == IF Req(c).method \in {"POST", "PUT"} THEN ReadBody(conn[c])
                                                           ELSE conn[c]
                 h == IF Req(c).text = NotJson THEN SendJson(k, 400, None)
                      ELSE IF Req(c).method \notin Routes[Req(c).path]
                      THEN SendJson(k, 405, None)
                      ELSE [k EXCEPT !.pc = "handler"]
      <3>1. conn' = [conn EXCEPT ![c] = h]
        BY <1>6, <2>2 DEF Dispatch
      <3>2. Sound(k) /\ Waiting(k) /\ k.session = conn[c].session
        BY <2>1, ReadBodyIsSound
      <3>3. conn[c].session \in DOMAIN signedIn \cup {None}
        BY DEF HandlersHold
      <3>4. /\ Sound(h) /\ h.pc \in {"idle", "closed", "handler"}
            /\ h.session \in DOMAIN signedIn \cup {None}
        <4> HIDE DEF k
        <4>1. 400 \in Nat /\ 405 \in Nat /\ "handler" \in Places \ {"idle", "closed"}
          BY DEF Places
        <4> QED
          BY <3>2, <3>3, <4>1, SendJsonIsSound, GoingOnIsSound
      <3> HIDE DEF h
      <3> QED
        BY <3>1, <3>4 DEF HandlersHold, Moves
    <2>3. CASE ~ Api(c)
      BY <1>6, <2>1, <2>3, <1>b, <1>c DEF Dispatch
    <2> QED
      BY <2>2, <2>3
  <1>7. CASE ListRuns(c)
    BY <1>7, <1>b DEF ListRuns, Handling, At, Waiting
  <1>8. CASE BrowseRecords(c)
    BY <1>8, <1>b, <1>c DEF BrowseRecords, Handling, At, Waiting
  <1>9. CASE SetupPlan(c)
    BY <1>9, <1>b DEF SetupPlan, Handling, At, Waiting
  <1>10. CASE ReadConfig(c)
    BY <1>10, <1>b DEF ReadConfig, Handling, At, Waiting
  <1>11. CASE Denied(c)
    BY <1>11, <1>c DEF Denied, At, Waiting
  <1>12. CASE ValidateText(c)
    BY <1>12, <1>b DEF ValidateText, Handling, At, Waiting
  <1>13. CASE CloneEngine(c)
    BY <1>13, <1>b, <1>c DEF CloneEngine, Handling, At, Waiting
  <1>14. CASE PutText(c)
    <2>1. Waiting(conn[c])
      BY <1>14 DEF PutText, Handling, At, Waiting
    <2>2. Go(c, "write") => Moves(c, QuietPlaces)
      BY <2>1, GoMoves DEF Moves, Places
    <2> QED
      BY <1>14, <1>b, <2>1, <2>2 DEF PutText
  <1>15. CASE ImportRefused(c)
    BY <1>15, <1>c DEF ImportRefused, Importing, At, Waiting
  <1>16. CASE Reconnect(c)
    BY <1>16, FreshIsSound DEF Reconnect, HandlersHold, Moves, Fresh
  <1> QED
    BY <1>1, <1>2, <1>3, <1>4, <1>5, <1>6, <1>7, <1>8, <1>9, <1>10, <1>11, <1>12,
       <1>13, <1>14, <1>15, <1>16 DEF Quiet

Answered == {"idle", "closed"}

(* The places the other steps of a handler lead to.                           *)
LEMMA HandlerMoves ==
  ASSUME HandlersHold, NEW c \in Connections
  PROVE  /\ Logout(c) \/ Health(c) => Moves(c, Answered)
         /\ Admit(c) => Moves(c, Answered \cup {"admitted"})
         /\ LoginBegins(c) => Moves(c, {"password"})
         /\ LoginFails(c) \/ LoginSucceeds(c) => Moves(c, Answered)
         /\ LoginClears(c) => Moves(c, {"clear"})
         /\ WriteTemporary(c) => Moves(c, {"replace"})
         /\ ReplaceText(c) \/ SetLabel(c) => Moves(c, Answered)
         /\ ImportChecked(c) => Moves(c, Answered \cup {"extract"})
         /\ ExtractMember(c) => Moves(c, {"extract"})
         /\ ImportFails(c) \/ RenameImport(c) => Moves(c, Answered)
  <1> USE DEF Answered
  <1>0. /\ Sound(conn[c]) /\ conn[c].session \in DOMAIN signedIn \cup {None}
        /\ DOMAIN conn = Connections
    BY DEF HandlersHold
  <1>1. ASSUME Logout(c) \/ Health(c) PROVE Moves(c, Answered)
    BY <1>1, AnswerMoves DEF Logout, Health, Inside, At, Waiting
  <1>2. ASSUME Admit(c) PROVE Moves(c, Answered \cup {"admitted"})
    <2>1. Waiting(conn[c])
      BY <1>2 DEF Admit, Inside, At, Waiting
    <2>2. CASE Go(c, "admitted")
      BY <2>1, <2>2, GoMoves DEF Moves, Places
    <2>3. CASE conn' = [conn EXCEPT ![c] = Ended(@, 302, None)]
      <3>1. LET e == Ended(conn[c], 302, None) IN
            /\ DOMAIN e = DOMAIN Fresh
            /\ e.pc = "idle" /\ e.session = None /\ e.member = 0 /\ e.status = 302
            /\ e.unread = conn[c].unread /\ e.consumed = conn[c].consumed
            /\ e.bodies = conn[c].bodies
        BY <1>0, EndedFields DEF Sound
      <3>2. Sound(Ended(conn[c], 302, None))
        BY <1>0, <3>1 DEF Sound, IsHandler, BodyHolds, Waiting, Places
      <3> QED
        BY <1>0, <2>3, <3>1, <3>2 DEF HandlersHold, Moves
    <2>4. CASE Refuse(c, 401)
      BY <2>1, <2>4, RefuseMoves DEF Moves
    <2> QED
      BY <1>2, <2>2, <2>3, <2>4 DEF Admit
  <1>3. ASSUME LoginBegins(c) PROVE Moves(c, {"password"})
    <2>1. Waiting(conn[c])
      BY <1>3 DEF LoginBegins, Inside, At, Waiting
    <2>2. LET k == [ReadBody(conn[c]) EXCEPT !.pc = "password"] IN
          /\ Sound(k) /\ k.pc = "password" /\ k.session = conn[c].session
      BY <1>0, <2>1, ReadBodyIsSound, GoingOnIsSound DEF Places
    <2> QED
      BY <1>0, <1>3, <2>2 DEF LoginBegins, HandlersHold, Moves
  <1>4. ASSUME LoginFails(c) \/ LoginSucceeds(c) PROVE Moves(c, Answered)
    BY <1>4, AnswerMoves DEF LoginFails, LoginSucceeds, Refuse, At, Waiting
  <1>5. ASSUME LoginClears(c) PROVE Moves(c, {"clear"})
    BY <1>5, GoMoves DEF LoginClears, At, Waiting, Places
  <1>6. ASSUME WriteTemporary(c) PROVE Moves(c, {"replace"})
    BY <1>6, GoMoves DEF WriteTemporary, At, Waiting, Places
  <1>7. ASSUME ReplaceText(c) \/ SetLabel(c) PROVE Moves(c, Answered)
    <2>1. Waiting(conn[c])
      BY <1>7 DEF ReplaceText, SetLabel, Handling, At, Waiting
    <2>2. \/ Refuse(c, 400) \/ Refuse(c, 404)
          \/ Answer(c, 200, "ok")
      BY <1>7 DEF ReplaceText, SetLabel
    <2> QED
      BY <2>1, <2>2, AnswerMoves, RefuseMoves
  <1>8. ASSUME ImportChecked(c) PROVE Moves(c, Answered \cup {"extract"})
    <2> DEFINE k == ReadBody(conn[c])
               on == [k EXCEPT !.pc = "extract", !.member = 1]
    <2>1. /\ Sound(k) /\ Waiting(k) /\ k.session = conn[c].session
      BY <1>0, <1>8, ReadBodyIsSound DEF ImportChecked, Importing, At, Waiting
    <2>2. \/ conn' = [conn EXCEPT ![c] = SendJson(k, 400, None)]
          \/ conn' = [conn EXCEPT ![c] = on]
      BY <1>8 DEF ImportChecked
    <2> HIDE DEF k
    <2>3. /\ Sound(SendJson(k, 400, None)) /\ SendJson(k, 400, None).session = None
          /\ SendJson(k, 400, None).pc \in {"idle", "closed"}
      BY <2>1, SendJsonIsSound
    <2>4. Sound(on) /\ on.pc = "extract" /\ on.session = k.session
      BY <2>1 DEF Sound, IsHandler, BodyHolds, Waiting, Places, Fresh
    <2> HIDE DEF on
    <2> QED
      BY <1>0, <2>1, <2>2, <2>3, <2>4 DEF HandlersHold, Moves
  <1>9. ASSUME ExtractMember(c) PROVE Moves(c, {"extract"})
    <2>1. conn' = [conn EXCEPT ![c].member = @ + 1] /\ conn[c].pc = "extract"
      BY <1>9 DEF ExtractMember, At
    <2> DEFINE on == [conn[c] EXCEPT !.member = @ + 1]
    <2>2. conn' = [conn EXCEPT ![c] = on]
      BY <2>1
    <2>3. Sound(on) /\ on.pc = "extract" /\ on.session = conn[c].session
      BY <1>0, <2>1 DEF Sound, IsHandler, BodyHolds, Waiting, Places, Fresh
    <2> HIDE DEF on
    <2> QED
      BY <1>0, <2>2, <2>3 DEF HandlersHold, Moves
  <1>10. ASSUME ImportFails(c) \/ RenameImport(c) PROVE Moves(c, Answered)
    BY <1>10, AnswerMoves DEF ImportFails, RenameImport, Refuse, At, Waiting
  <1> QED
    BY <1>1, <1>2, <1>3, <1>4, <1>5, <1>6, <1>7, <1>8, <1>9, <1>10

-----------------------------------------------------------------------------
(* The values of the other variables                                          *)

RestHolds ==
    /\ options \in Options /\ clock \in 0 .. MaxClock
    /\ received \in 0 .. MaxRequests /\ restarts \in 0 .. MaxRestarts

Session == [created: Nat, seen: Nat]

(* A session that is remembered is as old as its sign-in, and nobody ended it. *)
AuthHolds ==
    /\ failures \in [count: Nat, next: Nat] /\ wrong \in Nat
    /\ sessions \in Seq(Session \cup {None}) /\ signedIn \in Seq(Nat)
    /\ signedOut \subseteq DOMAIN signedIn \cup {None}
    /\ Len(sessions) = Len(signedIn)
    /\ \A s \in 1 .. Len(sessions) : sessions[s] # None =>
          sessions[s].created = signedIn[s] /\ s \notin signedOut

(* What an import has unpacked is the beginning of its archive.               *)
Unpacks(c) ==
    /\ Req(c).path = "import"
    /\ conn[c].member \in 1 .. Len(Archive(c).members) + 1
    /\ staging[c] = {Archive(c).members[i] : i \in 1 .. conn[c].member - 1}

FilesHold ==
    /\ runs \in [DOMAIN Stored -> RunDirectories \cup {None}]
    /\ staging \in [Connections -> (SUBSET Members) \cup {None}]
    /\ DOMAIN config = DOMAIN StoredConfig /\ DOMAIN temporary = DOMAIN StoredConfig
    /\ \A p \in DOMAIN StoredConfig :
          /\ config[p] \in TextsOf(p) \cup {StoredConfig[p]}
          /\ temporary[p] \in TextsOf(p) \cup {None}
    /\ \A c \in Connections : At(c, "extract") => Unpacks(c)

ServerInv == HandlersHold /\ RestHolds /\ AuthHolds /\ FilesHold

(* A wait is at least the shortest one, from the first failure that has one.  *)
LEMMA PowerOfTwo ==
  ASSUME NEW n \in Nat
  PROVE  2 ^ n \in Nat \ {0}
  <1>1. IsFiniteSet(1 .. n) /\ Cardinality(1 .. n) = n
    BY FS_Interval
  <1>2. /\ IsFiniteSet(SUBSET (1 .. n))
        /\ Cardinality(SUBSET (1 .. n)) = 2 ^ n
    BY <1>1, FS_SUBSET
  <1>3. SUBSET (1 .. n) # {}
    OBVIOUS
  <1> QED
    BY <1>2, <1>3, FS_CardinalityType, FS_EmptySet

LEMMA DelayBounds ==
  ASSUME NEW n \in Nat
  PROVE  /\ Delay(n) \in Nat
         /\ n >= BackoffAfter => Delay(n) >= BackoffBase
  <1>1. CASE n < BackoffAfter
    BY <1>1, WebAssumption DEF Delay
  <1>2. CASE n >= BackoffAfter
    <2>1. n - BackoffAfter \in Nat
      BY <1>2, WebAssumption
    <2>2. PICK d \in Nat \ {0} : d = 2 ^ (n - BackoffAfter)
      BY <2>1, PowerOfTwo
    <2>3. Delay(n) = IF BackoffBase * d < BackoffMax THEN BackoffBase * d
                     ELSE BackoffMax
      BY <1>2, <2>2, WebAssumption DEF Delay
    <2>4. BackoffBase * d \in Nat /\ BackoffBase * d >= BackoffBase
      BY WebAssumption
    <2> QED
      BY <2>3, <2>4, WebAssumption
  <1> QED
    BY <1>1, <1>2, WebAssumption

-----------------------------------------------------------------------------
(* Every step keeps them                                                      *)

LEMMA QuietKeeps ==
  ASSUME NEW c \in Connections, Quiet(c)
  PROVE  /\ UNCHANGED <<options, clock, restarts, auth, files>>
         /\ received' = received \/ (received < MaxRequests /\ received' = received + 1)
  BY DEF Quiet, Receive, ReadGarbage, RefuseOutside, ServePublicPage, LoginRefused,
         Dispatch, ListRuns, BrowseRecords, SetupPlan, ReadConfig, Denied,
         ValidateText, CloneEngine, PutText, ImportRefused, Reconnect, rest

LEMMA RestStep ==
  ASSUME RestHolds, [Next]_vars
  PROVE  RestHolds'
  <1> USE WebAssumption DEF RestHolds, rest
  <1>1. CASE UNCHANGED vars
    BY <1>1 DEF vars
  <1>2. ASSUME NEW c \in Connections, Handle(c)
        PROVE  RestHolds'
    <2>1. CASE Quiet(c)
      BY <2>1, QuietKeeps
    <2>2. CASE ~ Quiet(c)
      BY <1>2, <2>2
      DEF Handle, Quiet, Logout, Admit, Health, LoginBegins, LoginFails, LoginClears,
          LoginSucceeds, WriteTemporary, ReplaceText, SetLabel, ImportChecked,
          ExtractMember, ImportFails, RenameImport
    <2> QED
      BY <2>1, <2>2
  <1>3. CASE BenchmarkBegins
    BY <1>3 DEF BenchmarkBegins
  <1>4. CASE Tick
    BY <1>4 DEF Tick
  <1>5. CASE Restart
    BY <1>5 DEF Restart
  <1> QED
    BY <1>1, <1>2, <1>3, <1>4, <1>5 DEF Next

(* Sessions are only added.                                                   *)
LEMMA SignInsStay ==
  ASSUME AuthHolds, RestHolds, [Next]_vars
  PROVE  /\ signedIn' \in Seq(Nat) /\ Len(signedIn) <= Len(signedIn')
         /\ DOMAIN signedIn \subseteq DOMAIN signedIn'
  <1> USE DEF AuthHolds, RestHolds, auth
  <1>1. CASE UNCHANGED signedIn
    BY <1>1
  <1>2. CASE signedIn' = Append(signedIn, clock)
    BY <1>2, AppendProperties
  <1>3. ASSUME NEW c \in Connections, Handle(c)
        PROVE  UNCHANGED signedIn \/ signedIn' = Append(signedIn, clock)
    <2>1. CASE Quiet(c)
      BY <2>1, QuietKeeps
    <2>2. CASE ~ Quiet(c)
      BY <1>3, <2>2
      DEF Handle, Quiet, Logout, Admit, Health, LoginBegins, LoginFails, LoginClears,
          LoginSucceeds, WriteTemporary, ReplaceText, SetLabel, ImportChecked,
          ExtractMember, ImportFails, RenameImport
    <2> QED
      BY <2>1, <2>2
  <1>4. BenchmarkBegins \/ Tick \/ Restart \/ UNCHANGED vars => UNCHANGED signedIn
    BY DEF BenchmarkBegins, Tick, Restart, vars
  <1> QED
    BY <1>1, <1>2, <1>3, <1>4 DEF Next

LEMMA MovesKeep ==
  ASSUME HandlersHold, AuthHolds, RestHolds, [Next]_vars,
         NEW c \in Connections, NEW places, Moves(c, places)
  PROVE  HandlersHold'
  BY SignInsStay DEF HandlersHold, Moves

LEMMA HandlersStep ==
  ASSUME HandlersHold, AuthHolds, RestHolds, [Next]_vars
  PROVE  HandlersHold'
  <1>1. CASE UNCHANGED conn
    BY <1>1, SignInsStay DEF HandlersHold
  <1>2. CASE conn' = [c \in Connections |-> Fresh]
    BY <1>2, FreshIsSound DEF HandlersHold, Fresh
  <1>3. ASSUME NEW c \in Connections, Handle(c)
        PROVE  HandlersHold'
    <2>1. CASE Quiet(c)
      BY <2>1, QuietMoves, MovesKeep
    <2>2. CASE ~ Quiet(c)
      BY <1>3, <2>2, HandlerMoves, MovesKeep DEF Handle, Quiet
    <2> QED
      BY <2>1, <2>2
  <1>4. BenchmarkBegins \/ Tick \/ UNCHANGED vars => UNCHANGED conn
    BY DEF BenchmarkBegins, Tick, vars
  <1>5. Restart => conn' = [c \in Connections |-> Fresh]
    BY DEF Restart
  <1> QED
    BY <1>1, <1>2, <1>3, <1>4, <1>5 DEF Next

LEMMA LogoutKeepsAuth ==
  ASSUME AuthHolds, HandlersHold, NEW c \in Connections, Logout(c)
  PROVE  AuthHolds'
  <1> DEFINE s == conn[c].session
  <1>1. /\ sessions' = IF s \in DOMAIN sessions
                       THEN [sessions EXCEPT ![s] = None] ELSE sessions
        /\ signedOut' = signedOut \cup {s} /\ UNCHANGED <<failures, signedIn, wrong>>
    BY DEF Logout
  <1>2. s \in DOMAIN signedIn \cup {None}
    BY DEF HandlersHold
  <1> HIDE DEF s
  <1>3. CASE s \in DOMAIN sessions
    <2>1. s \in 1 .. Len(sessions)
      BY <1>3 DEF AuthHolds
    <2>2. /\ sessions' \in Seq(Session \cup {None}) /\ Len(sessions') = Len(sessions)
          /\ \A t \in 1 .. Len(sessions) :
                sessions'[t] = IF t = s THEN None ELSE sessions[t]
      BY <1>1, <1>3, <2>1, ExceptSeq DEF AuthHolds
    <2> QED
      BY <1>1, <1>2, <2>2 DEF AuthHolds
  <1>4. CASE s \notin DOMAIN sessions
    BY <1>1, <1>2, <1>4 DEF AuthHolds
  <1> QED
    BY <1>3, <1>4

LEMMA IsValidKeepsAuth ==
  ASSUME AuthHolds, RestHolds, NEW s, NEW valid, IsValid(s, valid),
         UNCHANGED <<failures, signedIn, signedOut, wrong>>
  PROVE  AuthHolds'
  <1>1. CASE UNCHANGED sessions
    BY <1>1 DEF AuthHolds
  <1>2. CASE sessions' # sessions
    <2>1. /\ s \in 1 .. Len(sessions) /\ sessions[s] # None
          /\ sessions' = [sessions EXCEPT ![s] = IF Live(s) THEN Touched(s) ELSE None]
      BY <1>2 DEF IsValid, AuthHolds
    <2>2. sessions[s] \in Session /\ clock \in Nat
      BY <2>1 DEF AuthHolds, RestHolds
    <2>3. Touched(s) \in Session /\ Touched(s).created = sessions[s].created
      BY <2>2 DEF Touched, Session
    <2> DEFINE new == IF Live(s) THEN Touched(s) ELSE None
    <2>4. new \in Session \cup {None} /\ (new # None => new.created = sessions[s].created)
      BY <2>3
    <2> HIDE DEF new
    <2>5. /\ sessions' \in Seq(Session \cup {None}) /\ Len(sessions') = Len(sessions)
          /\ \A t \in 1 .. Len(sessions) :
                sessions'[t] = IF t = s THEN new ELSE sessions[t]
      <3>1. sessions' = [sessions EXCEPT ![s] = new]
        BY <2>1 DEF new
      <3> QED
        BY <2>1, <2>4, <3>1, ExceptSeq DEF AuthHolds
    <2> QED
      BY <2>1, <2>4, <2>5 DEF AuthHolds
  <1> QED
    BY <1>1, <1>2

LEMMA AuthStep ==
  ASSUME AuthHolds, RestHolds, HandlersHold, [Next]_vars
  PROVE  AuthHolds'
  <1>1. CASE UNCHANGED auth
    BY <1>1 DEF AuthHolds, auth
  <1>2. ASSUME NEW c \in Connections, Handle(c)
        PROVE  AuthHolds'
    <2>1. CASE Quiet(c)
      BY <1>1, <2>1, QuietKeeps
    <2>2. CASE Logout(c)
      BY <2>2, LogoutKeepsAuth
    <2>3. CASE Admit(c)
      BY <2>3, IsValidKeepsAuth DEF Admit
    <2>4. CASE Health(c)
      BY <2>4, IsValidKeepsAuth DEF Health
    <2>5. CASE LoginFails(c)
      <3>1. failures.count + 1 \in Nat /\ clock \in Nat
        BY DEF AuthHolds, RestHolds
      <3>2. failures' \in [count: Nat, next: Nat]
        BY <2>5, <3>1, DelayBounds DEF LoginFails, RecordFailure
      <3> QED
        BY <2>5, <3>2 DEF LoginFails, AuthHolds
    <2>6. CASE LoginClears(c)
      BY <2>6 DEF LoginClears, AuthHolds
    <2>7. CASE LoginSucceeds(c)
      <3>1. clock \in Nat /\ [created |-> clock, seen |-> clock] \in Session
        BY DEF RestHolds, Session
      <3>2. /\ sessions' = Append(sessions, [created |-> clock, seen |-> clock])
            /\ signedIn' = Append(signedIn, clock)
            /\ UNCHANGED <<failures, signedOut, wrong>>
        BY <2>7 DEF LoginSucceeds
      <3>3. /\ sessions' \in Seq(Session \cup {None})
            /\ Len(sessions') = Len(sessions) + 1
            /\ \A s \in 1 .. Len(sessions) : sessions'[s] = sessions[s]
            /\ sessions'[Len(sessions) + 1] = [created |-> clock, seen |-> clock]
        BY <3>1, <3>2, AppendProperties DEF AuthHolds
      <3>4. /\ signedIn' \in Seq(Nat) /\ Len(signedIn') = Len(signedIn) + 1
            /\ \A s \in 1 .. Len(signedIn) : signedIn'[s] = signedIn[s]
            /\ signedIn'[Len(signedIn) + 1] = clock
        BY <3>1, <3>2, AppendProperties DEF AuthHolds
      <3>5. Len(sessions) + 1 \notin signedOut
        <4>1. /\ Len(sessions) \in Nat /\ Len(sessions) = Len(signedIn)
              /\ DOMAIN signedIn = 1 .. Len(signedIn)
              /\ signedOut \subseteq DOMAIN signedIn \cup {None}
          BY DEF AuthHolds
        <4>2. None \notin Nat
          BY WebAssumption
        <4> QED
          BY <4>1, <4>2
      <3> QED
        BY <3>2, <3>3, <3>4, <3>5 DEF AuthHolds
    <2>8. CASE ~ (Quiet(c) \/ Logout(c) \/ Admit(c) \/ Health(c) \/ LoginFails(c)
                    \/ LoginClears(c) \/ LoginSucceeds(c))
      BY <1>1, <1>2, <2>8
      DEF Handle, Quiet, LoginBegins, WriteTemporary, ReplaceText, SetLabel,
          ImportChecked, ExtractMember, ImportFails, RenameImport
    <2> QED
      BY <2>1, <2>2, <2>3, <2>4, <2>5, <2>6, <2>7, <2>8
  <1>3. BenchmarkBegins \/ Tick \/ UNCHANGED vars => UNCHANGED auth
    BY DEF BenchmarkBegins, Tick, vars, auth
  <1>4. CASE Restart
    <2>1. /\ failures' = [count |-> 0, next |-> 0] /\ wrong' = 0
          /\ sessions' = [s \in 1 .. Len(sessions) |-> None]
          /\ signedOut' = signedOut \cup DOMAIN signedIn /\ UNCHANGED signedIn
      BY <1>4 DEF Restart, AuthHolds
    <2>2. sessions' \in Seq(Session \cup {None}) /\ Len(sessions') = Len(sessions)
      BY <2>1 DEF AuthHolds
    <2> QED
      BY <2>1, <2>2 DEF AuthHolds
  <1> QED
    BY <1>1, <1>2, <1>3, <1>4 DEF Next

(* What an importer has unpacked, and where it is, is its own.                *)
LEMMA ImporterStays ==
  ASSUME FilesHold, NEW d \in Connections, At(d, "extract")',
         conn'[d] = conn[d], staging'[d] = staging[d]
  PROVE  Unpacks(d)'
  <1>1. At(d, "extract") /\ Req(d)' = Req(d) /\ Archive(d)' = Archive(d)
    BY DEF At, Req, Archive
  <1>2. Unpacks(d)
    BY <1>1 DEF FilesHold
  <1> QED
    BY <1>1, <1>2 DEF Unpacks

(* A step that starts no import and leaves the staging directories alone may  *)
(* change the files of the editors, or a run.                                 *)
LEMMA FilesKeep ==
  ASSUME FilesHold, NEW c \in Connections, NEW places, Moves(c, places),
         "extract" \notin places, UNCHANGED staging,
         runs' \in [DOMAIN Stored -> RunDirectories \cup {None}],
         DOMAIN config' = DOMAIN StoredConfig, DOMAIN temporary' = DOMAIN StoredConfig,
         \A p \in DOMAIN StoredConfig :
            /\ config'[p] \in TextsOf(p) \cup {StoredConfig[p]}
            /\ temporary'[p] \in TextsOf(p) \cup {None}
  PROVE  FilesHold'
  <1>1. ASSUME NEW d \in Connections, At(d, "extract")'
        PROVE  Unpacks(d)'
    <2>1. conn'[d] = conn[d]
      BY <1>1 DEF Moves, At
    <2> QED
      BY <1>1, <2>1, ImporterStays
  <1>2. staging' \in [Connections -> (SUBSET Members) \cup {None}]
    BY DEF FilesHold
  <1> QED
    BY <1>1, <1>2 DEF FilesHold

LEMMA ImporterKeeps ==
  ASSUME FilesHold, NEW c \in Connections, NEW places, Moves(c, places),
         "extract" \notin places, UNCHANGED files
  PROVE  FilesHold'
  <1>1. UNCHANGED <<config, temporary, runs, staging>>
    BY DEF files
  <1>2. /\ runs' \in [DOMAIN Stored -> RunDirectories \cup {None}]
        /\ DOMAIN config' = DOMAIN StoredConfig
        /\ DOMAIN temporary' = DOMAIN StoredConfig
        /\ \A p \in DOMAIN StoredConfig :
              /\ config'[p] \in TextsOf(p) \cup {StoredConfig[p]}
              /\ temporary'[p] \in TextsOf(p) \cup {None}
    BY <1>1 DEF FilesHold
  <1> QED
    BY <1>1, <1>2, FilesKeep

LEMMA UnpackedIsText ==
  ASSUME FilesHold, HandlersHold, NEW c \in Connections, At(c, "extract")
  PROVE  /\ Archive(c).members \in Seq(Members) /\ staging[c] \subseteq Members
         /\ Req(c).text \in DOMAIN Archives
  <1>1. Req(c) \in Requests /\ Req(c).path = "import"
    BY DEF FilesHold, Unpacks, HandlersHold, Sound, IsHandler, At, Req
  <1>2. Req(c).text \in DOMAIN Archives
    BY <1>1, RequestAssumption
  <1>3. Archive(c).members \in Seq(Members)
    BY <1>2, FilesAssumption DEF Archive
  <1>4. /\ conn[c].member \in 1 .. Len(Archive(c).members) + 1
        /\ staging[c] = {Archive(c).members[i] : i \in 1 .. conn[c].member - 1}
    BY DEF FilesHold, Unpacks
  <1>5. \A i \in 1 .. conn[c].member - 1 : Archive(c).members[i] \in Members
    BY <1>3, <1>4
  <1> QED
    BY <1>2, <1>3, <1>4, <1>5

LEMMA WriteTemporaryKeepsFiles ==
  ASSUME FilesHold, HandlersHold, NEW c \in Connections, WriteTemporary(c)
  PROVE  FilesHold'
  <1>1. Moves(c, {"replace"})
    BY HandlerMoves
  <1>2. /\ temporary' = [temporary EXCEPT ![Edited(c)] = Req(c).text]
        /\ UNCHANGED <<config, runs, staging>>
    BY DEF WriteTemporary
  <1>3. Req(c) \in Requests
    BY DEF WriteTemporary, HandlersHold, Sound, IsHandler, At, Req
  <1>4. Req(c).text \in TextsOf(Edited(c))
    BY <1>3 DEF TextsOf, Edited
  <1>5. \A p \in DOMAIN StoredConfig : temporary'[p] \in TextsOf(p) \cup {None}
    BY <1>2, <1>4 DEF FilesHold
  <1>6. DOMAIN temporary' = DOMAIN StoredConfig
    BY <1>2 DEF FilesHold
  <1> QED
    BY <1>1, <1>2, <1>5, <1>6, FilesKeep DEF FilesHold

LEMMA ReplaceTextKeepsFiles ==
  ASSUME FilesHold, HandlersHold, NEW c \in Connections, ReplaceText(c)
  PROVE  FilesHold'
  <1>1. Moves(c, Answered)
    BY HandlerMoves
  <1> DEFINE p == Edited(c)
  <1>2. /\ UNCHANGED <<runs, staging>>
        /\ \/ UNCHANGED <<config, temporary>>
           \/ /\ temporary[p] # None
              /\ config' = [config EXCEPT ![p] = temporary[p]]
              /\ temporary' = [temporary EXCEPT ![p] = None]
    BY DEF ReplaceText
  <1> HIDE DEF p
  <1>3. \A q \in DOMAIN StoredConfig :
           /\ config'[q] \in TextsOf(q) \cup {StoredConfig[q]}
           /\ temporary'[q] \in TextsOf(q) \cup {None}
    BY <1>2 DEF FilesHold
  <1>4. DOMAIN config' = DOMAIN StoredConfig /\ DOMAIN temporary' = DOMAIN StoredConfig
    BY <1>2 DEF FilesHold
  <1> QED
    BY <1>1, <1>2, <1>3, <1>4, FilesKeep DEF FilesHold, Answered

(* A label is of a run, and changes nothing else of it.                       *)
LEMMA Labelled ==
  ASSUME FilesHold, HandlersHold, NEW c \in Connections, SetLabel(c), runs' # runs
  PROVE  \E id \in DOMAIN Stored : \E label \in Labels :
            /\ runs[id] \in RunDirectories
            /\ runs' = [runs EXCEPT ![id] = [runs[id] EXCEPT !.label = label]]
  <1> DEFINE id == Req(c).name
             label == IF Req(c).text = "" THEN None ELSE Req(c).text
  <1>1. /\ runs[id] # None
        /\ runs' = [runs EXCEPT ![id].label = label]
    BY DEF SetLabel
  <1>2. Req(c) \in Requests /\ Req(c).path = "label"
    BY DEF SetLabel, Handling, HandlersHold, Sound, IsHandler, At, Req
  <1>3. label \in Labels
    BY <1>2 DEF Labels
  <1> HIDE DEF id, label
  <1>4. id \in DOMAIN Stored
    BY <1>1 DEF FilesHold
  <1>5. runs[id] \in RunDirectories
    BY <1>1, <1>4 DEF FilesHold
  <1>6. runs' = [runs EXCEPT ![id] = [runs[id] EXCEPT !.label = label]]
    BY <1>1
  <1> QED
    BY <1>3, <1>4, <1>5, <1>6

LEMMA SetLabelKeepsFiles ==
  ASSUME FilesHold, HandlersHold, NEW c \in Connections, SetLabel(c)
  PROVE  FilesHold'
  <1>1. Moves(c, Answered) /\ UNCHANGED <<config, temporary, staging>>
    BY HandlerMoves DEF SetLabel
  <1>2. runs' \in [DOMAIN Stored -> RunDirectories \cup {None}]
    <2>1. CASE runs' = runs
      BY <2>1 DEF FilesHold
    <2>2. CASE runs' # runs
      <3>1. PICK id \in DOMAIN Stored, label \in Labels :
              /\ runs[id] \in RunDirectories
              /\ runs' = [runs EXCEPT ![id] = [runs[id] EXCEPT !.label = label]]
        BY <2>2, Labelled
      <3>2. [runs[id] EXCEPT !.label = label] \in RunDirectories
        BY <3>1 DEF RunDirectories
      <3> QED
        BY <3>1, <3>2 DEF FilesHold
    <2> QED
      BY <2>1, <2>2
  <1> QED
    BY <1>1, <1>2, FilesKeep DEF FilesHold, Answered

LEMMA ImportCheckedKeepsFiles ==
  ASSUME FilesHold, HandlersHold, NEW c \in Connections, ImportChecked(c)
  PROVE  FilesHold'
  <1> DEFINE k == ReadBody(conn[c])
             on == [k EXCEPT !.pc = "extract", !.member = 1]
  <1>1. /\ UNCHANGED <<config, temporary, runs>> /\ Req(c).path = "import"
        /\ \/ /\ conn' = [conn EXCEPT ![c] = SendJson(k, 400, None)]
              /\ UNCHANGED staging
           \/ /\ conn' = [conn EXCEPT ![c] = on]
              /\ staging' = [staging EXCEPT ![c] = {}]
    BY DEF ImportChecked, Importing
  <1>2. /\ Sound(conn[c]) /\ Waiting(conn[c]) /\ DOMAIN conn = Connections
    BY DEF ImportChecked, Importing, HandlersHold, At, Waiting
  <1>3. /\ Sound(k) /\ Waiting(k) /\ k.req = conn[c].req
    BY <1>2, ReadBodyIsSound
  <1> HIDE DEF k
  <1>4. CASE /\ conn' = [conn EXCEPT ![c] = SendJson(k, 400, None)]
             /\ UNCHANGED staging
    <2>1. SendJson(k, 400, None).pc \in {"idle", "closed"}
      BY <1>3, SendJsonIsSound
    <2>2. /\ conn'[c].pc # "extract"
          /\ \A d \in Connections \ {c} : conn'[d] = conn[d]
      BY <1>2, <1>4, <2>1
    <2>3. \A d \in Connections : At(d, "extract")' => Unpacks(d)'
      BY <1>4, <2>2, ImporterStays DEF At
    <2> QED
      BY <1>1, <1>4, <2>3 DEF FilesHold
  <1>5. CASE /\ conn' = [conn EXCEPT ![c] = on]
             /\ staging' = [staging EXCEPT ![c] = {}]
    <2>1. on.pc = "extract" /\ on.member = 1 /\ on.req = conn[c].req
      BY <1>3 DEF Sound, IsHandler, Fresh
    <2> HIDE DEF on
    <2>2. conn'[c] = on /\ \A d \in Connections \ {c} : conn'[d] = conn[d]
      BY <1>2, <1>5
    <2>3. /\ staging'[c] = {} /\ \A d \in Connections \ {c} : staging'[d] = staging[d]
          /\ staging' \in [Connections -> (SUBSET Members) \cup {None}]
      BY <1>5 DEF FilesHold
    <2>4. conn[c].req \in Requests
      BY <1>2 DEF Sound, IsHandler, Waiting
    <2>5. Archives[on.req.text].members \in Seq(Members)
      BY <1>1, <2>1, <2>4, RequestAssumption, FilesAssumption DEF Req
    <2>6. /\ on.req.path = "import"
          /\ on.member \in 1 .. Len(Archives[on.req.text].members) + 1
          /\ staging'[c] = {Archives[on.req.text].members[i] : i \in 1 .. on.member - 1}
      <3> DEFINE list == Archives[on.req.text].members
      <3>1. Len(list) \in Nat
        BY <2>5
      <3> HIDE DEF list
      <3>2. {list[i] : i \in 1 .. on.member - 1} = {}
        BY <2>1
      <3>3. on.req.path = "import"
        BY <1>1, <2>1 DEF Req
      <3>4. staging'[c] = {list[i] : i \in 1 .. on.member - 1}
        BY <2>3, <3>2
      <3>5. on.member \in 1 .. Len(list) + 1
        BY <2>1, <3>1
      <3> QED
        BY <3>3, <3>4, <3>5 DEF list
    <2>7. ASSUME NEW d \in Connections, At(d, "extract")'
          PROVE  Unpacks(d)'
      <3>1. CASE d = c
        BY <2>2, <2>6, <3>1 DEF At, Req, Archive, Unpacks
      <3>2. CASE d # c
        BY <2>2, <2>3, <2>7, <3>2, ImporterStays
      <3> QED
        BY <3>1, <3>2
    <2> QED
      BY <1>1, <2>3, <2>7 DEF FilesHold
  <1> QED
    BY <1>1, <1>4, <1>5

LEMMA ExtractMemberKeepsFiles ==
  ASSUME FilesHold, HandlersHold, NEW c \in Connections, ExtractMember(c)
  PROVE  FilesHold'
  <1> DEFINE m == conn[c].member
             list == Archive(c).members
  <1>1. /\ UNCHANGED <<config, temporary, runs>> /\ At(c, "extract")
        /\ m <= Len(list)
        /\ staging' = [staging EXCEPT ![c] = staging[c] \cup {list[m]}]
        /\ conn' = [conn EXCEPT ![c] = [conn[c] EXCEPT !.member = m + 1]]
    BY DEF ExtractMember
  <1>2. /\ Sound(conn[c]) /\ DOMAIN conn = Connections
    BY DEF HandlersHold
  <1>3. /\ list \in Seq(Members) /\ staging[c] \subseteq Members
    BY <1>1, UnpackedIsText
  <1>4. /\ Req(c).path = "import"
        /\ m \in 1 .. Len(list) + 1 /\ staging[c] = {list[i] : i \in 1 .. m - 1}
    BY <1>1 DEF FilesHold, Unpacks
  <1>5. conn'[c].member = m + 1 /\ conn'[c].req = Req(c)
    BY <1>1, <1>2 DEF Sound, IsHandler, Fresh, Req
  <1>6. \A d \in Connections \ {c} : conn'[d] = conn[d]
    BY <1>1, <1>2
  <1>7. Archive(c)' = Archive(c) /\ Req(c)' = Req(c)
    BY <1>5 DEF Archive, Req
  <1>8. /\ staging'[c] = staging[c] \cup {list[m]}
        /\ \A d \in Connections \ {c} : staging'[d] = staging[d]
        /\ DOMAIN staging' = Connections
    BY <1>1 DEF FilesHold
  <1> HIDE DEF m, list
  <1>9. m \in 1 .. Len(list) /\ m + 1 \in 1 .. Len(list) + 1
    BY <1>1, <1>3, <1>4
  <1>10. staging'[c] = {list[i] : i \in 1 .. m}
    BY <1>4, <1>8, <1>9
  <1>11. staging' \in [Connections -> (SUBSET Members) \cup {None}]
    <2>1. staging'[c] \in SUBSET Members
      BY <1>3, <1>8, <1>9
    <2>2. staging' = [d \in Connections |-> staging'[d]]
      BY <1>1 DEF FilesHold
    <2> QED
      BY <1>8, <2>1, <2>2 DEF FilesHold
  <1>12. ASSUME NEW d \in Connections, At(d, "extract")'
         PROVE  Unpacks(d)'
    <2>1. CASE d = c
      <3>1. (m + 1) - 1 = m
        BY <1>9
      <3> QED
        BY <1>4, <1>5, <1>7, <1>9, <1>10, <2>1, <3>1 DEF list, Unpacks
    <2>2. CASE d # c
      BY <1>6, <1>8, <1>12, <2>2, ImporterStays
    <2> QED
      BY <2>1, <2>2
  <1> QED
    BY <1>1, <1>11, <1>12 DEF FilesHold

(* An import that ends, well or not, takes its staging directory with it.     *)
LEMMA NewRunIsRun ==
  ASSUME NEW members \in SUBSET Members, NEW label \in Labels, NEW profile \in Profiles
  PROVE  [members |-> members, label |-> label, profile |-> profile,
          records |-> << >>] \in RunDirectories
  <1>1. << >> \in Measured
    BY DEF Measured
  <1> QED
    BY <1>1 DEF RunDirectories

LEMMA ImportEndsKeepsFiles ==
  ASSUME FilesHold, NEW c \in Connections, Moves(c, Answered),
         staging' = [staging EXCEPT ![c] = None], UNCHANGED <<config, temporary>>,
         runs' \in [DOMAIN Stored -> RunDirectories \cup {None}]
  PROVE  FilesHold'
  <1>1. /\ \A d \in Connections \ {c} : conn'[d] = conn[d] /\ staging'[d] = staging[d]
        /\ conn'[c].pc # "extract"
    BY DEF FilesHold, Moves, Answered
  <1>0. staging' \in [Connections -> (SUBSET Members) \cup {None}]
    BY DEF FilesHold
  <1>2. ASSUME NEW d \in Connections, At(d, "extract")'
        PROVE  Unpacks(d)'
    <2>1. d # c
      BY <1>1, <1>2 DEF At
    <2> QED
      BY <1>1, <1>2, <2>1, ImporterStays
  <1> QED
    BY <1>0, <1>1, <1>2 DEF FilesHold

(* What an import that succeeds adds is a whole archive, under a free name.   *)
LEMMA ImportedRuns ==
  ASSUME FilesHold, HandlersHold, NEW c \in Connections, RenameImport(c),
         runs' # runs
  PROVE  /\ runs[Target(c)] = None /\ runs' = [runs EXCEPT ![Target(c)] = Imported(c)]
         /\ Imported(c) \in RunDirectories
         /\ Imported(c).members \in Whole
  <1>1. /\ At(c, "extract") /\ conn[c].member > Len(Archive(c).members)
        /\ runs[Target(c)] = None /\ runs' = [runs EXCEPT ![Target(c)] = Imported(c)]
    BY DEF RenameImport
  <1>2. /\ Archive(c).members \in Seq(Members) /\ staging[c] \subseteq Members
        /\ Req(c).text \in DOMAIN Archives
    BY <1>1, UnpackedIsText
  <1>3. /\ conn[c].member \in 1 .. Len(Archive(c).members) + 1
        /\ staging[c] = {Archive(c).members[i] : i \in 1 .. conn[c].member - 1}
    BY <1>1 DEF FilesHold, Unpacks
  <1>4. conn[c].member - 1 = Len(Archive(c).members)
    BY <1>1, <1>2, <1>3
  <1>5. staging[c] = ToSet(Archive(c).members)
    BY <1>2, <1>3, <1>4 DEF ToSet
  <1>6. Imported(c).members \in Whole
    BY <1>2, <1>5 DEF Imported, Whole, Archive
  <1>7. Imported(c) \in RunDirectories
    <2>1. staging[c] \in SUBSET Members
      BY <1>2
    <2>2. "imported" \in Labels /\ None \in Profiles
      BY DEF Labels, Profiles
    <2> QED
      BY <2>1, <2>2, NewRunIsRun, Zenon DEF Imported
  <1> QED
    BY <1>1, <1>6, <1>7

LEMMA FilesStep ==
  ASSUME FilesHold, HandlersHold, [Next]_vars
  PROVE  FilesHold'
  <1>1. CASE UNCHANGED <<conn, files>>
    <2>1. \A d \in Connections : At(d, "extract")' => Unpacks(d)'
      BY <1>1, ImporterStays DEF files
    <2> QED
      BY <1>1, <2>1 DEF FilesHold, files
  <1>2. ASSUME NEW c \in Connections, Handle(c)
        PROVE  FilesHold'
    <2>1. CASE Quiet(c)
      BY <2>1, QuietKeeps, QuietMoves, ImporterKeeps DEF QuietPlaces
    <2>2. CASE \/ Logout(c) \/ Admit(c) \/ Health(c) \/ LoginBegins(c) \/ LoginFails(c)
               \/ LoginClears(c) \/ LoginSucceeds(c)
      <3>1. UNCHANGED files
        BY <2>2 DEF Logout, Admit, Health, LoginBegins, LoginFails, LoginClears,
                    LoginSucceeds
      <3> QED
        BY <2>2, <3>1, HandlerMoves, ImporterKeeps DEF Answered
    <2>3. CASE WriteTemporary(c)
      BY <2>3, WriteTemporaryKeepsFiles
    <2>4. CASE ReplaceText(c)
      BY <2>4, ReplaceTextKeepsFiles
    <2>5. CASE SetLabel(c)
      BY <2>5, SetLabelKeepsFiles
    <2>6. CASE ImportChecked(c)
      BY <2>6, ImportCheckedKeepsFiles
    <2>7. CASE ExtractMember(c)
      BY <2>7, ExtractMemberKeepsFiles
    <2>8. CASE ImportFails(c)
      BY <2>8, HandlerMoves, ImportEndsKeepsFiles DEF ImportFails, FilesHold
    <2>9. CASE RenameImport(c)
      <3>1. runs' \in [DOMAIN Stored -> RunDirectories \cup {None}]
        BY <2>9, ImportedRuns DEF FilesHold
      <3> QED
        BY <2>9, <3>1, HandlerMoves, ImportEndsKeepsFiles DEF RenameImport
    <2> QED
      BY <1>2, <2>1, <2>2, <2>3, <2>4, <2>5, <2>6, <2>7, <2>8, <2>9 DEF Handle, Quiet
  <1>3. CASE BenchmarkBegins
    <2>1. PICK id \in DOMAIN runs :
            /\ runs[id] = None
            /\ runs' = [runs EXCEPT ![id] = [members |-> {Manifest}, label |-> None,
                                     profile |-> "smoke", records |-> << >>]]
      BY <1>3 DEF BenchmarkBegins
    <2>2. [members |-> {Manifest}, label |-> None, profile |-> "smoke", records |-> << >>]
             \in RunDirectories
      <3>1. {Manifest} \in SUBSET Members
        BY DEF Members
      <3>2. "smoke" \in Profiles /\ None \in Labels
        BY DEF Labels, Profiles
      <3> QED
        BY <3>1, <3>2, NewRunIsRun, Zenon
    <2>3. runs' \in [DOMAIN Stored -> RunDirectories \cup {None}]
      BY <2>1, <2>2 DEF FilesHold
    <2>4. UNCHANGED <<conn, config, temporary, staging>>
      BY <1>3 DEF BenchmarkBegins
    <2>5. \A d \in Connections : At(d, "extract")' => Unpacks(d)'
      BY <2>4, ImporterStays
    <2> QED
      BY <2>3, <2>4, <2>5 DEF FilesHold
  <1>4. Tick \/ UNCHANGED vars => UNCHANGED <<conn, files>>
    BY DEF Tick, vars, files
  <1>5. CASE Restart
    <2>1. /\ conn' = [c \in Connections |-> Fresh]
          /\ staging' = [c \in Connections |-> None]
          /\ UNCHANGED <<config, temporary, runs>>
      BY <1>5 DEF Restart
    <2>2. \A c \in Connections : ~ At(c, "extract")'
      BY <2>1 DEF At, Fresh
    <2>3. staging' \in [Connections -> (SUBSET Members) \cup {None}]
      BY <2>1, Zenon
    <2> QED
      BY <2>1, <2>2, <2>3 DEF FilesHold
  <1> QED
    BY <1>1, <1>2, <1>3, <1>4, <1>5 DEF Next

LEMMA ServerInit == Init => ServerInv
  <1> SUFFICES ASSUME Init PROVE ServerInv
    OBVIOUS
  <1>1. HandlersHold
    BY FreshIsSound DEF Init, HandlersHold, Fresh
  <1>2. RestHolds
    BY WebAssumption DEF Init, RestHolds
  <1>3. AuthHolds
    BY DEF Init, AuthHolds
  <1>4. FilesHold
    BY FilesAssumption DEF Init, FilesHold, At, Fresh
  <1> QED
    BY <1>1, <1>2, <1>3, <1>4 DEF ServerInv

LEMMA ServerStep == ServerInv /\ [Next]_vars => ServerInv'
  BY HandlersStep, RestStep, AuthStep, FilesStep DEF ServerInv

(* The reachable states are well formed: a thread is in the middle of a       *)
(* request somebody sent or between two, the sessions and failures are what   *)
(* auth.py keeps of them, and the directories hold what somebody sent or had. *)
THEOREM WebTypeCorrect == Spec => []TypeOK
  <1>1. ServerInv => TypeOK
    BY DEF ServerInv, HandlersHold, RestHolds, AuthHolds, FilesHold, TypeOK, Sound, Session
  <1> QED
    BY <1>1, ServerInit, ServerStep, PTL DEF Spec

(* A refusal is readable: its body has been read, or the connection ends with *)
(* it (_send_json).                                                           *)
THEOREM WebRefusalsAreRead == Spec => []RefusalsAreRead
  <1>1. ServerInv => RefusalsAreRead
    BY DEF ServerInv, HandlersHold, Sound, BodyHolds, RefusalsAreRead
  <1> QED
    BY <1>1, ServerInit, ServerStep, PTL DEF Spec

-----------------------------------------------------------------------------
(* Guesses                                                                    *)

(* Those who were let through and have not heard yet.                         *)
Trying == {c \in Connections : At(c, "password")}

(* A wait lets each thread through once, and everybody who is still trying    *)
(* counts as one who will fail. Once there is a wait, the failures so far are *)
(* those of the waits before the one that runs.                               *)
GuessesHold ==
    /\ wrong = failures.count
    /\ wrong + Cardinality(Trying)
          <= BackoffAfter - 1 + Cardinality(Connections) * (1 + clock \div BackoffBase)
    /\ failures.count >= BackoffAfter =>
          wrong <= BackoffAfter - 1
                     + Cardinality(Connections) * (failures.next \div BackoffBase)

LEMMA TryingIsFew ==
  /\ Cardinality(Connections) \in Nat
  /\ IsFiniteSet(Trying) /\ Cardinality(Trying) \in Nat
  /\ Cardinality(Trying) <= Cardinality(Connections)
  <1>1. IsFiniteSet(Connections) /\ Trying \in SUBSET Connections
    BY WebAssumption DEF Trying
  <1> QED
    BY <1>1, FS_Subset, FS_CardinalityType

LEMMA Product ==
  ASSUME NEW n \in Nat, NEW x \in Nat, NEW y \in Nat, x <= y
  PROVE  n * x \in Nat /\ n * x <= n * y
  OBVIOUS

LEMMA Quotient ==
  ASSUME NEW x \in Nat, NEW y \in Nat, x <= y
  PROVE  /\ x \div BackoffBase \in Nat
         /\ x \div BackoffBase <= y \div BackoffBase
         /\ x + BackoffBase <= y => 1 + x \div BackoffBase <= y \div BackoffBase
  BY WebAssumption

(* A step that neither lets anybody through nor fails anybody.                *)
LEMMA GuessesKeep ==
  ASSUME GuessesHold, AuthHolds, RestHolds, Trying' \subseteq Trying,
         UNCHANGED <<failures, wrong>>, clock' \in Nat, clock <= clock'
  PROVE  GuessesHold'
  <1> DEFINE N == Cardinality(Connections)
  <1>1. clock \in Nat /\ wrong \in Nat /\ failures \in [count: Nat, next: Nat]
    BY DEF AuthHolds, RestHolds
  <1>2. /\ N \in Nat /\ Cardinality(Trying) \in Nat
        /\ Cardinality(Trying') \in Nat
        /\ Cardinality(Trying') <= Cardinality(Trying)
    BY TryingIsFew, FS_Subset, FS_CardinalityType
  <1>3. /\ clock \div BackoffBase \in Nat /\ clock' \div BackoffBase \in Nat
        /\ clock \div BackoffBase <= clock' \div BackoffBase
    BY <1>1, Quotient
  <1> HIDE DEF N
  <1>4. N * (1 + clock \div BackoffBase) <= N * (1 + clock' \div BackoffBase)
    BY <1>2, <1>3, Product
  <1>5. /\ N * (1 + clock \div BackoffBase) \in Nat
        /\ N * (1 + clock' \div BackoffBase) \in Nat
    BY <1>2, <1>3, Product
  <1>6. wrong' + Cardinality(Trying')
          <= BackoffAfter - 1 + N * (1 + clock' \div BackoffBase)
    BY <1>1, <1>2, <1>4, <1>5, WebAssumption DEF GuessesHold, N
  <1> QED
    BY <1>6 DEF GuessesHold, N

(* Who is let through finds no wait, or one that is over: the failures so far *)
(* are then those of the waits before now.                                    *)
LEMMA LoginBeginsKeepsGuesses ==
  ASSUME GuessesHold, AuthHolds, RestHolds, NEW c \in Connections, LoginBegins(c)
  PROVE  GuessesHold'
  <1> DEFINE N == Cardinality(Connections)
             q == clock \div BackoffBase
  <1>1. clock \in Nat /\ wrong \in Nat /\ failures \in [count: Nat, next: Nat]
    BY DEF AuthHolds, RestHolds
  <1>2. UNCHANGED <<failures, wrong, clock>> /\ RetryAfter = 0
    BY DEF LoginBegins, auth, rest
  <1>3. /\ N \in Nat /\ Cardinality(Trying') \in Nat /\ Cardinality(Trying') <= N
    <2>1. IsFiniteSet(Connections) /\ Trying' \in SUBSET Connections
      BY WebAssumption DEF Trying
    <2> QED
      BY <2>1, FS_Subset, FS_CardinalityType
  <1>4. q \in Nat /\ failures.next \div BackoffBase \in Nat
    BY <1>1, Quotient
  <1>5. wrong <= BackoffAfter - 1 + N * q
    <2>1. N * q \in Nat /\ N * (failures.next \div BackoffBase) \in Nat
      BY <1>3, <1>4, Product
    <2>2. CASE failures.count < BackoffAfter
      <3> HIDE DEF N, q
      <3> QED
        BY <1>1, <2>1, <2>2, WebAssumption DEF GuessesHold
    <2>3. CASE failures.count >= BackoffAfter
      <3>1. failures.next <= clock
        BY <1>1, <1>2, <2>3, WebAssumption DEF RetryAfter
      <3>2. failures.next \div BackoffBase <= q
        BY <1>1, <3>1, Quotient
      <3>3. N * (failures.next \div BackoffBase) <= N * q
        BY <1>3, <1>4, <3>2, Product
      <3>4. wrong <= BackoffAfter - 1 + N * (failures.next \div BackoffBase)
        BY <2>3 DEF GuessesHold
      <3> HIDE DEF N, q
      <3> QED
        BY <1>1, <2>1, <3>3, <3>4, WebAssumption
    <2> QED
      BY <1>1, <2>2, <2>3, WebAssumption
  <1>6. N * (1 + q) = N + N * q /\ N * q \in Nat
    BY <1>3, <1>4
  <1> HIDE DEF N, q
  <1>7. wrong + Cardinality(Trying') <= BackoffAfter - 1 + N * (1 + q)
    BY <1>1, <1>3, <1>5, <1>6, WebAssumption
  <1> QED
    BY <1>2, <1>7 DEF GuessesHold, N, q

(* Who fails was counted among those who were trying, and the wait that       *)
(* begins ends in a later interval.                                           *)
LEMMA LoginFailsKeepsGuesses ==
  ASSUME GuessesHold, AuthHolds, RestHolds, HandlersHold,
         NEW c \in Connections, LoginFails(c)
  PROVE  GuessesHold'
  <1> DEFINE N == Cardinality(Connections)
             q == clock \div BackoffBase
             next == clock + Delay(failures.count + 1)
  <1>1. clock \in Nat /\ wrong \in Nat /\ failures \in [count: Nat, next: Nat]
    BY DEF AuthHolds, RestHolds
  <1>2. /\ wrong' = wrong + 1 /\ UNCHANGED clock /\ c \in Trying
        /\ failures' = [count |-> failures.count + 1, next |-> next]
    BY DEF LoginFails, RecordFailure, rest, Trying
  <1>3. Trying' = Trying \ {c}
    BY HandlerMoves DEF LoginFails, Moves, Answered, Trying, At
  <1>4. /\ N \in Nat /\ Cardinality(Trying) \in Nat
        /\ Cardinality(Trying') \in Nat
        /\ Cardinality(Trying') = Cardinality(Trying) - 1
    BY <1>2, <1>3, TryingIsFew, FS_RemoveElement, FS_CardinalityType
  <1>5. /\ next \in Nat
        /\ failures.count + 1 >= BackoffAfter => clock + BackoffBase <= next
    BY <1>1, DelayBounds, WebAssumption
  <1>6. q \in Nat /\ next \div BackoffBase \in Nat
    BY <1>1, <1>5, Quotient
  <1>7. N * (1 + q) \in Nat /\ N * (next \div BackoffBase) \in Nat
    BY <1>4, <1>6, Product
  <1>8. wrong + Cardinality(Trying) <= BackoffAfter - 1 + N * (1 + q)
    BY DEF GuessesHold
  <1>9. failures.count + 1 >= BackoffAfter => N * (1 + q) <= N * (next \div BackoffBase)
    <2> SUFFICES ASSUME failures.count + 1 >= BackoffAfter
                 PROVE  N * (1 + q) <= N * (next \div BackoffBase)
      OBVIOUS
    <2>1. 1 + q <= next \div BackoffBase
      BY <1>1, <1>5, Quotient, WebAssumption
    <2> QED
      BY <1>4, <1>6, <2>1, Product
  <1> HIDE DEF N, q, next
  <1>10. wrong' + Cardinality(Trying') <= BackoffAfter - 1 + N * (1 + q)
    BY <1>1, <1>2, <1>4, <1>7, <1>8, WebAssumption
  <1>11. failures.count + 1 >= BackoffAfter =>
            wrong' <= BackoffAfter - 1 + N * (next \div BackoffBase)
    BY <1>1, <1>2, <1>4, <1>7, <1>9, <1>10, WebAssumption
  <1>12. wrong' = failures'.count /\ failures'.count = failures.count + 1
         /\ failures'.next = next
    BY <1>2 DEF GuessesHold
  <1> QED
    BY <1>2, <1>10, <1>11, <1>12 DEF GuessesHold, N, q

(* Nothing failed since: who is still trying is one thread each.              *)
LEMMA ClearedGuesses ==
  ASSUME RestHolds, Trying' \subseteq Trying, wrong' = 0,
         failures' = [count |-> 0, next |-> 0], UNCHANGED clock
  PROVE  GuessesHold'
  <1> DEFINE N == Cardinality(Connections)
             q == clock \div BackoffBase
  <1>1. clock \in Nat /\ q \in Nat
    BY Quotient DEF RestHolds
  <1>2. /\ N \in Nat /\ Cardinality(Trying') \in Nat /\ Cardinality(Trying') <= N
    BY TryingIsFew, FS_Subset, FS_CardinalityType
  <1>3. N * (1 + q) = N + N * q /\ N * q \in Nat
    BY <1>1, <1>2
  <1> HIDE DEF N, q
  <1>4. 0 + Cardinality(Trying') <= BackoffAfter - 1 + N * (1 + q)
    BY <1>2, <1>3, WebAssumption
  <1>5. ~ (failures'.count >= BackoffAfter) /\ wrong' = failures'.count
    BY WebAssumption
  <1> QED
    BY <1>4, <1>5 DEF GuessesHold, N, q

LEMMA GuessesStep ==
  ASSUME GuessesHold, ServerInv, [Next]_vars
  PROVE  GuessesHold'
  <1> USE DEF ServerInv
  <1>0. clock \in Nat
    BY DEF RestHolds
  <1>1. ASSUME NEW c \in Connections, Handle(c)
        PROVE  GuessesHold'
    <2>1. CASE LoginBegins(c)
      BY <2>1, LoginBeginsKeepsGuesses
    <2>2. CASE LoginFails(c)
      BY <2>2, LoginFailsKeepsGuesses
    <2>3. CASE LoginClears(c)
      <3>1. Trying' \subseteq Trying
        BY <2>3, HandlerMoves DEF Moves, Trying, At
      <3> QED
        BY <2>3, <3>1, ClearedGuesses DEF LoginClears, rest
    <2>4. CASE ~ (LoginBegins(c) \/ LoginFails(c) \/ LoginClears(c))
      <3>1. Trying' \subseteq Trying
        BY <1>1, <2>4, QuietMoves, HandlerMoves
        DEF Handle, Quiet, Moves, QuietPlaces, Answered, Trying, At
      <3>2. UNCHANGED <<failures, wrong, clock>>
        <4>1. CASE Quiet(c)
          BY <4>1, QuietKeeps DEF auth
        <4>2. CASE ~ Quiet(c)
          BY <1>1, <2>4, <4>2
          DEF Handle, Quiet, Logout, Admit, Health, LoginSucceeds, WriteTemporary,
              ReplaceText, SetLabel, ImportChecked, ExtractMember, ImportFails,
              RenameImport, rest, auth
        <4> QED
          BY <4>1, <4>2
      <3> QED
        BY <1>0, <3>1, <3>2, GuessesKeep
    <2> QED
      BY <2>1, <2>2, <2>3, <2>4
  <1>2. CASE BenchmarkBegins \/ Tick \/ UNCHANGED vars
    <2>1. UNCHANGED <<conn, failures, wrong>> /\ (clock' = clock \/ clock' = clock + 1)
      BY <1>2 DEF BenchmarkBegins, Tick, vars, rest, auth
    <2>2. Trying' = Trying
      BY <2>1 DEF Trying, At
    <2> QED
      BY <1>0, <2>1, <2>2, GuessesKeep
  <1>3. CASE Restart
    <2>1. Trying' \subseteq Trying
      BY <1>3 DEF Restart, Trying, At, Fresh
    <2> QED
      BY <1>3, <2>1, ClearedGuesses DEF Restart
  <1> QED
    BY <1>1, <1>2, <1>3 DEF Next

(* However many threads try at once, wrong passwords are slowed down: a wait  *)
(* lets each thread through once (retry_after, login, _record_failure).       *)
THEOREM WebGuessesAreSlowed == Spec => []GuessesAreSlowed
  <1>1. Init => GuessesHold
    <2> SUFFICES ASSUME Init PROVE GuessesHold
      OBVIOUS
    <2>1. Trying = {}
      BY DEF Init, Trying, At, Fresh
    <2>2. Cardinality(Trying) = 0 /\ Cardinality(Connections) \in Nat
      BY <2>1, FS_EmptySet, TryingIsFew
    <2>3. /\ clock = 0 /\ wrong = 0 /\ failures.count = 0
          /\ 0 \div BackoffBase \in Nat
      BY Quotient DEF Init
    <2>4. Cardinality(Connections) * (1 + 0 \div BackoffBase) \in Nat
      BY <2>2, <2>3, Product
    <2> QED
      BY <2>2, <2>3, <2>4, WebAssumption DEF GuessesHold
  <1>2. ServerInv /\ GuessesHold => GuessesAreSlowed
    <2> SUFFICES ASSUME ServerInv, GuessesHold PROVE GuessesAreSlowed
      OBVIOUS
    <2>1. /\ wrong \in Nat /\ clock \in Nat
          /\ Cardinality(Trying) \in Nat /\ Cardinality(Connections) \in Nat
      BY TryingIsFew DEF ServerInv, AuthHolds, RestHolds
    <2>2. Cardinality(Connections) * (1 + clock \div BackoffBase) \in Nat
      BY <2>1, Quotient, Product
    <2> QED
      BY <2>1, <2>2, WebAssumption DEF GuessesHold, GuessesAreSlowed
  <1> QED
    BY <1>1, <1>2, ServerInit, ServerStep, GuessesStep, PTL DEF Spec

-----------------------------------------------------------------------------
(* What a step may do to a session and to a run                               *)

(* A session is honoured from its sign-in for its lifetime, however often it  *)
(* is used, and not after a sign-out or a restart (Auth.is_valid, logout).    *)
THEOREM WebSessionsEnd == Spec => SessionsEnd
  <1>1. ASSUME ServerInv, Next, NEW c \in Connections,
               AuthEnabled, At(c, "request"), conn'[c].pc = "admitted"
        PROVE  LET s == conn[c].session IN
               /\ s \in DOMAIN signedIn /\ s \notin signedOut
               /\ clock - signedIn[s] <= Absolute
    <2> DEFINE s == conn[c].session
    <2>1. Admit(c)
      <3>1. ASSUME NEW d \in Connections, Handle(d)
            PROVE  Admit(c)
        <4>1. \A places : Moves(d, places) => d = c /\ "admitted" \in places
          BY <1>1 DEF Moves, At
        <4>2. ~ Quiet(d)
          BY <1>1, <4>1, QuietMoves DEF QuietPlaces, ServerInv
        <4> QED
          BY <1>1, <3>1, <4>1, <4>2, HandlerMoves DEF Handle, Quiet, Answered, ServerInv
      <3>2. ~ (BenchmarkBegins \/ Tick \/ Restart)
        BY <1>1 DEF BenchmarkBegins, Tick, Restart, At, Fresh
      <3> QED
        BY <1>1, <3>1, <3>2 DEF Next
    <2>2. DOMAIN conn = Connections /\ Sound(conn[c])
      BY <1>1 DEF ServerInv, HandlersHold
    <2>3. PICK valid \in BOOLEAN :
            /\ IsValid(s, valid)
            /\ IF valid THEN Go(c, "admitted")
               ELSE IF Req(c).path = "page"
                    THEN conn' = [conn EXCEPT ![c] = Ended(@, 302, None)]
               ELSE Refuse(c, 401)
      BY <2>1 DEF Admit
    <2>4. valid
      <3>1. SUFFICES ASSUME ~ valid PROVE FALSE
        OBVIOUS
      <3>2. Waiting(conn[c])
        BY <1>1 DEF At, Waiting
      <3>3. ~ Refuse(c, 401)
        BY <1>1, <3>2, RefuseMoves DEF Moves, ServerInv
      <3>4. conn' = [conn EXCEPT ![c] = Ended(conn[c], 302, None)]
        BY <2>3, <3>1, <3>3
      <3>5. Ended(conn[c], 302, None).pc = "idle"
        BY <2>2, EndedFields DEF Sound
      <3> QED
        BY <1>1, <2>2, <3>4, <3>5
    <2>5. Live(s)
      BY <1>1, <2>3, <2>4 DEF IsValid
    <2>6. /\ s \in 1 .. Len(sessions) /\ sessions[s] # None
          /\ clock - sessions[s].created <= Absolute
      BY <1>1, <2>5 DEF Live, ServerInv, AuthHolds
    <2>7. sessions[s].created = signedIn[s] /\ s \notin signedOut /\ s \in DOMAIN signedIn
      BY <1>1, <2>6 DEF ServerInv, AuthHolds
    <2> QED
      BY <2>6, <2>7
  <1>2. ServerInv /\ [Next]_vars =>
          [\A c \in Connections :
             (AuthEnabled /\ At(c, "request") /\ conn'[c].pc = "admitted") =>
                LET s == conn[c].session IN
                /\ s \in DOMAIN signedIn /\ s \notin signedOut
                /\ clock - signedIn[s] <= Absolute]_vars
    BY <1>1
  <1> QED
    BY <1>2, ServerInit, ServerStep, PTL DEF Spec, SessionsEnd

(* A run directory appears with everything its archive holds, and no import   *)
(* touches one that is there (import_bundle, os.rename).                      *)
THEOREM WebRunsStayWhole == Spec => RunsStayWhole
  <1> DEFINE Stays(id) ==
        IF runs[id] = None
        THEN runs'[id] # None => runs'[id].members \in Whole
        ELSE runs'[id] # None /\ runs'[id].members = runs[id].members
  <1>1. ASSUME ServerInv, Next, NEW id \in DOMAIN runs
        PROVE  Stays(id)
    <2>1. runs \in [DOMAIN Stored -> RunDirectories \cup {None}]
      BY <1>1 DEF ServerInv, FilesHold
    <2>2. CASE UNCHANGED runs
      BY <2>2
    <2>3. ASSUME NEW c \in Connections, Handle(c), runs' # runs
          PROVE  Stays(id)
      <3>1. SetLabel(c) \/ RenameImport(c)
        <4>1. ~ Quiet(c)
          BY <2>3, QuietKeeps DEF files
        <4> QED
          BY <2>3, <4>1
          DEF Handle, Quiet, Logout, Admit, Health, LoginBegins, LoginFails, LoginClears,
              LoginSucceeds, WriteTemporary, ReplaceText, ImportChecked, ExtractMember,
              ImportFails, files
      <3>2. CASE SetLabel(c)
        <4>1. PICK i \in DOMAIN Stored, label \in Labels :
                /\ runs[i] \in RunDirectories
                /\ runs' = [runs EXCEPT ![i] = [runs[i] EXCEPT !.label = label]]
          BY <1>1, <2>3, <3>2, Labelled DEF ServerInv
        <4>2. LET new == [runs[i] EXCEPT !.label = label] IN
              new \in RunDirectories /\ new.members = runs[i].members
          BY <4>1 DEF RunDirectories
        <4>3. None \notin RunDirectories
          BY FilesAssumption
        <4> QED
          BY <1>1, <2>1, <4>1, <4>2, <4>3
      <3>3. CASE RenameImport(c)
        BY <1>1, <2>1, <2>3, <3>3, ImportedRuns DEF ServerInv
      <3> QED
        BY <3>1, <3>2, <3>3
    <2>4. CASE BenchmarkBegins
      BY <2>1, <2>4 DEF BenchmarkBegins, Whole
    <2>5. Tick \/ Restart => UNCHANGED runs
      BY DEF Tick, Restart, files
    <2> QED
      BY <1>1, <2>2, <2>3, <2>4, <2>5 DEF Next
  <1>2. ServerInv /\ [Next]_vars => [\A id \in DOMAIN runs : Stays(id)]_vars
    BY <1>1
  <1> QED
    BY <1>2, ServerInit, ServerStep, PTL DEF Spec, RunsStayWhole

=============================================================================
