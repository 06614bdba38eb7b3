----------------------------- MODULE WebSession -----------------------------
(***************************************************************************)
(* Login, registration and the list of devices a user has applied for, in  *)
(* the web server (main.go, Login.go, the device handlers of User.go).     *)
(*                                                                         *)
(* Every request is served by a goroutine.  All of them share one `user`,  *)
(* which main declares and every login overwrites, and one LoginFlag, by   *)
(* which a handler tells the next that it turned the request away.  The    *)
(* session is kept in the browser's cookie: a set of names, one for every  *)
(* login from this browser.  A handler that returns does not end the chain *)
(* of handlers (only Abort does), so refused requests go on to the next.   *)
(***************************************************************************)
EXTENDS Integers, FiniteSets

CONSTANTS Browser, User, Device,
          Request,      \* slots for requests in progress
          Kind,         \* the requests that browsers send
          NoOne,        \* the empty name, or one no user has
          MaxLate       \* bound: requests sent since two overlapped first

ASSUME WebSessionAssumption ==
    /\ MaxLate \in Nat
    /\ NoOne \notin User
    /\ Kind \subseteq {"login", "register", "apply", "remove", "list", "test"}

Name == User \union {NoOne}

VARIABLES
    user,       \* the name in main's `user`
    LoginFlag,
    users,      \* table users: rows for each name
    userdevice, \* table userdevice: rows for each name and device
    cookie,     \* the names in each browser's session
    step,       \* what each request is about to do
    req,        \* what it asks for, from where, and the session it came with
    name,       \* the local copy of user's name
    refused,    \* the session check failed
    answer,     \* what it was answered, and the devices in it
    shown,
    late        \* history: requests sent since two were in progress first

vars == <<user, LoginFlag, users, userdevice, cookie, step, req, name, refused,
          answer, shown, late>>
tables == <<users, userdevice>>
local == <<req, name, refused, answer, shown, late>>

(* What a request of each kind is about: a user, a device or nothing more.  *)
Subject(kind) == CASE kind \in {"login", "register"} -> User
                   [] kind \in {"apply", "remove"} -> Device
                   [] OTHER -> {NoOne}

Asked == [browser : Browser, kind : Kind, of : User \union Device \union {NoOne},
          jar : SUBSET User]

TypeOK ==
    /\ user \in Name
    /\ LoginFlag \in BOOLEAN
    /\ users \in [User -> Nat]
    /\ userdevice \in [Name -> [Device -> Nat]]
    /\ cookie \in [Browser -> SUBSET User]
    /\ step \in [Request -> {"idle", "login", "assign", "search", "insert",
                             "check", "name", "find", "create", "delete",
                             "flag", "reset", "list", "read"}]
    /\ req \in [Request -> Asked]
    /\ name \in [Request -> Name]
    /\ refused \in [Request -> BOOLEAN]
    /\ answer \in [Request -> {"none", "page", "index", "login", "devices"}]
    /\ shown \in [Request -> SUBSET Device]
    /\ late \in 0 .. MaxLate

(* The database and the browsers' cookies outlive the web server.           *)
Init ==
    /\ user = NoOne
    /\ LoginFlag = FALSE
    /\ users \in [User -> {0, 1}]
    /\ \E rows \in [User -> [Device -> {0, 1}]] :
         userdevice = [n \in Name |-> IF n \in User THEN rows[n]
                                     ELSE [d \in Device |-> 0]]
    /\ cookie \in [Browser -> SUBSET {u \in User : users[u] > 0}]
    /\ step = [r \in Request |-> "idle"]
    /\ \E b \in Browser :
         \E k \in Kind : \E x \in Subject(k) :
           req = [r \in Request |-> [browser |-> b, kind |-> k, of |-> x,
                                    jar |-> {}]]
    /\ name = [r \in Request |-> NoOne]
    /\ refused = [r \in Request |-> FALSE]
    /\ answer = [r \in Request |-> "none"]
    /\ shown = [r \in Request |-> {}]
    /\ late = 0

(* So far, there was never more than one request in progress.               *)
OneAtATime == late = 0

Goto(r, there) == step' = [step EXCEPT ![r] = there]
Asks(r, kind) == req[r].kind = kind

(* What a read of user's name may return: while a login overwrites the two  *)
(* words of the string, the old name, the new one, or a mixture.            *)
Assigning == {r \in Request : step[r] = "assign"}
NameReads ==
    LET names == {user} \union {req[r].of : r \in Assigning}
    IN  IF Cardinality(names) > 1 THEN names \union {NoOne} ELSE names

-----------------------------------------------------------------------------
(* A browser sends a request, with its cookie.                              *)
Send(r) ==
    /\ step[r] = "idle"
    /\ \E b \in Browser, k \in Kind : \E x \in Subject(k) :
         /\ req' = [req EXCEPT ![r] = [browser |-> b, kind |-> k, of |-> x,
                                       jar |-> cookie[b]]]
         /\ Goto(r, CASE k = "login" -> "login"
                      [] k = "register" -> "search"
                      [] OTHER -> "check")
    /\ name' = [name EXCEPT ![r] = NoOne]
    /\ refused' = [refused EXCEPT ![r] = FALSE]
    /\ answer' = [answer EXCEPT ![r] = "none"]
    /\ shown' = [shown EXCEPT ![r] = {}]
    /\ late' = IF late > 0 \/ \E q \in Request : step[q] # "idle"
               THEN late + 1 ELSE 0
    /\ late' <= MaxLate
    /\ UNCHANGED <<user, LoginFlag, tables, cookie>>

(* LoginIn with the right password: the session gets the name, unless it    *)
(* has it.  (With a wrong name or password the handler, or the next one,    *)
(* panics and gin recovers: nothing has changed.)                           *)
LoginIn(r) ==
    /\ step[r] = "login"
    /\ \/ /\ users[req[r].of] > 0
          /\ cookie' = IF req[r].of \in req[r].jar THEN cookie
                       ELSE [cookie EXCEPT ![req[r].browser] =
                               req[r].jar \union {req[r].of}]
          /\ Goto(r, "assign")
          /\ UNCHANGED answer
       \/ /\ Goto(r, "idle")
          /\ answer' = [answer EXCEPT ![r] = "login"]
          /\ UNCHANGED cookie
    /\ UNCHANGED <<user, LoginFlag, tables, req, name, refused, shown, late>>

(* The handler behind it: user = demo_server.User{...}                      *)
SetUser(r) ==
    /\ step[r] = "assign"
    /\ user' = req[r].of
    /\ Goto(r, "idle")
    /\ answer' = [answer EXCEPT ![r] = "page"]
    /\ UNCHANGED <<LoginFlag, tables, cookie, req, name, refused, shown, late>>

(* Faulty search: a name that is taken is not noticed.                      *)
SearchUser_Blind(r) ==
    /\ step[r] = "search"
    /\ Goto(r, "insert")
    /\ UNCHANGED <<user, LoginFlag, tables, cookie, local>>

(* InsertUser: look for the name ...                                        *)
SearchUser(r) ==
    /\ step[r] = "search"
    /\ Goto(r, IF users[req[r].of] > 0 THEN "idle" ELSE "insert")
    /\ UNCHANGED <<user, LoginFlag, tables, cookie, local>>

(* ... and insert it.                                                       *)
InsertUser(r) ==
    /\ step[r] = "insert"
    /\ users' = [users EXCEPT ![req[r].of] = @ + 1]
    /\ Goto(r, "idle")
    /\ UNCHANGED <<user, LoginFlag, userdevice, cookie, local>>

-----------------------------------------------------------------------------
(* Faulty check: any session that is not empty will do.                     *)
Accept_AnySession(r) ==
    /\ step[r] = "check"
    /\ req[r].jar # {}
    /\ Goto(r, IF Asks(r, "list") THEN "list" ELSE "name")
    /\ UNCHANGED <<user, LoginFlag, tables, cookie, local>>

(* The session check reads user's name twice, as key and as value.          *)
Accept(r) ==
    /\ step[r] = "check"
    /\ NameReads \intersect req[r].jar # {}
    /\ Goto(r, IF Asks(r, "list") THEN "list" ELSE "name")
    /\ UNCHANGED <<user, LoginFlag, tables, cookie, local>>

Refusable(r) ==
    \E key, value \in NameReads : key # value \/ key \notin req[r].jar

(* "You have login out".  The next handler runs all the same.               *)
Refuse(r) ==
    /\ step[r] = "check"
    /\ Refusable(r)
    /\ Goto(r, CASE Asks(r, "apply") -> "flag"
                 [] Asks(r, "test") -> "idle"
                 [] OTHER -> "list")
    /\ LoginFlag' = (LoginFlag \/ Asks(r, "apply"))
    /\ answer' = IF Asks(r, "test") THEN [answer EXCEPT ![r] = "login"]
                 ELSE answer
    /\ refused' = [refused EXCEPT ![r] = TRUE]
    /\ UNCHANGED <<user, tables, cookie, req, name, shown, late>>

(* user's name is read again, for the row in userdevice, or for the query.  *)
TakeName(r) ==
    /\ step[r] \in {"name", "list"}
    /\ \E n \in NameReads : name' = [name EXCEPT ![r] = n]
    /\ Goto(r, IF step[r] = "list" \/ Asks(r, "test") THEN "read"
               ELSE IF Asks(r, "apply") THEN "find" ELSE "delete")
    /\ UNCHANGED <<user, LoginFlag, tables, cookie, req, refused, answer, shown, late>>

(* Faulty search: the answer of the database is not looked at.              *)
FindUserDevice_Blind(r) ==
    /\ step[r] = "find"
    /\ Goto(r, "create")
    /\ UNCHANGED <<user, LoginFlag, tables, cookie, local>>

(* ApplyForDevice: has the user applied for the device before? ...          *)
FindUserDevice(r) ==
    /\ step[r] = "find"
    /\ Goto(r, IF userdevice[name[r]][req[r].of] > 0
               THEN "flag" ELSE "create")
    /\ UNCHANGED <<user, LoginFlag, tables, cookie, local>>

(* ... if not, insert a row.                                                *)
CreateUserDevice(r) ==
    /\ step[r] = "create"
    /\ userdevice' = [userdevice EXCEPT ![name[r]][req[r].of] = @ + 1]
    /\ Goto(r, "flag")
    /\ UNCHANGED <<user, LoginFlag, users, cookie, local>>

(* Faulty removal: of one row, there or not.                                *)
DeleteUserDevice_One(r) ==
    /\ step[r] = "delete"
    /\ userdevice' = [userdevice EXCEPT ![name[r]][req[r].of] = @ - 1]
    /\ Goto(r, "list")
    /\ UNCHANGED <<user, LoginFlag, users, cookie, local>>

(* Faulty removal: of the user's other devices.                             *)
DeleteUserDevice_Others(r) ==
    /\ step[r] = "delete"
    /\ userdevice' =
         [userdevice EXCEPT ![name[r]] =
            [d \in Device |-> IF d = req[r].of THEN @[d] ELSE 0]]
    /\ Goto(r, "list")
    /\ UNCHANGED <<user, LoginFlag, users, cookie, local>>

(* RemoveDevice: delete the rows.                                           *)
DeleteUserDevice(r) ==
    /\ step[r] = "delete"
    /\ userdevice' = [userdevice EXCEPT ![name[r]][req[r].of] = 0]
    /\ Goto(r, "list")
    /\ UNCHANGED <<user, LoginFlag, users, cookie, local>>

(* The handler behind ApplyForDevice: is LoginFlag up? ...                  *)
CheckLoginFlag(r) ==
    /\ step[r] = "flag"
    /\ Goto(r, IF LoginFlag THEN "reset" ELSE "list")
    /\ UNCHANGED <<user, LoginFlag, tables, cookie, local>>

(* Faulty: the flag stays up.                                               *)
SendToIndex_FlagStays(r) ==
    /\ step[r] = "reset"
    /\ answer' = [answer EXCEPT ![r] = "index"]
    /\ Goto(r, "idle")
    /\ UNCHANGED <<user, LoginFlag, tables, cookie, req, name, refused, shown, late>>

(* ... then lower it and answer with the index page.                        *)
SendToIndex(r) ==
    /\ step[r] = "reset"
    /\ LoginFlag' = FALSE
    /\ answer' = [answer EXCEPT ![r] = "index"]
    /\ Goto(r, "idle")
    /\ UNCHANGED <<user, tables, cookie, req, name, refused, shown, late>>

(* GetDeviceRecord and ApplyForTest: the devices with a row for the name.   *)
ReadDevices(r) ==
    /\ step[r] = "read"
    /\ shown' = [shown EXCEPT ![r] =
                   {d \in Device : userdevice[name[r]][d] > 0}]
    /\ answer' = [answer EXCEPT ![r] = "devices"]
    /\ Goto(r, "idle")
    /\ UNCHANGED <<user, LoginFlag, tables, cookie, req, name, refused, late>>

Next ==
    \E r \in Request :
        \/ Send(r)
        \/ LoginIn(r) \/ SetUser(r) \/ SearchUser(r) \/ InsertUser(r)
        \/ Accept(r) \/ Refuse(r) \/ TakeName(r)
        \/ FindUserDevice(r) \/ CreateUserDevice(r) \/ DeleteUserDevice(r)
        \/ CheckLoginFlag(r) \/ SendToIndex(r) \/ ReadDevices(r)

Spec == Init /\ [][Next]_vars

-----------------------------------------------------------------------------
(* What holds as long as requests come one at a time: nobody is registered  *)
(* twice (a login would get one password or the other) ...                  *)
RegisteredOnce == OneAtATime => \A u \in User : users[u] <= 1

(* ... and nobody has applied for a device twice (a test would send the     *)
(* pictures to this device twice at the same time).                         *)
AppliedOnce ==
    OneAtATime => \A n \in Name, d \in Device : userdevice[n][d] <= 1

(* A change of a user's devices by a handler whose request came from a      *)
(* browser in which this user logged in.                                    *)
ChangesOwnUser ==
    \A n \in Name :
        userdevice'[n] # userdevice[n]
            => \E r \in Request : step[r] \in {"create", "delete"} /\ n \in req[r].jar

(* Of requests one at a time: a handler changes the devices only of a user  *)
(* who logged in from the browser the request came from, although it acts   *)
(* for the one `user`.                                                      *)
ActsForOwnUser == [][OneAtATime => ChangesOwnUser]_vars

(* Of requests one at a time: the list that answers a request which was     *)
(* accepted shows its effect.                                               *)
AnswerShowsChange ==
    \A r \in Request :
        answer[r] = "devices" /\ ~ refused[r] /\ OneAtATime
            => /\ Asks(r, "apply") => req[r].of \in shown[r]
               /\ Asks(r, "remove") => req[r].of \notin shown[r]

(* LoginFlag never stays behind: while it is up, a request is on its way to *)
(* lower it, so that no later application is taken for refused.             *)
FlagIsTaken ==
    LoginFlag => \E r \in Request : \/ step[r] = "reset"
                                    \/ step[r] = "flag" /\ refused[r]
=============================================================================
