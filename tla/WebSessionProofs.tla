-------------------------- MODULE WebSessionProofs --------------------------
(***************************************************************************)
(* Theorems about WebSession, for any number of browsers, users, devices   *)
(* and requests at a time.                                                 *)
(***************************************************************************)
EXTENDS WebSession, FiniteSetTheorems, TLAPS

Steps == {"idle", "login", "assign", "search", "insert", "check", "name", "find",
          "create", "delete", "flag", "reset", "list", "read"}

(* A login or a registration is about a user, the steps on userdevice are   *)
(* of requests about a device.                                              *)
OfItsKind ==
    \A r \in Request :
        /\ step[r] \in {"login", "assign", "search", "insert"} => req[r].of \in User
        /\ step[r] \in {"find", "create", "delete"} => req[r].of \in Device
        /\ step[r] = "name" => req[r].kind \in {"apply", "remove", "test"}
        /\ step[r] \in {"check", "name"} /\ req[r].kind \in {"apply", "remove"}
              => req[r].of \in Device

(* Accept sends lists, tests, applications and removals on; the first two   *)
(* without a device.                                                        *)
Checked ==
    \A r \in Request :
        step[r] = "check" => req[r].kind \in {"apply", "remove", "list", "test"}

IInv == TypeOK /\ OfItsKind /\ Checked

LEMMA NameReadsAreNames ==
    ASSUME IInv PROVE NameReads \subseteq Name
<1>1. user \in Name
  BY DEF IInv, TypeOK
<1>2. \A r \in Assigning : req[r].of \in User
  BY DEF Assigning, IInv, OfItsKind
<1> QED
  BY <1>1, <1>2 DEF NameReads, Name

LEMMA Moves ==
    ASSUME TypeOK, NEW r \in Request, NEW there \in Steps, Goto(r, there)
    PROVE  /\ step' \in [Request -> Steps]
           /\ step'[r] = there
           /\ \A q \in Request : q # r => step'[q] = step[q]
  BY DEF TypeOK, Goto, Steps

(* A request asks for one thing all its way.                                *)
LEMMA SameRequests ==
    ASSUME IInv, TypeOK', NEW r \in Request, NEW there \in Steps,
           Goto(r, there), req' = req,
           there \notin {"login", "search", "check"},
           there \in {"assign", "insert"} => req[r].of \in User,
           there \in {"find", "create", "delete"} => req[r].of \in Device,
           there = "name" => step[r] = "check" /\ ~ Asks(r, "list")
    PROVE  IInv'
<1>1. /\ step'[r] = there
      /\ \A q \in Request : q # r => step'[q] = step[q]
  BY Moves DEF IInv
<1>2. OfItsKind'
  BY <1>1 DEF IInv, OfItsKind, Checked, Asks
<1>3. Checked'
  BY <1>1 DEF IInv, Checked
<1> QED
  BY <1>2, <1>3 DEF IInv

LEMMA SendStep ==
    ASSUME IInv, NEW r \in Request, Send(r)
    PROVE  IInv'
<1>0. PICK b \in Browser, k \in Kind :
        \E x \in Subject(k) :
          /\ req' = [req EXCEPT ![r] = [browser |-> b, kind |-> k, of |-> x,
                                        jar |-> cookie[b]]]
          /\ Goto(r, CASE k = "login" -> "login"
                       [] k = "register" -> "search"
                       [] OTHER -> "check")
  BY DEF Send
<1>1. PICK x \in Subject(k) :
        /\ req' = [req EXCEPT ![r] = [browser |-> b, kind |-> k, of |-> x,
                                      jar |-> cookie[b]]]
        /\ Goto(r, CASE k = "login" -> "login"
                     [] k = "register" -> "search"
                     [] OTHER -> "check")
  BY <1>0
<1> DEFINE there == CASE k = "login" -> "login"
                      [] k = "register" -> "search"
                      [] OTHER -> "check"
<1>2. /\ k \in {"login", "register", "apply", "remove", "list", "test"}
      /\ k \in {"login", "register"} => x \in User
      /\ k \in {"apply", "remove"} => x \in Device
      /\ x \in User \union Device \union {NoOne}
  BY WebSessionAssumption DEF Subject
<1>3. /\ there \in {"login", "search", "check"}
      /\ there \in {"login", "search"} => k \in {"login", "register"}
      /\ there = "check" => k \in {"apply", "remove", "list", "test"}
  BY <1>2
<1>4. [browser |-> b, kind |-> k, of |-> x, jar |-> cookie[b]] \in Asked
  BY <1>2 DEF IInv, TypeOK, Asked
<1>5. req' \in [Request -> Asked]
  BY <1>1, <1>4 DEF IInv, TypeOK
<1>6. there \in Steps /\ Goto(r, there)
  BY <1>1, <1>3 DEF Steps
<1>7. /\ step' \in [Request -> Steps]
      /\ step'[r] = there
      /\ \A q \in Request : q # r => step'[q] = step[q] /\ req'[q] = req[q]
      /\ req'[r].kind = k /\ req'[r].of = x
  BY <1>1, <1>6, Moves DEF IInv, TypeOK
<1>8. TypeOK'
  <2>1. step' \in [Request -> Steps] /\ req' \in [Request -> Asked]
    BY <1>5, <1>7
  <2>2. name' \in [Request -> Name]
    BY DEF IInv, TypeOK, Send, Name
  <2>3. /\ refused' \in [Request -> BOOLEAN]
        /\ answer' \in [Request -> {"none", "page", "index", "login", "devices"}]
        /\ shown' \in [Request -> SUBSET Device]
    BY DEF IInv, TypeOK, Send
  <2>4. /\ user' = user /\ LoginFlag' = LoginFlag /\ cookie' = cookie
        /\ users' = users /\ userdevice' = userdevice
    BY DEF Send, tables
  <2>5. late' \in 0 .. MaxLate
    BY WebSessionAssumption DEF Send, IInv, TypeOK
  <2> QED
    BY <2>1, <2>2, <2>3, <2>4, <2>5 DEF IInv, TypeOK, Steps
<1>9. OfItsKind' /\ Checked'
  BY <1>2, <1>3, <1>7 DEF IInv, OfItsKind, Checked
<1> QED
  BY <1>8, <1>9 DEF IInv

(* A step by which a request moves on and the rest keeps its type.          *)
LEMMA TypesKept ==
    ASSUME TypeOK, NEW r \in Request, NEW there \in Steps, Goto(r, there),
           req' = req,
           user' \in Name, LoginFlag' \in BOOLEAN,
           users' \in [User -> Nat],
           userdevice' \in [Name -> [Device -> Nat]],
           cookie' \in [Browser -> SUBSET User],
           name' \in [Request -> Name],
           refused' \in [Request -> BOOLEAN],
           answer' \in [Request -> {"none", "page", "index", "login", "devices"}],
           shown' \in [Request -> SUBSET Device],
           late' = late
    PROVE  TypeOK'
<1>1. step' \in [Request -> Steps]
  BY Moves
<1>2. req' \in [Request -> Asked]
  BY DEF TypeOK
<1> QED
  BY <1>1, <1>2 DEF TypeOK, Steps

LEMMA LoginStep ==
    ASSUME IInv, NEW r \in Request,
           LoginIn(r) \/ SetUser(r) \/ SearchUser(r) \/ InsertUser(r)
    PROVE  IInv'
<1> USE DEF Steps
<1>1. req[r] \in Asked
  BY DEF IInv, TypeOK
<1>2. req[r].jar \in SUBSET User /\ req[r].browser \in Browser
  BY <1>1 DEF Asked
<1>3. ASSUME LoginIn(r) PROVE IInv'
  <2>1. req[r].of \in User
    BY <1>3 DEF LoginIn, IInv, OfItsKind
  <2>2. PICK there \in {"assign", "idle"} : Goto(r, there)
    BY <1>3 DEF LoginIn
  <2>3. cookie' \in [Browser -> SUBSET User]
    BY <1>2, <1>3, <2>1 DEF LoginIn, IInv, TypeOK
  <2>4. answer' \in [Request -> {"none", "page", "index", "login", "devices"}]
    BY <1>3 DEF LoginIn, IInv, TypeOK
  <2>5. /\ user' = user /\ LoginFlag' = LoginFlag /\ users' = users
        /\ userdevice' = userdevice /\ req' = req /\ name' = name
        /\ refused' = refused /\ shown' = shown /\ late' = late
    BY <1>3 DEF LoginIn, tables
  <2>6. TypeOK'
    BY <2>2, <2>3, <2>4, <2>5, TypesKept DEF IInv, TypeOK
  <2> QED
    BY <2>1, <2>2, <2>5, <2>6, SameRequests
<1>4. ASSUME SetUser(r) PROVE IInv'
  <2>1. req[r].of \in User
    BY <1>4 DEF SetUser, IInv, OfItsKind
  <2>2. /\ Goto(r, "idle") /\ user' = req[r].of /\ LoginFlag' = LoginFlag
        /\ users' = users /\ userdevice' = userdevice /\ cookie' = cookie
        /\ req' = req /\ name' = name /\ refused' = refused /\ shown' = shown
        /\ answer' = [answer EXCEPT ![r] = "page"] /\ late' = late
    BY <1>4 DEF SetUser, tables
  <2>3. user' \in Name
    BY <2>1, <2>2 DEF Name
  <2>4. TypeOK'
    BY <2>2, <2>3, TypesKept DEF IInv, TypeOK
  <2> QED
    BY <2>2, <2>4, SameRequests
<1>5. ASSUME SearchUser(r) PROVE IInv'
  <2>1. req[r].of \in User
    BY <1>5 DEF SearchUser, IInv, OfItsKind
  <2>2. PICK there \in {"idle", "insert"} : Goto(r, there)
    BY <1>5 DEF SearchUser
  <2>3. UNCHANGED <<user, LoginFlag, users, userdevice, cookie, req, name, refused,
                    answer, shown, late>>
    BY <1>5 DEF SearchUser, tables, local
  <2>4. TypeOK'
    BY <2>2, <2>3, TypesKept DEF IInv, TypeOK
  <2> QED
    BY <2>1, <2>2, <2>3, <2>4, SameRequests
<1>6. ASSUME InsertUser(r) PROVE IInv'
  <2>1. UNCHANGED <<user, LoginFlag, userdevice, cookie, req, name, refused, answer,
                    shown, late>> /\ Goto(r, "idle")
    BY <1>6 DEF InsertUser, local
  <2>2. users' \in [User -> Nat]
    <3>1. /\ req[r].of \in User
          /\ users \in [User -> Nat]
          /\ users' = [users EXCEPT ![req[r].of] = @ + 1]
      BY <1>6 DEF InsertUser, IInv, TypeOK, OfItsKind
    <3> QED
      BY <3>1
  <2>3. TypeOK'
    BY <2>1, <2>2, TypesKept DEF IInv, TypeOK
  <2> QED
    BY <2>1, <2>3, SameRequests
<1> QED
  BY <1>3, <1>4, <1>5, <1>6

(* The session check and the reads of user's name.                          *)
LEMMA CheckStep ==
    ASSUME IInv, NEW r \in Request, Accept(r) \/ Refuse(r) \/ TakeName(r)
    PROVE  IInv'
<1> USE DEF Steps
<1>1. ASSUME Accept(r) PROVE IInv'
  <2>1. CASE Asks(r, "list")
    <3>1. Goto(r, "list") /\ UNCHANGED <<user, LoginFlag, users, userdevice, cookie,
                                        req, name, refused, answer, shown, late>>
      BY <1>1, <2>1 DEF Accept, tables, local
    <3>2. TypeOK'
      BY <3>1, TypesKept DEF IInv, TypeOK
    <3> QED
      BY <3>1, <3>2, SameRequests
  <2>2. CASE ~ Asks(r, "list")
    <3>1. /\ Goto(r, "name") /\ step[r] = "check"
          /\ UNCHANGED <<user, LoginFlag, users, userdevice, cookie, req, name,
                         refused, answer, shown, late>>
      BY <1>1, <2>2 DEF Accept, tables, local
    <3>2. TypeOK'
      BY <3>1, TypesKept DEF IInv, TypeOK
    <3> QED
      BY <2>2, <3>1, <3>2, SameRequests
  <2> QED
    BY <2>1, <2>2
<1>2. ASSUME Refuse(r) PROVE IInv'
  <2>1. PICK there \in {"flag", "idle", "list"} : Goto(r, there)
    <3> DEFINE next == CASE Asks(r, "apply") -> "flag"
                         [] Asks(r, "test") -> "idle"
                         [] OTHER -> "list"
    <3>1. Goto(r, next)
      BY <1>2 DEF Refuse
    <3>2. next \in {"flag", "idle", "list"}
      BY DEF Asks
    <3> QED
      BY <3>1, <3>2
  <2>2. UNCHANGED <<user, users, userdevice, cookie, req, name, shown, late>>
    BY <1>2 DEF Refuse, tables
  <2>3. LoginFlag' \in BOOLEAN
    BY <1>2 DEF Refuse, IInv, TypeOK
  <2>4. /\ answer' \in [Request -> {"none", "page", "index", "login", "devices"}]
        /\ refused' \in [Request -> BOOLEAN]
    BY <1>2 DEF Refuse, IInv, TypeOK
  <2>5. TypeOK'
    BY <2>1, <2>2, <2>3, <2>4, TypesKept DEF IInv, TypeOK
  <2> QED
    BY <2>1, <2>2, <2>5, SameRequests
<1>3. ASSUME TakeName(r) PROVE IInv'
  <2> DEFINE next == IF step[r] = "list" \/ Asks(r, "test") THEN "read"
                     ELSE IF Asks(r, "apply") THEN "find" ELSE "delete"
  <2>1. PICK n \in NameReads : name' = [name EXCEPT ![r] = n]
    BY <1>3 DEF TakeName
  <2>2. Goto(r, next) /\ step[r] \in {"name", "list"}
    BY <1>3 DEF TakeName
  <2>3. /\ next \in {"read", "find", "delete"}
        /\ next # "read" => /\ step[r] # "list"
                            /\ ~ Asks(r, "test")
    OBVIOUS
  <2>4. next # "read" => req[r].of \in Device
    BY <2>2, <2>3 DEF IInv, OfItsKind, Asks
  <2>5. UNCHANGED <<user, LoginFlag, users, userdevice, cookie, req, refused, answer,
                    shown, late>>
    BY <1>3 DEF TakeName, tables
  <2>6. name' \in [Request -> Name]
    BY <2>1, NameReadsAreNames DEF IInv, TypeOK
  <2> HIDE DEF next
  <2>7. TypeOK'
    BY <2>2, <2>3, <2>5, <2>6, TypesKept DEF IInv, TypeOK
  <2> QED
    BY <2>2, <2>3, <2>4, <2>5, <2>7, SameRequests
<1> QED
  BY <1>1, <1>2, <1>3

(* The handlers' work on userdevice, and the handler between the two.       *)
LEMMA DeviceStep ==
    ASSUME IInv, NEW r \in Request,
           \/ FindUserDevice(r) \/ CreateUserDevice(r) \/ DeleteUserDevice(r)
           \/ CheckLoginFlag(r) \/ SendToIndex(r) \/ ReadDevices(r)
    PROVE  IInv'
<1> USE DEF Steps
<1>1. name[r] \in Name /\ userdevice \in [Name -> [Device -> Nat]]
  BY DEF IInv, TypeOK
<1>2. ASSUME FindUserDevice(r) \/ CheckLoginFlag(r) PROVE IInv'
  <2>1. UNCHANGED <<user, LoginFlag, users, userdevice, cookie, req, name, refused,
                    answer, shown, late>>
    BY <1>2 DEF FindUserDevice, CheckLoginFlag, tables, local
  <2>2. PICK there \in {"flag", "create", "reset", "list"} :
          /\ Goto(r, there)
          /\ there = "create" => step[r] = "find"
    BY <1>2 DEF FindUserDevice, CheckLoginFlag
  <2>3. there = "create" => req[r].of \in Device
    BY <2>2 DEF IInv, OfItsKind
  <2>4. TypeOK'
    BY <2>1, <2>2, TypesKept DEF IInv, TypeOK
  <2> QED
    BY <2>1, <2>2, <2>3, <2>4, SameRequests
<1>3. ASSUME CreateUserDevice(r) \/ DeleteUserDevice(r) PROVE IInv'
  <2>1. UNCHANGED <<user, LoginFlag, users, cookie, req, name, refused, answer, shown,
                    late>>
    BY <1>3 DEF CreateUserDevice, DeleteUserDevice, local
  <2>2. PICK there \in {"flag", "list"} : Goto(r, there)
    BY <1>3 DEF CreateUserDevice, DeleteUserDevice
  <2>3. req[r].of \in Device
    BY <1>3 DEF CreateUserDevice, DeleteUserDevice, IInv, OfItsKind
  <2>4. userdevice' \in [Name -> [Device -> Nat]]
    BY <1>1, <1>3, <2>3 DEF CreateUserDevice, DeleteUserDevice
  <2>5. TypeOK'
    BY <2>1, <2>2, <2>4, TypesKept DEF IInv, TypeOK
  <2> QED
    BY <2>1, <2>2, <2>5, SameRequests
<1>4. ASSUME SendToIndex(r) \/ ReadDevices(r) PROVE IInv'
  <2>1. /\ UNCHANGED <<user, users, userdevice, cookie, req, name, refused, late>>
        /\ Goto(r, "idle")
    BY <1>4 DEF SendToIndex, ReadDevices, tables
  <2>2. LoginFlag' \in BOOLEAN
    BY <1>4 DEF SendToIndex, ReadDevices, IInv, TypeOK
  <2>3. /\ answer' \in [Request -> {"none", "page", "index", "login", "devices"}]
        /\ shown' \in [Request -> SUBSET Device]
    BY <1>4 DEF SendToIndex, ReadDevices, IInv, TypeOK
  <2>4. TypeOK'
    BY <2>1, <2>2, <2>3, TypesKept DEF IInv, TypeOK
  <2> QED
    BY <2>1, <2>4, SameRequests
<1> QED
  BY <1>2, <1>3, <1>4

LEMMA InvariantInit == Init => IInv
<1> SUFFICES ASSUME Init PROVE IInv
  OBVIOUS
<1>1. PICK b \in Browser : \E k \in Kind : \E x \in Subject(k) :
        req = [r \in Request |-> [browser |-> b, kind |-> k, of |-> x, jar |-> {}]]
  BY DEF Init
<1>2. PICK k \in Kind : \E x \in Subject(k) :
        req = [r \in Request |-> [browser |-> b, kind |-> k, of |-> x, jar |-> {}]]
  BY <1>1
<1>3. PICK x \in Subject(k) :
        req = [r \in Request |-> [browser |-> b, kind |-> k, of |-> x, jar |-> {}]]
  BY <1>2
<1>4. x \in User \union Device \union {NoOne}
  BY WebSessionAssumption DEF Subject
<1>5. [browser |-> b, kind |-> k, of |-> x, jar |-> {}] \in Asked
  BY <1>4 DEF Asked
<1>6. req \in [Request -> Asked]
  BY <1>3, <1>5
<1>7. PICK rows \in [User -> [Device -> {0, 1}]] :
        userdevice = [n \in Name |-> IF n \in User THEN rows[n]
                                    ELSE [d \in Device |-> 0]]
  BY DEF Init
<1>8. userdevice \in [Name -> [Device -> Nat]]
  <2>1. \A n \in Name : (IF n \in User THEN rows[n] ELSE [d \in Device |-> 0])
                        \in [Device -> Nat]
    BY <1>7
  <2> QED
    BY <1>7, <2>1
<1>9. TypeOK
  <2>1. cookie \in [Browser -> SUBSET User]
    BY DEF Init
  <2>2. users \in [User -> Nat]
    <3>1. users \in [User -> {0, 1}]
      BY DEF Init
    <3> QED
      BY <3>1
  <2>3. /\ step \in [Request -> Steps]
        /\ name \in [Request -> Name]
        /\ refused \in [Request -> BOOLEAN]
        /\ answer \in [Request -> {"none", "page", "index", "login", "devices"}]
        /\ shown \in [Request -> SUBSET Device]
    BY DEF Init, Steps, Name
  <2>4. user \in Name /\ LoginFlag \in BOOLEAN
    BY DEF Init, Name
  <2>5. late \in 0 .. MaxLate
    BY WebSessionAssumption DEF Init
  <2> QED
    BY <1>6, <1>8, <2>1, <2>2, <2>3, <2>4, <2>5 DEF TypeOK, Steps
<1>10. OfItsKind /\ Checked
  BY DEF Init, OfItsKind, Checked
<1> QED
  BY <1>9, <1>10 DEF IInv

LEMMA InvariantStep == IInv /\ [Next]_vars => IInv'
<1> SUFFICES ASSUME IInv, [Next]_vars PROVE IInv'
  OBVIOUS
<1>1. CASE UNCHANGED vars
  BY <1>1 DEF vars, tables, local, IInv, TypeOK, OfItsKind, Checked
<1>2. CASE Next
  BY <1>2, SendStep, LoginStep, CheckStep, DeviceStep DEF Next
<1> QED
  BY <1>1, <1>2

(* Every variable of the session handling keeps its type (main.go 98-168,   *)
(* User.go 108-223); no row is ever deleted that is not there.              *)
THEOREM WebTypeCorrect == Spec => []TypeOK
<1>1. IInv => TypeOK
  BY DEF IInv
<1> QED
  BY <1>1, InvariantInit, InvariantStep, PTL DEF Spec

-----------------------------------------------------------------------------
(* LoginFlag (User.go:36, main.go:133-135) is up only while a request is on *)
(* its way to lower it: each request that raises it goes to the handler     *)
(* behind, and one that sees it lowers it.                                  *)
LEMMA FlagStep == IInv /\ FlagIsTaken /\ [Next]_vars => FlagIsTaken'
<1> SUFFICES ASSUME IInv, FlagIsTaken, [Next]_vars PROVE FlagIsTaken'
  OBVIOUS
<1> USE DEF FlagIsTaken
<1>1. CASE UNCHANGED vars
  BY <1>1 DEF vars, local
<1>2. ASSUME NEW r \in Request,
             step[r] \notin {"flag", "reset"},
             \E there : Goto(r, there),
             LoginFlag' = LoginFlag,
             \A q \in Request : q # r => refused'[q] = refused[q]
      PROVE  FlagIsTaken'
  <2>1. \A q \in Request : q # r => step'[q] = step[q]
    BY <1>2 DEF Goto, IInv, TypeOK
  <2> QED
    BY <1>2, <2>1
<1>3. ASSUME NEW r \in Request, Send(r) PROVE FlagIsTaken'
  <2>1. step[r] = "idle" /\ LoginFlag' = LoginFlag
    BY <1>3 DEF Send
  <2>2. \E there : Goto(r, there)
    BY <1>3 DEF Send
  <2>3. \A q \in Request : q # r => refused'[q] = refused[q]
    BY <1>3 DEF Send, IInv, TypeOK
  <2> QED
    BY <1>2, <2>1, <2>2, <2>3
<1>4. ASSUME NEW r \in Request,
             \/ LoginIn(r) \/ SetUser(r) \/ SearchUser(r) \/ InsertUser(r)
             \/ Accept(r) \/ TakeName(r) \/ FindUserDevice(r)
             \/ CreateUserDevice(r) \/ DeleteUserDevice(r) \/ ReadDevices(r)
      PROVE  FlagIsTaken'
  <2>1. /\ step[r] \notin {"flag", "reset"}
        /\ LoginFlag' = LoginFlag
        /\ refused' = refused
    BY <1>4 DEF LoginIn, SetUser, SearchUser, InsertUser, Accept, TakeName,
                FindUserDevice, CreateUserDevice, DeleteUserDevice, ReadDevices,
                local
  <2>2. \E there : Goto(r, there)
    BY <1>4 DEF LoginIn, SetUser, SearchUser, InsertUser, Accept, TakeName,
                FindUserDevice, CreateUserDevice, DeleteUserDevice, ReadDevices
  <2> QED
    BY <1>2, <2>1, <2>2
<1>5. ASSUME NEW r \in Request, Refuse(r) PROVE FlagIsTaken'
  <2>1. /\ step[r] = "check"
        /\ refused' = [refused EXCEPT ![r] = TRUE]
        /\ LoginFlag' = (LoginFlag \/ Asks(r, "apply"))
    BY <1>5 DEF Refuse
  <2>2. \E there : Goto(r, there)
    BY <1>5 DEF Refuse
  <2>3. CASE ~ Asks(r, "apply")
    <3>1. LoginFlag' = LoginFlag
      BY <2>1, <2>3 DEF IInv, TypeOK
    <3>2. \A q \in Request : q # r => refused'[q] = refused[q]
      BY <2>1 DEF IInv, TypeOK
    <3> QED
      BY <1>2, <2>1, <2>2, <3>1, <3>2
  <2>4. CASE Asks(r, "apply")
    <3>1. Goto(r, "flag")
      <4> DEFINE next == CASE Asks(r, "apply") -> "flag"
                           [] Asks(r, "test") -> "idle"
                           [] OTHER -> "list"
      <4>1. Goto(r, next)
        BY <1>5 DEF Refuse
      <4>2. ~ Asks(r, "test")
        BY <2>4 DEF Asks
      <4>3. next = "flag"
        BY <2>4, <4>2
      <4> QED
        BY <4>1, <4>3
    <3>2. step'[r] = "flag" /\ refused'[r] = TRUE
      BY <2>1, <3>1 DEF Goto, IInv, TypeOK
    <3> QED
      BY <3>2
  <2> QED
    BY <2>3, <2>4
<1>6. ASSUME NEW r \in Request, CheckLoginFlag(r) PROVE FlagIsTaken'
  <2>1. LoginFlag' = LoginFlag /\ refused' = refused
    BY <1>6 DEF CheckLoginFlag, local
  <2>2. LoginFlag => step'[r] = "reset"
    BY <1>6 DEF CheckLoginFlag, Goto, IInv, TypeOK
  <2> QED
    BY <2>1, <2>2
<1>7. ASSUME NEW r \in Request, SendToIndex(r) PROVE FlagIsTaken'
  BY <1>7 DEF SendToIndex
<1> QED
  BY <1>1, <1>3, <1>4, <1>5, <1>6, <1>7 DEF Next

(* No application for a device is turned away because of a flag that an     *)
(* earlier request left behind, for any number of overlapping requests.     *)
THEOREM FlagTaken == Spec => []FlagIsTaken
<1>1. Init => FlagIsTaken
  BY DEF Init, FlagIsTaken
<1> QED
  BY <1>1, InvariantInit, InvariantStep, FlagStep, PTL DEF Spec

-----------------------------------------------------------------------------
(* As long as requests come one at a time, what a request has found out     *)
(* stays true until it acts on it.                                          *)
OneBusy ==
    \A q, r \in Request : step[q] # "idle" /\ step[r] # "idle" => q = r

StillTrue ==
    \A r \in Request :
        /\ step[r] = "insert" => users[req[r].of] = 0
        /\ step[r] = "create" => userdevice[name[r]][req[r].of] = 0
        /\ step[r] = "name" => user \in req[r].jar
        /\ step[r] \in {"find", "create", "delete"} => name[r] \in req[r].jar

RowsOnce ==
    /\ \A u \in User : users[u] <= 1
    /\ \A n \in Name, d \in Device : userdevice[n][d] <= 1

Alone == OneBusy /\ StillTrue /\ RowsOnce

LEMMA ReadsUser ==
    ASSUME OneBusy, NEW r \in Request, step[r] \notin {"idle", "assign"}
    PROVE  NameReads = {user}
<1>1. Assigning = {}
  BY DEF Assigning, OneBusy
<1>2. Cardinality({user}) = 1
  BY FS_Singleton
<1> DEFINE names == {user} \union {req[q].of : q \in Assigning}
<1>3. names = {user}
  BY <1>1
<1>4. NameReads = IF Cardinality(names) > 1 THEN names \union {NoOne} ELSE names
  BY DEF NameReads
<1> HIDE DEF names
<1> QED
  BY <1>2, <1>3, <1>4

LEMMA OthersIdle ==
    ASSUME TypeOK, OneBusy, NEW r \in Request, NEW there \in Steps, Goto(r, there),
           step[r] # "idle" \/ \A q \in Request : step[q] = "idle"
    PROVE  /\ step'[r] = there
           /\ \A q \in Request : q # r => step'[q] = "idle"
           /\ OneBusy'
<1>1. /\ step'[r] = there
      /\ \A q \in Request : q # r => step'[q] = step[q]
  BY Moves
<1>2. \A q \in Request : q # r => step[q] = "idle"
  BY DEF OneBusy
<1> QED
  BY <1>1, <1>2 DEF OneBusy

(* Steps that leave the tables alone and lead to where nothing is known.    *)
LEMMA NothingFoundOut ==
    ASSUME TypeOK, Alone, NEW r \in Request, NEW there \in Steps, Goto(r, there),
           step[r] # "idle" \/ \A q \in Request : step[q] = "idle",
           UNCHANGED tables,
           there \notin {"insert", "create", "name", "find", "delete"}
    PROVE  Alone'
<1>1. OneBusy' /\ \A q \in Request : step'[q] \in {"idle", there}
  BY OthersIdle DEF Alone
<1>2. StillTrue'
  BY <1>1 DEF StillTrue
<1> QED
  BY <1>1, <1>2 DEF Alone, RowsOnce, tables

LEMMA UserStep ==
    ASSUME IInv, Alone, NEW r \in Request,
           LoginIn(r) \/ SetUser(r) \/ SearchUser(r) \/ InsertUser(r)
    PROVE  Alone'
<1> USE DEF Steps
<1>1. /\ users \in [User -> Nat] /\ TypeOK /\ OneBusy
      /\ step[r] # "idle"
  BY DEF IInv, TypeOK, Alone, LoginIn, SetUser, SearchUser, InsertUser
<1>2. CASE LoginIn(r) \/ SetUser(r)
  <2>1. PICK there \in {"assign", "idle"} : Goto(r, there)
    BY <1>2 DEF LoginIn, SetUser
  <2>2. UNCHANGED tables
    BY <1>2 DEF LoginIn, SetUser, tables
  <2> QED
    BY <1>1, <2>1, <2>2, NothingFoundOut
<1>3. CASE SearchUser(r)
  <2>1. users[req[r].of] \in Nat
    BY <1>1, <1>3 DEF SearchUser, IInv, OfItsKind
  <2>2. PICK there \in {"idle", "insert"} :
          Goto(r, there) /\ (there = "insert" => ~ users[req[r].of] > 0)
    BY <1>3 DEF SearchUser
  <2>3. UNCHANGED <<users, userdevice, req>>
    BY <1>3 DEF SearchUser, tables, local
  <2>4. /\ step'[r] = there
        /\ \A q \in Request : q # r => step'[q] = "idle"
        /\ OneBusy'
    BY <1>1, <2>2, OthersIdle
  <2>5. StillTrue'
    BY <2>1, <2>2, <2>3, <2>4 DEF StillTrue
  <2> QED
    BY <2>3, <2>4, <2>5 DEF Alone, RowsOnce
<1>4. CASE InsertUser(r)
  <2>1. /\ req[r].of \in User
        /\ users[req[r].of] = 0
        /\ users' = [users EXCEPT ![req[r].of] = @ + 1]
        /\ userdevice' = userdevice
        /\ Goto(r, "idle")
    BY <1>4 DEF InsertUser, IInv, OfItsKind, Alone, StillTrue
  <2>2. RowsOnce'
    BY <1>1, <2>1 DEF Alone, RowsOnce
  <2>3. OneBusy' /\ \A q \in Request : step'[q] = "idle"
    BY <1>1, <2>1, OthersIdle
  <2> QED
    BY <2>2, <2>3 DEF Alone, StillTrue
<1> QED
  BY <1>2, <1>3, <1>4

LEMMA SessionStep ==
    ASSUME IInv, Alone, NEW r \in Request, Accept(r) \/ Refuse(r) \/ TakeName(r)
    PROVE  Alone'
<1> USE DEF Steps
<1>1. TypeOK /\ OneBusy /\ step[r] \notin {"idle", "assign"}
  BY DEF IInv, Alone, Accept, Refuse, TakeName
<1>2. NameReads = {user}
  BY <1>1, ReadsUser
<1>3. CASE Accept(r)
  <2>1. user \in req[r].jar
    BY <1>2, <1>3 DEF Accept
  <2>2. PICK there \in {"list", "name"} : Goto(r, there)
    BY <1>3 DEF Accept
  <2>3. UNCHANGED <<users, userdevice, req, user>>
    BY <1>3 DEF Accept, tables, local
  <2>4. /\ step'[r] = there
        /\ \A q \in Request : q # r => step'[q] = "idle"
        /\ OneBusy'
    BY <1>1, <2>2, OthersIdle
  <2>5. StillTrue'
    BY <2>1, <2>3, <2>4 DEF StillTrue
  <2> QED
    BY <2>3, <2>4, <2>5 DEF Alone, RowsOnce
<1>4. CASE Refuse(r)
  <2> DEFINE next == CASE Asks(r, "apply") -> "flag"
                       [] Asks(r, "test") -> "idle"
                       [] OTHER -> "list"
  <2>1. Goto(r, next) /\ UNCHANGED tables
    BY <1>4 DEF Refuse, tables
  <2>2. next \in {"flag", "idle", "list"}
    OBVIOUS
  <2> HIDE DEF next
  <2> QED
    BY <1>1, <2>1, <2>2, NothingFoundOut
<1>5. CASE TakeName(r)
  <2>1. name'[r] = user
    BY <1>2, <1>5 DEF TakeName, IInv, TypeOK
  <2>2. PICK there \in {"read", "find", "delete"} :
          Goto(r, there) /\ (there # "read" => step[r] = "name")
    BY <1>5 DEF TakeName
  <2>3. UNCHANGED <<users, userdevice, req, user>>
    BY <1>5 DEF TakeName, tables
  <2>4. /\ step'[r] = there
        /\ \A q \in Request : q # r => step'[q] = "idle"
        /\ OneBusy'
    BY <1>1, <2>2, OthersIdle
  <2>5. StillTrue'
    BY <2>1, <2>2, <2>3, <2>4 DEF Alone, StillTrue
  <2> QED
    BY <2>3, <2>4, <2>5 DEF Alone, RowsOnce
<1> QED
  BY <1>3, <1>4, <1>5

LEMMA RowStep ==
    ASSUME IInv, Alone, NEW r \in Request,
           \/ FindUserDevice(r) \/ CreateUserDevice(r) \/ DeleteUserDevice(r)
           \/ CheckLoginFlag(r) \/ SendToIndex(r) \/ ReadDevices(r)
    PROVE  Alone'
<1> USE DEF Steps
<1>1. TypeOK /\ OneBusy /\ step[r] # "idle"
  BY DEF IInv, Alone, FindUserDevice, CreateUserDevice, DeleteUserDevice,
         CheckLoginFlag, SendToIndex, ReadDevices
<1>2. name[r] \in Name /\ userdevice \in [Name -> [Device -> Nat]]
  BY DEF IInv, TypeOK
<1>3. CASE FindUserDevice(r)
  <2>1. userdevice[name[r]][req[r].of] \in Nat
    BY <1>2, <1>3 DEF FindUserDevice, IInv, OfItsKind
  <2>2. PICK there \in {"flag", "create"} :
          /\ Goto(r, there)
          /\ there = "create" => ~ userdevice[name[r]][req[r].of] > 0
    BY <1>3 DEF FindUserDevice
  <2>3. UNCHANGED <<users, userdevice, req, name>> /\ step[r] = "find"
    BY <1>3 DEF FindUserDevice, tables, local
  <2>4. /\ step'[r] = there
        /\ \A q \in Request : q # r => step'[q] = "idle"
        /\ OneBusy'
    BY <1>1, <2>2, OthersIdle
  <2>5. StillTrue'
    BY <2>1, <2>2, <2>3, <2>4 DEF Alone, StillTrue
  <2> QED
    BY <2>3, <2>4, <2>5 DEF Alone, RowsOnce
<1>4. CASE CreateUserDevice(r) \/ DeleteUserDevice(r)
  <2>1. /\ req[r].of \in Device
        /\ users' = users
    BY <1>4 DEF CreateUserDevice, DeleteUserDevice, IInv, OfItsKind
  <2>2. PICK there \in {"flag", "list"} : Goto(r, there)
    BY <1>4 DEF CreateUserDevice, DeleteUserDevice
  <2>3. \/ /\ userdevice[name[r]][req[r].of] = 0
           /\ userdevice' = [userdevice EXCEPT ![name[r]][req[r].of] = @ + 1]
        \/ userdevice' = [userdevice EXCEPT ![name[r]][req[r].of] = 0]
    BY <1>4 DEF CreateUserDevice, DeleteUserDevice, Alone, StillTrue
  <2>4. RowsOnce'
    BY <1>2, <2>1, <2>3 DEF Alone, RowsOnce
  <2>5. OneBusy' /\ \A q \in Request : step'[q] \in {"idle", there}
    BY <1>1, <2>2, OthersIdle
  <2> QED
    BY <2>4, <2>5 DEF Alone, StillTrue
<1>5. CASE CheckLoginFlag(r) \/ SendToIndex(r) \/ ReadDevices(r)
  <2>1. PICK there \in {"reset", "list", "idle"} : Goto(r, there)
    BY <1>5 DEF CheckLoginFlag, SendToIndex, ReadDevices
  <2>2. UNCHANGED tables
    BY <1>5 DEF CheckLoginFlag, SendToIndex, ReadDevices, tables
  <2> QED
    BY <1>1, <2>1, <2>2, NothingFoundOut
<1> QED
  BY <1>3, <1>4, <1>5

AloneInv == OneAtATime => Alone

LEMMA AloneStep == IInv /\ AloneInv /\ [Next]_vars => AloneInv'
<1> SUFFICES ASSUME IInv, AloneInv, [Next]_vars, OneAtATime' PROVE Alone'
  BY DEF AloneInv
<1> USE DEF OneAtATime
<1>1. CASE UNCHANGED vars
  BY <1>1 DEF vars, tables, local, AloneInv, Alone, OneBusy, StillTrue, RowsOnce
<1>2. ASSUME NEW r \in Request, Send(r) PROVE Alone'
  <2>1. late = 0 /\ \A q \in Request : step[q] = "idle"
    BY <1>2 DEF Send, IInv, TypeOK
  <2>2. PICK there \in {"login", "search", "check"} : Goto(r, there)
    <3>1. PICK k \in Kind : Goto(r, CASE k = "login" -> "login"
                                     [] k = "register" -> "search"
                                     [] OTHER -> "check")
      BY <1>2 DEF Send
    <3>2. (CASE k = "login" -> "login" [] k = "register" -> "search"
             [] OTHER -> "check") \in {"login", "search", "check"}
      OBVIOUS
    <3> QED
      BY <3>1, <3>2
  <2>3. UNCHANGED tables
    BY <1>2 DEF Send, tables
  <2> QED
    BY <2>1, <2>2, <2>3, NothingFoundOut DEF Steps, IInv, AloneInv
<1>3. ASSUME NEW r \in Request,
             \/ LoginIn(r) \/ SetUser(r) \/ SearchUser(r) \/ InsertUser(r)
             \/ Accept(r) \/ Refuse(r) \/ TakeName(r)
             \/ FindUserDevice(r) \/ CreateUserDevice(r) \/ DeleteUserDevice(r)
             \/ CheckLoginFlag(r) \/ SendToIndex(r) \/ ReadDevices(r)
      PROVE  Alone'
  <2>1. late' = late
    BY <1>3 DEF LoginIn, SetUser, SearchUser, InsertUser, Accept, Refuse, TakeName,
       FindUserDevice, CreateUserDevice, DeleteUserDevice, CheckLoginFlag,
       SendToIndex, ReadDevices, local
  <2>2. Alone
    BY <2>1 DEF AloneInv
  <2> QED
    BY <1>3, <2>2, UserStep, SessionStep, RowStep
<1> QED
  BY <1>1, <1>2, <1>3 DEF Next

LEMMA AloneInit == Init => AloneInv
<1> SUFFICES ASSUME Init PROVE Alone
  BY DEF AloneInv
<1>1. OneBusy /\ StillTrue
  BY DEF Init, OneBusy, StillTrue
<1>2. PICK rows \in [User -> [Device -> {0, 1}]] :
        userdevice = [n \in Name |-> IF n \in User THEN rows[n]
                                    ELSE [d \in Device |-> 0]]
  BY DEF Init
<1>3. \A n \in Name, d \in Device : userdevice[n][d] \in {0, 1}
  BY <1>2
<1>4. \A u \in User : users[u] <= 1
  BY DEF Init
<1> QED
  BY <1>1, <1>3, <1>4 DEF Alone, RowsOnce

(* Requests one at a time: nobody is registered twice (User.go:79),         *)
(* whatever the browsers send and in any order.                             *)
THEOREM RegisteredOnceWhenAlone == Spec => []RegisteredOnce
<1>1. AloneInv => RegisteredOnce
  BY DEF AloneInv, Alone, RowsOnce, RegisteredOnce
<1> QED
  BY <1>1, AloneInit, AloneStep, InvariantInit, InvariantStep, PTL DEF Spec

(* Requests one at a time: nothing is applied for twice (User.go:181).      *)
THEOREM AppliedOnceWhenAlone == Spec => []AppliedOnce
<1>1. AloneInv => AppliedOnce
  BY DEF AloneInv, Alone, RowsOnce, AppliedOnce
<1> QED
  BY <1>1, AloneInit, AloneStep, InvariantInit, InvariantStep, PTL DEF Spec

(* Requests one at a time: the devices of a user change only at the request *)
(* of a browser in which this user logged in (User.go:150-168, 197-211),    *)
(* although the handlers act for the one user of all.                       *)
THEOREM OwnUserWhenAlone == Spec => ActsForOwnUser
<1>1. IInv /\ AloneInv /\ [Next]_vars => [OneAtATime => ChangesOwnUser]_vars
  <2> SUFFICES ASSUME IInv, Alone, Next PROVE ChangesOwnUser
    BY DEF vars, AloneInv
  <2>1. ASSUME NEW r \in Request, CreateUserDevice(r) \/ DeleteUserDevice(r)
        PROVE  ChangesOwnUser
    <3>1. step[r] \in {"create", "delete"} /\ name[r] \in req[r].jar
      BY <2>1 DEF CreateUserDevice, DeleteUserDevice, Alone, StillTrue
    <3>2. \A n \in Name : n # name[r] => userdevice'[n] = userdevice[n]
      BY <2>1 DEF CreateUserDevice, DeleteUserDevice, IInv, TypeOK
    <3> QED
      BY <3>1, <3>2 DEF ChangesOwnUser
  <2>2. CASE userdevice' = userdevice
    BY <2>2 DEF ChangesOwnUser
  <2> QED
    BY <2>1, <2>2 DEF Next, Send, LoginIn, SetUser, SearchUser, InsertUser, Accept,
       Refuse, TakeName, FindUserDevice, CheckLoginFlag, SendToIndex, ReadDevices,
       tables, local
<1> QED
  BY <1>1, AloneInit, AloneStep, InvariantInit, InvariantStep, PTL
     DEF Spec, ActsForOwnUser
-----------------------------------------------------------------------------
(* A change that was accepted is in the table until the list that answers   *)
(* it is read, because it is made, and looked up, for the name in `user`.   *)
HeldOf(r) ==
    ~ refused[r] =>
        /\ step[r] \in {"find", "create", "delete"} => name[r] = user
        /\ step[r] \in {"find", "create", "flag"} => Asks(r, "apply")
        /\ step[r] = "delete" => ~ Asks(r, "apply")
        /\ Asks(r, "apply") /\ step[r] \in {"flag", "reset", "list"}
              => userdevice[user][req[r].of] > 0
        /\ Asks(r, "apply") /\ step[r] \in {"flag", "reset", "list", "read"}
              => req[r].of \in Device
        /\ Asks(r, "remove") /\ step[r] = "list" => userdevice[user][req[r].of] = 0
        /\ Asks(r, "apply") /\ step[r] = "read" => userdevice[name[r]][req[r].of] > 0
        /\ Asks(r, "remove") /\ step[r] = "read" => userdevice[name[r]][req[r].of] = 0

(* What an answer says of the change that it answers.                       *)
ShownOf(r) ==
    answer[r] = "devices" /\ ~ refused[r]
        => /\ Asks(r, "apply") => req[r].of \in shown[r]
           /\ Asks(r, "remove") => req[r].of \notin shown[r]

Kept == \A r \in Request : HeldOf(r) /\ ShownOf(r)

(* It is enough to look at the request that acts: the others are idle, and  *)
(* their answers stay.                                                      *)
LEMMA KeptByOthers ==
    ASSUME TypeOK, OneBusy, Kept, NEW r \in Request, NEW there \in Steps, Goto(r, there),
           step[r] # "idle" \/ \A q \in Request : step[q] = "idle",
           \A q \in Request : q # r => /\ refused'[q] = refused[q]
                                       /\ answer'[q] = answer[q]
                                       /\ shown'[q] = shown[q]
                                       /\ req'[q] = req[q],
           step'[r] = there => HeldOf(r)' /\ ShownOf(r)'
    PROVE  Kept'
<1>1. /\ step'[r] = there
      /\ \A q \in Request : q # r => step'[q] = "idle"
  BY OthersIdle
<1>2. ASSUME NEW q \in Request, q # r PROVE HeldOf(q)' /\ ShownOf(q)'
  <2>1. HeldOf(q)'
    BY <1>1, <1>2 DEF HeldOf
  <2>2. ShownOf(q)'
    BY <1>2 DEF Kept, ShownOf, Asks
  <2> QED
    BY <2>1, <2>2
<1> QED
  BY <1>1, <1>2 DEF Kept

(* The steps before the rows of userdevice are touched.                     *)
LEMMA KeptBefore ==
    ASSUME IInv, Alone, Kept, NEW r \in Request,
           \/ LoginIn(r) \/ SetUser(r) \/ SearchUser(r) \/ InsertUser(r)
           \/ Accept(r) \/ Refuse(r)
    PROVE  Kept'
<1> USE DEF Steps
<1>1. TypeOK /\ OneBusy
  BY DEF IInv, Alone
<1>2. HeldOf(r) /\ ShownOf(r)
  BY DEF Kept
<1>3. CASE LoginIn(r) \/ SetUser(r)
  <2>1. step[r] # "idle" /\ \E there \in {"assign", "idle"} : Goto(r, there)
    BY <1>3 DEF LoginIn, SetUser
  <2>2. PICK there \in {"assign", "idle"} : Goto(r, there)
    BY <2>1
  <2>3. UNCHANGED <<refused, shown, req>>
    BY <1>3 DEF LoginIn, SetUser
  <2>4. \A q \in Request : q # r => answer'[q] = answer[q]
    BY <1>1, <1>3 DEF LoginIn, SetUser, TypeOK
  <2>5. answer'[r] = answer[r] \/ answer'[r] \in {"login", "page"}
    BY <1>1, <1>3 DEF LoginIn, SetUser, TypeOK
  <2>6. step'[r] = there => HeldOf(r)' /\ ShownOf(r)'
    BY <1>2, <2>3, <2>5 DEF HeldOf, ShownOf, Asks
  <2> QED
    BY <1>1, <2>1, <2>2, <2>3, <2>4, <2>6, KeptByOthers
<1>4. CASE SearchUser(r) \/ InsertUser(r)
  <2>1. step[r] # "idle" /\ \E there \in {"insert", "idle"} : Goto(r, there)
    BY <1>4 DEF SearchUser, InsertUser
  <2>2. PICK there \in {"insert", "idle"} : Goto(r, there)
    BY <2>1
  <2>3. UNCHANGED <<refused, shown, req, answer>>
    BY <1>4 DEF SearchUser, InsertUser, local
  <2>4. step'[r] = there => HeldOf(r)' /\ ShownOf(r)'
    BY <1>2, <2>3 DEF HeldOf, ShownOf, Asks
  <2> QED
    BY <1>1, <2>1, <2>2, <2>3, <2>4, KeptByOthers
<1>5. CASE Accept(r)
  <2>1. /\ step[r] # "idle"
        /\ \E there \in {"list", "name"} :
              Goto(r, there) /\ (there = "list" => Asks(r, "list"))
    BY <1>5 DEF Accept
  <2>2. PICK there \in {"list", "name"} : Goto(r, there) /\ (there = "list" => Asks(r, "list"))
    BY <2>1
  <2>3. UNCHANGED <<refused, shown, req, answer>>
    BY <1>5 DEF Accept, local
  <2>4. step'[r] = there => HeldOf(r)' /\ ShownOf(r)'
    BY <1>2, <2>2, <2>3 DEF HeldOf, ShownOf, Asks
  <2> QED
    BY <1>1, <2>1, <2>2, <2>3, <2>4, KeptByOthers
<1>6. CASE Refuse(r)
  <2> DEFINE next == CASE Asks(r, "apply") -> "flag"
                       [] Asks(r, "test") -> "idle"
                       [] OTHER -> "list"
  <2>1. Goto(r, next) /\ step[r] # "idle"
    BY <1>6 DEF Refuse
  <2>2. next \in {"flag", "idle", "list"}
    OBVIOUS
  <2> HIDE DEF next
  <2>3. UNCHANGED <<shown, req>>
    BY <1>6 DEF Refuse
  <2>4. \A q \in Request : q # r => answer'[q] = answer[q] /\ refused'[q] = refused[q]
    BY <1>1, <1>6 DEF Refuse, TypeOK
  <2>5. refused'[r]
    BY <1>1, <1>6 DEF Refuse, TypeOK
  <2>6. HeldOf(r)' /\ ShownOf(r)'
    BY <2>5 DEF HeldOf, ShownOf
  <2> QED
    BY <1>1, <2>1, <2>2, <2>3, <2>4, <2>6, KeptByOthers
<1> QED
  BY <1>3, <1>4, <1>5, <1>6

(* The steps that change the rows, and those that read them.                *)
LEMMA KeptAfter ==
    ASSUME IInv, Alone, Kept, NEW r \in Request,
           \/ TakeName(r)
           \/ FindUserDevice(r) \/ CreateUserDevice(r) \/ DeleteUserDevice(r)
           \/ CheckLoginFlag(r) \/ SendToIndex(r) \/ ReadDevices(r)
    PROVE  Kept'
<1> USE DEF Steps
<1>1. TypeOK /\ OneBusy
  BY DEF IInv, Alone
<1>2. HeldOf(r) /\ ShownOf(r)
  BY DEF Kept
<1>3. name[r] \in Name /\ userdevice \in [Name -> [Device -> Nat]]
  BY <1>1 DEF TypeOK
<1>4. CASE TakeName(r)
  <2>1. step[r] \notin {"idle", "assign"}
    BY <1>4 DEF TakeName
  <2>2. name'[r] = user
    BY <1>1, <1>4, <2>1, ReadsUser DEF TakeName, TypeOK
  <2>3. PICK there \in {"read", "find", "delete"} :
          /\ Goto(r, there)
          /\ there = "find" => Asks(r, "apply") /\ step[r] = "name"
          /\ there = "delete" => ~ Asks(r, "apply")
          /\ there = "read" => step[r] = "list" \/ Asks(r, "test")
    BY <1>4 DEF TakeName
  <2>4. UNCHANGED <<userdevice, user, refused, shown, req, answer>>
    BY <1>4 DEF TakeName, tables
  <2>5. step'[r] = there => HeldOf(r)' /\ ShownOf(r)'
    <3>1. ShownOf(r)'
      BY <1>2, <2>4 DEF ShownOf, Asks
    <3>2. ASSUME step'[r] = there PROVE HeldOf(r)'
      BY <1>2, <2>2, <2>3, <2>4, <3>2 DEF HeldOf, Asks
    <3> QED
      BY <3>1, <3>2
  <2> QED
    BY <1>1, <2>1, <2>3, <2>4, <2>5, KeptByOthers
<1>5. CASE FindUserDevice(r)
  <2>1. /\ step[r] = "find"
        /\ UNCHANGED <<userdevice, user, name, refused, shown, req, answer>>
    BY <1>5 DEF FindUserDevice, tables, local
  <2>2. PICK there \in {"flag", "create"} :
          Goto(r, there) /\ (there = "flag" => userdevice[name[r]][req[r].of] > 0)
    BY <1>5 DEF FindUserDevice
  <2>3. ShownOf(r)'
    BY <1>2, <2>1 DEF ShownOf, Asks
  <2>4. req[r].of \in Device
    BY <2>1 DEF IInv, OfItsKind
  <2>5. ASSUME step'[r] = there PROVE HeldOf(r)'
    BY <1>2, <2>1, <2>2, <2>4, <2>5 DEF HeldOf, Asks
  <2> QED
    BY <1>1, <2>1, <2>2, <2>3, <2>5, KeptByOthers
<1>6. CASE CreateUserDevice(r)
  <2>1. /\ step[r] = "create" /\ Goto(r, "flag")
        /\ userdevice' = [userdevice EXCEPT ![name[r]][req[r].of] = @ + 1]
        /\ UNCHANGED <<user, name, refused, shown, req, answer>>
    BY <1>6 DEF CreateUserDevice, local
  <2>2. req[r].of \in Device
    BY <2>1 DEF IInv, OfItsKind
  <2>3. userdevice'[name[r]][req[r].of] > 0
    BY <1>3, <2>1, <2>2
  <2>4. ShownOf(r)'
    BY <1>2, <2>1 DEF ShownOf, Asks
  <2>5. ASSUME step'[r] = "flag" PROVE HeldOf(r)'
    BY <1>2, <2>1, <2>2, <2>3, <2>5 DEF HeldOf, Asks
  <2> QED
    BY <1>1, <2>1, <2>4, <2>5, KeptByOthers
<1>7. CASE DeleteUserDevice(r)
  <2>1. /\ step[r] = "delete" /\ Goto(r, "list")
        /\ userdevice' = [userdevice EXCEPT ![name[r]][req[r].of] = 0]
        /\ UNCHANGED <<user, name, refused, shown, req, answer>>
    BY <1>7 DEF DeleteUserDevice, local
  <2>2. req[r].of \in Device
    BY <2>1 DEF IInv, OfItsKind
  <2>3. userdevice'[name[r]][req[r].of] = 0
    BY <1>3, <2>1, <2>2
  <2>4. ShownOf(r)'
    BY <1>2, <2>1 DEF ShownOf, Asks
  <2>5. ASSUME step'[r] = "list" PROVE HeldOf(r)'
    BY <1>2, <2>1, <2>2, <2>3, <2>5 DEF HeldOf, Asks
  <2> QED
    BY <1>1, <2>1, <2>4, <2>5, KeptByOthers
<1>8. CASE CheckLoginFlag(r)
  <2>1. /\ step[r] = "flag"
        /\ UNCHANGED <<userdevice, user, name, refused, shown, req, answer>>
    BY <1>8 DEF CheckLoginFlag, tables, local
  <2>2. PICK there \in {"reset", "list"} : Goto(r, there)
    BY <1>8 DEF CheckLoginFlag
  <2>3. ShownOf(r)'
    BY <1>2, <2>1 DEF ShownOf, Asks
  <2>4. ASSUME step'[r] = there PROVE HeldOf(r)'
    BY <1>2, <2>1, <2>4 DEF HeldOf, Asks
  <2> QED
    BY <1>1, <2>1, <2>2, <2>3, <2>4, KeptByOthers
<1>9. CASE SendToIndex(r)
  <2>1. /\ step[r] = "reset" /\ Goto(r, "idle")
        /\ UNCHANGED <<refused, shown, req>>
    BY <1>9 DEF SendToIndex
  <2>2. answer'[r] = "index" /\ \A q \in Request : q # r => answer'[q] = answer[q]
    BY <1>1, <1>9 DEF SendToIndex, TypeOK
  <2>3. step'[r] = "idle" => HeldOf(r)' /\ ShownOf(r)'
    BY <2>2 DEF HeldOf, ShownOf
  <2> QED
    BY <1>1, <2>1, <2>2, <2>3, KeptByOthers
<1>10. CASE ReadDevices(r)
  <2>1. /\ step[r] = "read" /\ Goto(r, "idle")
        /\ UNCHANGED <<refused, req>>
    BY <1>10 DEF ReadDevices
  <2>2. /\ shown'[r] = {d \in Device : userdevice[name[r]][d] > 0}
        /\ \A q \in Request : q # r => shown'[q] = shown[q] /\ answer'[q] = answer[q]
    BY <1>1, <1>10 DEF ReadDevices, TypeOK
  <2>3. step'[r] = "idle" => HeldOf(r)'
    BY DEF HeldOf
  <2>4. ShownOf(r)'
    <3>1. SUFFICES ASSUME ~ refused[r]
                   PROVE  /\ Asks(r, "apply") => req[r].of \in shown'[r]
                          /\ Asks(r, "remove") => req[r].of \notin shown'[r]
      BY <2>1 DEF ShownOf, Asks
    <3>2. /\ Asks(r, "apply") => /\ req[r].of \in Device
                                 /\ userdevice[name[r]][req[r].of] > 0
          /\ Asks(r, "remove") => userdevice[name[r]][req[r].of] = 0
      BY <1>2, <2>1, <3>1 DEF HeldOf
    <3> QED
      BY <2>2, <3>2
  <2> QED
    BY <1>1, <2>1, <2>2, <2>3, <2>4, KeptByOthers
<1> QED
  BY <1>4, <1>5, <1>6, <1>7, <1>8, <1>9, <1>10

KeptInv == OneAtATime => Kept

LEMMA KeptStep == IInv /\ AloneInv /\ KeptInv /\ [Next]_vars => KeptInv'
<1> SUFFICES ASSUME IInv, AloneInv, KeptInv, [Next]_vars, OneAtATime' PROVE Kept'
  BY DEF KeptInv
<1> USE DEF OneAtATime
<1>1. CASE UNCHANGED vars
  BY <1>1 DEF vars, tables, KeptInv, Kept, HeldOf, ShownOf, Asks
<1>2. ASSUME NEW r \in Request, Send(r) PROVE Kept'
  <2>1. /\ late = 0
        /\ \A q \in Request : step[q] = "idle"
    BY <1>2 DEF Send, IInv, TypeOK
  <2>2. TypeOK /\ OneBusy /\ Kept
    BY <2>1 DEF IInv, AloneInv, Alone, KeptInv
  <2>3. PICK there \in {"login", "search", "check"} : Goto(r, there)
    <3>1. PICK k \in Kind : Goto(r, CASE k = "login" -> "login"
                                     [] k = "register" -> "search"
                                     [] OTHER -> "check")
      BY <1>2 DEF Send
    <3>2. (CASE k = "login" -> "login" [] k = "register" -> "search"
             [] OTHER -> "check") \in {"login", "search", "check"}
      OBVIOUS
    <3> QED
      BY <3>1, <3>2
  <2>4. /\ answer'[r] = "none"
        /\ \A q \in Request : q # r => answer'[q] = answer[q] /\ shown'[q] = shown[q]
    BY <1>2, <2>2 DEF Send, TypeOK
  <2>5. \A q \in Request : q # r => refused'[q] = refused[q] /\ req'[q] = req[q]
    BY <1>2, <2>2 DEF Send, TypeOK
  <2>6. step'[r] = there => HeldOf(r)' /\ ShownOf(r)'
    BY <2>4 DEF HeldOf, ShownOf
  <2> QED
    BY <2>1, <2>2, <2>3, <2>4, <2>5, <2>6, KeptByOthers DEF Steps
<1>3. ASSUME NEW r \in Request,
             \/ LoginIn(r) \/ SetUser(r) \/ SearchUser(r) \/ InsertUser(r)
             \/ Accept(r) \/ Refuse(r) \/ TakeName(r)
             \/ FindUserDevice(r) \/ CreateUserDevice(r) \/ DeleteUserDevice(r)
             \/ CheckLoginFlag(r) \/ SendToIndex(r) \/ ReadDevices(r)
      PROVE  Kept'
  <2>1. late' = late
    BY <1>3 DEF LoginIn, SetUser, SearchUser, InsertUser, Accept, Refuse, TakeName,
       FindUserDevice, CreateUserDevice, DeleteUserDevice, CheckLoginFlag,
       SendToIndex, ReadDevices, local
  <2>2. Alone /\ Kept
    BY <2>1 DEF AloneInv, KeptInv
  <2> QED
    BY <1>3, <2>2, KeptBefore, KeptAfter
<1> QED
  BY <1>1, <1>2, <1>3 DEF Next

(* Requests one at a time: an accepted application is in the list that      *)
(* answers it, and a removed device is not (User.go:150-211), although the  *)
(* handlers take the name from the one `user` each time anew.               *)
THEOREM ChangeIsShown == Spec => []AnswerShowsChange
<1>1. Init => KeptInv
  BY DEF Init, KeptInv, Kept, HeldOf, ShownOf
<1>2. KeptInv => AnswerShowsChange
  BY DEF KeptInv, Kept, ShownOf, AnswerShowsChange
<1> QED
  BY <1>1, <1>2, AloneInit, AloneStep, KeptStep, InvariantInit, InvariantStep, PTL
     DEF Spec
=============================================================================
