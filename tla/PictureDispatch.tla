-------------------------- MODULE PictureDispatch --------------------------
(***************************************************************************)
(* The way of a picture through the 1H8 processing system (1H8-PS).  The   *)
(* web server connects (task_main.cpp), a loader thread pushes the         *)
(* pictures of this connection (task_readimg.cpp), the agencies hand them  *)
(* to the boards that ask (DataDeal in task_agency.cpp), a board detects   *)
(* and returns its result (ImageManage in 1H8-Manager/task_requester.cpp), *)
(* and the agency sends it on to `clientFd`, the connection that came in   *)
(* last.  A board's process may die; its supervisor starts it again, and   *)
(* AcceptData puts the new connection in the place of the old one.         *)
(*                                                                         *)
(* The picture list is the abstract one, which BlockingQueue implements.   *)
(* An agency's ring (ResultRing) and heartbeat share no state with this.   *)
(***************************************************************************)
EXTENDS Integers, Sequences, FiniteSets

CONSTANTS Board,        \* the boards, each with its agency; four in the code
          Limit,        \* of the picture list: 5 in the code
          PerConn,      \* pictures loaded for a connection: 1 in the code
          FlagLimit,    \* results after which the connection is closed: 6
          MaxConns,     \* bound: connections of the web server
          MaxWaiting,   \* bound: connections waiting for results at a time
          Overlap,      \* may one come in while an agency that has sent a
                        \* result is about to close the last connection?
          MaxDeaths     \* bound: deaths of each board's process

ASSUME PictureDispatchAssumption ==
    /\ Limit \in Nat \ {0}
    /\ {PerConn, FlagLimit, MaxConns} \subseteq Nat \ {0}
    /\ {MaxWaiting, MaxDeaths} \subseteq Nat
    /\ Overlap \in BOOLEAN

Conn == 1 .. MaxConns
Picture == Conn \X (1 .. PerConn)
Loader == "loader"
NoPicture == <<0, 0>>

VARIABLES
    conns,      \* connections accepted so far; the last one is the current
    loaded,     \* pictures pushed for the current connection
    owner,      \* the connection behind each file descriptor, 0 if closed
    clientFd,   \* the descriptor each agency sends results to
    got,        \* the results the web server received on each connection: the
                \* number it is told, and the picture each really is of
    list, held, \* the picture list, and whether the loader is blocked in it
    handed,     \* the picture each agency popped last: imgNum
    flagGet,    \* results since a connection was closed, of all agencies
    read,       \* flagGet as an agency has read it, before it adds one
    agency,     \* where each DataDeal thread is
    result,     \* the picture the result at hand really is of
    up, down,   \* the messages on the link from and to each board
    linked,     \* the link has a board at its other end
    board,      \* where each board's process is
    deaths      \* how often each board's process has died

links == <<up, down, linked>>
page == <<conns, loaded, owner, clientFd, got>>
fifo == <<list, held, handed>>
vars == <<page, fifo, flagGet, read, agency, result, links, board, deaths>>

Fifo == INSTANCE PictureFifo
    WITH Image <- Picture, Pushers <- {Loader}, Takers <- Board, items <- list

(* Messages: a board asks, or returns a result of a picture; an agency      *)
(* answers with a picture, or with none.                                    *)
Message == [type : {"get", "result", "none", "picture"},
            of : Picture \union {NoPicture}]
Msg(type, p) == [type |-> type, of |-> p]

TypeOK ==
    /\ Fifo!TypeOK
    /\ conns \in 0 .. MaxConns /\ loaded \in 0 .. PerConn
    /\ owner \in [Conn -> Conn \union {0}]
    /\ clientFd \in [Board -> Conn \union {0}]
    /\ got \in [Conn -> Seq([number : Picture, of : Picture])]
    /\ flagGet \in Nat /\ read \in [Board -> Nat]
    /\ agency \in [Board -> {"poll", "asked", "sized", "send", "result", "add",
                             "forward", "check", "close", "gone"}]
    /\ result \in [Board -> Picture \union {NoPicture}]
    /\ up \in [Board -> Seq(Message)] /\ down \in [Board -> Seq(Message)]
    /\ linked \in [Board -> BOOLEAN]
    /\ board \in [Board -> {"ask", "await", "detect", "connect"}]
    /\ deaths \in [Board -> 0 .. MaxDeaths]

Init ==
    /\ Fifo!Init
    /\ conns = 0 /\ loaded = PerConn
    /\ owner = [f \in Conn |-> 0]
    /\ clientFd = [b \in Board |-> 0]
    /\ got = [c \in Conn |-> <<>>]
    /\ flagGet = 0 /\ read = [b \in Board |-> 0]
    /\ agency = [b \in Board |-> "poll"]
    /\ result = [b \in Board |-> NoPicture]
    /\ up = [b \in Board |-> <<>>] /\ down = [b \in Board |-> <<>>]
    /\ linked = [b \in Board |-> TRUE]
    /\ board = [b \in Board |-> "ask"]
    /\ deaths = [b \in Board |-> 0]

-----------------------------------------------------------------------------
(* The connections whose results are not all delivered.                     *)
Waiting == {c \in 1 .. conns : Len(got[c]) < PerConn}

(* Faulty: an agency that already has a connection may keep it.             *)
Accept_KeepOld ==
    /\ loaded = PerConn /\ held = {}
    /\ conns < MaxConns
    /\ Cardinality(Waiting) < MaxWaiting
    /\ Overlap \/ \A b \in Board : agency[b] \notin {"check", "close"}
    /\ \E f \in Conn :
         /\ owner[f] = 0 /\ \A g \in 1 .. f - 1 : owner[g] # 0
         /\ owner' = [owner EXCEPT ![f] = conns + 1]
         /\ \E B \in SUBSET Board : clientFd' =
              [b \in Board |-> IF b \in B /\ clientFd[b] # 0
                               THEN clientFd[b] ELSE f]
    /\ conns' = conns + 1
    /\ loaded' = 0
    /\ UNCHANGED <<got, fifo, flagGet, read, agency, result, links, board,
                   deaths>>

(* The server loop of main: accept, point all agencies to the connection,   *)
(* start a loader and wait for it.  The kernel gives the lowest free        *)
(* descriptor.                                                              *)
Accept ==
    /\ loaded = PerConn /\ held = {}
    /\ conns < MaxConns
    /\ Cardinality(Waiting) < MaxWaiting
    /\ Overlap \/ \A b \in Board : agency[b] \notin {"check", "close"}
    /\ \E f \in Conn :
         /\ owner[f] = 0 /\ \A g \in 1 .. f - 1 : owner[g] # 0
         /\ owner' = [owner EXCEPT ![f] = conns + 1]
         /\ clientFd' = [b \in Board |-> f]
    /\ conns' = conns + 1
    /\ loaded' = 0
    /\ UNCHANGED <<got, fifo, flagGet, read, agency, result, links, board,
                   deaths>>

(* load_test: push one picture.                                             *)
Load ==
    /\ loaded < PerConn
    /\ loaded' = loaded + 1
    /\ Fifo!Enqueue(Loader, <<conns, loaded'>>)
    /\ UNCHANGED <<conns, owner, clientFd, got, flagGet, read, agency, result,
                   links, board, deaths>>

(* The loader leaves a push that was blocked on the full list.              *)
LoaderGoesOn ==
    /\ Fifo!Release(Loader)
    /\ UNCHANGED <<page, flagGet, read, agency, result, links, board, deaths>>

-----------------------------------------------------------------------------
(* DataDeal: a header arrived (on a dead link: was still in the socket).    *)
ReadHeader(b) ==
    /\ agency[b] = "poll"
    /\ up[b] # <<>>
    /\ up' = [up EXCEPT ![b] = Tail(@)]
    /\ agency' = [agency EXCEPT ![b] =
                    IF Head(up[b]).type = "get" THEN "asked" ELSE "result"]
    /\ result' = [result EXCEPT ![b] = Head(up[b]).of]
    /\ UNCHANGED <<page, fifo, flagGet, read, down, linked, board, deaths>>

(* What an agency sends reaches the board while the link has one.           *)
Reply(b, m) ==
    down' = IF linked[b] THEN [down EXCEPT ![b] = Append(@, m)] ELSE down

(* Faulty answer: a board is not told that there is no picture.             *)
LookForPicture_Silent(b) ==
    /\ agency[b] = "asked"
    /\ agency' = [agency EXCEPT ![b] = IF list # <<>> THEN "sized" ELSE "poll"]
    /\ UNCHANGED <<page, fifo, flagGet, read, result, links, board, deaths>>

(* GET_IMAGE: size() > 0, or the board is told that there is no picture.    *)
LookForPicture(b) ==
    /\ agency[b] = "asked"
    /\ \/ /\ list # <<>>
          /\ agency' = [agency EXCEPT ![b] = "sized"]
          /\ UNCHANGED down
       \/ /\ list = <<>>
          /\ Reply(b, Msg("none", NoPicture))
          /\ agency' = [agency EXCEPT ![b] = "poll"]
    /\ UNCHANGED <<page, fifo, flagGet, read, result, up, linked, board,
                   deaths>>

(* Faulty: front() where pop() is meant.                                    *)
PopPicture_Peek(b) ==
    /\ agency[b] = "sized"
    /\ Fifo!Show(b)
    /\ agency' = [agency EXCEPT ![b] = "send"]
    /\ UNCHANGED <<page, flagGet, read, result, links, board, deaths>>

(* pop(): another agency may have been faster; then this blocks until the   *)
(* next picture.                                                            *)
PopPicture(b) ==
    /\ agency[b] = "sized"
    /\ Fifo!Deliver(b)
    /\ agency' = [agency EXCEPT ![b] = "send"]
    /\ UNCHANGED <<page, flagGet, read, result, links, board, deaths>>

(* The picture is sent.  If the board is gone it may vanish in the socket,  *)
(* or the send fails: then DataDeal leaves its loop and the thread ends.    *)
SendPicture(b) ==
    /\ agency[b] = "send"
    /\ Reply(b, Msg("picture", handed[b][1]))
    /\ \/ agency' = [agency EXCEPT ![b] = "poll"]
       \/ ~ linked[b] /\ agency' = [agency EXCEPT ![b] = "gone"]
    /\ UNCHANGED <<page, fifo, flagGet, read, result, up, linked, board,
                   deaths>>

(* DETECT_RESULT: flagGet++ of a variable that four threads share without   *)
(* a lock: read it ...                                                      *)
ReadFlag(b) ==
    /\ agency[b] = "result"
    /\ read' = [read EXCEPT ![b] = flagGet]
    /\ agency' = [agency EXCEPT ![b] = "add"]
    /\ UNCHANGED <<page, fifo, flagGet, result, links, board, deaths>>

(* Faulty order: the limit is looked at before the result is sent.          *)
AddToFlag_CheckFirst(b) ==
    /\ agency[b] = "add"
    /\ flagGet' = read[b] + 1
    /\ agency' = [agency EXCEPT ![b] =
                    IF flagGet' >= FlagLimit THEN "close" ELSE "forward"]
    /\ UNCHANGED <<page, fifo, read, result, links, board, deaths>>

(* ... and write it back.                                                   *)
AddToFlag(b) ==
    /\ agency[b] = "add"
    /\ flagGet' = read[b] + 1
    /\ agency' = [agency EXCEPT ![b] = "forward"]
    /\ UNCHANGED <<page, fifo, read, result, links, board, deaths>>

(* The result goes out on clientFd, under the number of the picture popped  *)
(* last.  Nobody receives it if the descriptor is closed.                   *)
ForwardResult(b) ==
    /\ agency[b] = "forward"
    /\ LET c == owner[clientFd[b]] IN
         got' = IF c = 0 THEN got
                ELSE [got EXCEPT ![c] =
                       Append(@, [number |-> handed[b][1], of |-> result[b]])]
    /\ agency' = [agency EXCEPT ![b] = "check"]
    /\ UNCHANGED <<conns, loaded, owner, clientFd, fifo, flagGet, read, result,
                   links, board, deaths>>

(* flagGet >= 6?                                                            *)
CheckFlag(b) ==
    /\ agency[b] = "check"
    /\ agency' = [agency EXCEPT ![b] =
                    IF flagGet >= FlagLimit THEN "close" ELSE "poll"]
    /\ UNCHANGED <<page, fifo, flagGet, read, result, links, board, deaths>>

(* Then close(clientFd) and flagGet = 0.                                    *)
CloseClient(b) ==
    /\ agency[b] = "close"
    /\ owner' = [owner EXCEPT ![clientFd[b]] = 0]
    /\ flagGet' = 0
    /\ agency' = [agency EXCEPT ![b] = "poll"]
    /\ UNCHANGED <<conns, loaded, clientFd, got, fifo, read, result, links,
                   board, deaths>>

-----------------------------------------------------------------------------
(* ImageManage: ask for a picture.                                          *)
Ask(b) ==
    /\ board[b] = "ask"
    /\ up' = [up EXCEPT ![b] = Append(@, Msg("get", NoPicture))]
    /\ board' = [board EXCEPT ![b] = "await"]
    /\ UNCHANGED <<page, fifo, flagGet, read, agency, result, down, linked,
                   deaths>>

(* Faulty board: prefetches, that is, asks again before it detects.         *)
ReceiveAnswer_AskAhead(b) ==
    /\ board[b] = "await"
    /\ down[b] # <<>>
    /\ board' = [board EXCEPT ![b] =
                   IF Head(down[b]).type = "none" THEN "ask" ELSE "detect"]
    /\ down' = IF Head(down[b]).type = "none"
               THEN [down EXCEPT ![b] = Tail(@)] ELSE down
    /\ up' = IF Head(down[b]).type = "none"
             THEN up ELSE [up EXCEPT ![b] = Append(@, Msg("get", NoPicture))]
    /\ UNCHANGED <<page, fifo, flagGet, read, agency, result, linked, deaths>>

(* The answer: no picture, ask again; or one to detect objects in.          *)
ReceiveAnswer(b) ==
    /\ board[b] = "await"
    /\ down[b] # <<>>
    /\ board' = [board EXCEPT ![b] =
                   IF Head(down[b]).type = "none" THEN "ask" ELSE "detect"]
    /\ down' = IF Head(down[b]).type = "none"
               THEN [down EXCEPT ![b] = Tail(@)] ELSE down
    /\ UNCHANGED <<page, fifo, flagGet, read, agency, result, up, linked,
                   deaths>>

(* The detection is done (the picture leaves the link here), and the result *)
(* goes to the agency.                                                      *)
Detect(b) ==
    /\ board[b] = "detect"
    /\ up' = [up EXCEPT ![b] = Append(@, Msg("result", Head(down[b]).of))]
    /\ down' = [down EXCEPT ![b] = Tail(@)]
    /\ board' = [board EXCEPT ![b] = "ask"]
    /\ UNCHANGED <<page, fifo, flagGet, read, agency, result, linked, deaths>>

(* The board's process dies, with what it was working on and what was on    *)
(* its way to it; what it sent can still be read.                           *)
Die(b) ==
    /\ linked[b]
    /\ deaths[b] < MaxDeaths
    /\ deaths' = [deaths EXCEPT ![b] = @ + 1]
    /\ board' = [board EXCEPT ![b] = "connect"]
    /\ linked' = [linked EXCEPT ![b] = FALSE]
    /\ down' = [down EXCEPT ![b] = <<>>]
    /\ UNCHANGED <<page, fifo, flagGet, read, agency, result, up>>

(* The supervisor forked a new one, it connects, and AcceptData closes the  *)
(* old socket, with what is unread in it, and installs the new one.         *)
Reconnect(b) ==
    /\ board[b] = "connect"
    /\ board' = [board EXCEPT ![b] = "ask"]
    /\ linked' = [linked EXCEPT ![b] = TRUE]
    /\ up' = [up EXCEPT ![b] = <<>>]
    /\ UNCHANGED <<page, fifo, flagGet, read, agency, result, down, deaths>>

DataDeal(b) ==
    \/ ReadHeader(b) \/ LookForPicture(b) \/ PopPicture(b) \/ SendPicture(b)
    \/ ReadFlag(b) \/ AddToFlag(b) \/ ForwardResult(b) \/ CheckFlag(b)
    \/ CloseClient(b)

ImageManage(b) == Ask(b) \/ ReceiveAnswer(b) \/ Detect(b) \/ Reconnect(b)

Next ==
    \/ Accept \/ Load \/ LoaderGoesOn
    \/ \E b \in Board : DataDeal(b) \/ ImageManage(b) \/ Die(b)

Spec == Init /\ [][Next]_vars

(***************************************************************************)
(* Each thread of the processing system and each board's process goes on   *)
(* when it can.  The web server need not connect, and no board dies.       *)
(***************************************************************************)
Fairness ==
    /\ WF_vars(Load) /\ WF_vars(LoaderGoesOn)
    /\ \A b \in Board : WF_vars(DataDeal(b)) /\ WF_vars(ImageManage(b))

FairSpec == Spec /\ Fairness

-----------------------------------------------------------------------------
Sent == {p \in Picture : p[1] < conns \/ (p[1] = conns /\ p[2] <= loaded)}

Open(c) == \E f \in Conn : owner[f] = c

(* The places where pictures, or their results, can be ...                  *)
Holder == ({"list"} \X {0}) \union ({"send", "down", "up", "result"} \X Board)
                           \union ({"got"} \X Conn)

Of(s) == [i \in DOMAIN s |-> s[i].of]

(* ... and what is there.  (A message that has none counts as NoPicture.)   *)
Held(h) ==
    CASE h[1] = "list"   -> list
      [] h[1] = "send"   -> IF agency[h[2]] = "send" THEN handed[h[2]] ELSE <<>>
      [] h[1] = "down"   -> Of(down[h[2]])
      [] h[1] = "up"     -> Of(up[h[2]])
      [] h[1] = "result" -> IF agency[h[2]] \in {"result", "add", "forward"}
                            THEN <<result[h[2]]>> ELSE <<>>
      [] h[1] = "got"    -> Of(got[h[2]])

Places(p) ==
    UNION {{<<h, i>> : i \in {j \in DOMAIN Held(h) : Held(h)[j] = p}} : h \in Holder}

(* A picture is in one place at a time, from the list to the web server: it *)
(* is never handed to two boards or answered twice, and it is lost only if  *)
(* a board died or a connection was closed: one agency may close it while   *)
(* another is about to send a result on it.                                 *)
PictureInOnePlace ==
    \A p \in Sent :
        /\ Cardinality(Places(p)) <= 1
        /\ Places(p) = {} => \/ \E b \in Board : deaths[b] > 0
                             \/ \E c \in 1 .. conns : ~ Open(c)

(* A result goes out under the number of the picture it is of.  A board's   *)
(* message does not say which that is, and the agency takes what it popped  *)
(* last (imgNum): right as long as a board has one picture at a time, which *)
(* a restart of its process may break.                                      *)
ResultOfItsPicture ==
    \A b \in Board :
        deaths[b] = 0 /\ agency[b] \in {"result", "add", "forward"}
            => handed[b] = <<result[b]>>

(* The web server gets the results of a connection's pictures on this       *)
(* connection, although every agency sends to the one that came in last.    *)
ResultsOnTheirConnection ==
    \A c \in Conn : \A i \in DOMAIN got[c] : got[c][i].of[1] = c

(* A connection is closed only when its results were delivered, although    *)
(* the count that decides it runs over all agencies and connections.        *)
ServedBeforeClosed ==
    \A c \in 1 .. conns : Open(c) \/ Len(got[c]) = PerConn

(* Each connection gets its results, even if an agency that saw a picture   *)
(* in the list is stuck in pop behind a faster one.                         *)
AllResultsDelivered ==
    \A c \in Conn : (conns >= c) ~> (Len(got[c]) = PerConn)
=============================================================================
