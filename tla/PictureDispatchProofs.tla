----------------------- MODULE PictureDispatchProofs -----------------------
(***************************************************************************)
(* Theorems about PictureDispatch: for any boards, any limits, any number  *)
(* of pictures and connections and of deaths of the boards' processes.     *)
(* The two about connections are for the web server as it uses this        *)
(* system: one picture per connection, and one connection at a time.       *)
(***************************************************************************)
EXTENDS PictureDispatch, SequenceTheorems, FiniteSetTheorems, TLAPS

Thing == Picture \union {NoPicture}

(* What every holder has, as one function.                                  *)
holding == [h \in Holder |-> Held(h)]

Somewhere(p, f) == \E h \in DOMAIN f : \E i \in 1 .. Len(f[h]) : f[h][i] = p

(* No two places hold the same picture.                                     *)
Apart(f) ==
    \A h, k \in DOMAIN f : \A i \in 1 .. Len(f[h]), j \in 1 .. Len(f[k]) :
        f[h][i] = f[k][j] /\ f[h][i] # NoPicture => h = k /\ i = j

Lost == \/ \E b \in Board : deaths[b] > 0
        \/ \E c \in 1 .. conns : ~ Open(c)

(* Every picture pushed is in one place, or was lost; no other is anywhere. *)
Placed ==
    /\ Apart(holding)
    /\ \A p \in Picture : Somewhere(p, holding) => p \in Sent
    /\ \A p \in Sent : Somewhere(p, holding) \/ Lost

Returning(b) == agency[b] \in {"result", "add", "forward"}

(* Only the messages that name a picture have one, and an agency that never *)
(* popped a picture meets none.                                             *)
MessagesOf(b) ==
    /\ Len(handed[b]) <= 1
    /\ \A i \in 1 .. Len(up[b]) :
          \/ up[b][i].type = "get" /\ up[b][i].of = NoPicture
          \/ up[b][i].type = "result" /\ up[b][i].of # NoPicture
    /\ \A i \in 1 .. Len(down[b]) :
          \/ down[b][i].type = "none" /\ down[b][i].of = NoPicture
          \/ down[b][i].type = "picture" /\ down[b][i].of # NoPicture
    /\ Returning(b) => result[b] # NoPicture
    /\ handed[b] = <<>> =>
          /\ agency[b] # "send" /\ ~ Returning(b)
          /\ \A i \in 1 .. Len(up[b]) : up[b][i].type = "get"
          /\ \A i \in 1 .. Len(down[b]) : down[b][i].type = "none"

Messages == \A b \in Board : MessagesOf(b)

(* A link without a board is one whose board died; a board that detects has *)
(* its picture at the head of its link.                                     *)
LinkOf(b) ==
    /\ linked[b] <=> board[b] # "connect"
    /\ deaths[b] = 0 => linked[b]
    /\ board[b] = "detect" => down[b] # <<>> /\ down[b][1].type = "picture"

Links == \A b \in Board : LinkOf(b)

(* Every agency sends to the descriptor of the last connection, and no      *)
(* other descriptor is this connection's.                                   *)
Descriptors ==
    /\ conns = 0 => loaded = PerConn
    /\ \A f \in Conn : owner[f] <= conns
    /\ conns > 0 =>
          \A b \in Board :
              /\ clientFd[b] \in Conn
              /\ owner[clientFd[b]] \in {0, conns}
              /\ \A f \in Conn : owner[f] = conns => f = clientFd[b]

Formed == TypeOK /\ Messages /\ Links /\ Descriptors

DispatchInv == Formed /\ Placed

-----------------------------------------------------------------------------
(* Where a board and its agency are while no process of this board died:    *)
(* one picture at a time, and imgNum is its number until its result is out. *)
Idle(b) == agency[b] \in {"poll", "check", "close"}

Known(b) == Idle(b) \/ (Returning(b) /\ handed[b] = <<result[b]>>)

InStep(b) ==
    LET u == up[b]
        d == down[b]
    IN
    \/ /\ board[b] \in {"ask", "await"}
       /\ d = <<>>
       /\ board[b] = "ask" => u = <<>>
       /\ board[b] = "await" => Len(u) = 1 /\ u[1].type = "get"
       /\ Known(b)
    \/ /\ board[b] \in {"ask", "await"}
       /\ d = <<>>
       /\ Len(u) = IF board[b] = "ask" THEN 1 ELSE 2
       /\ u[1].type = "result" /\ handed[b] = <<u[1].of>>
       /\ board[b] = "await" => u[2].type = "get"
       /\ agency[b] = "poll"
    \/ /\ board[b] = "await" /\ u = <<>> /\ d = <<>>
       /\ agency[b] \in {"asked", "sized", "send"}
    \/ /\ board[b] \in {"await", "detect"} /\ u = <<>> /\ Len(d) = 1
       /\ board[b] = "detect" => d[1].type = "picture"
       /\ d[1].type = "picture" => handed[b] = <<d[1].of>>
       /\ agency[b] = "poll"

StepInv == DispatchInv /\ \A b \in Board : deaths[b] = 0 => InStep(b)

(* With one picture for a connection and one connection at a time: only the *)
(* last connection may still wait, and nobody closes it before its result.  *)
Delivered ==
    /\ \A c \in Conn : \A i \in 1 .. Len(got[c]) : got[c][i].of = <<c, 1>>
    /\ \A c \in 1 .. conns - 1 : got[c] # <<>>
    /\ \A b \in Board : agency[b] \in {"check", "close"} =>
          conns > 0 /\ got[conns] # <<>>
    /\ \A c \in 1 .. conns : Open(c) \/ got[c] # <<>>

DeliveryInv == DispatchInv /\ Delivered

-----------------------------------------------------------------------------
(* Sequences: what is appended is last, and the tail has the others.        *)
LEMMA Appended ==
    ASSUME NEW S, NEW s \in Seq(S), NEW e \in S
    PROVE  /\ Append(s, e) \in Seq(S) /\ Len(Append(s, e)) = Len(s) + 1
           /\ Append(s, e) # <<>> /\ Len(s) \in Nat
           /\ \A i \in 1 .. Len(s) + 1 :
                 Append(s, e)[i] = IF i = Len(s) + 1 THEN e ELSE s[i]
  BY AppendProperties, LenProperties

LEMMA Tailed ==
    ASSUME NEW S, NEW s \in Seq(S), s # <<>>
    PROVE  /\ Head(s) = s[1] /\ Head(s) \in S
           /\ Tail(s) \in Seq(S) /\ Len(Tail(s)) = Len(s) - 1
           /\ Len(s) \in Nat \ {0}
           /\ \A i \in 1 .. Len(s) - 1 : Tail(s)[i] = s[i + 1]
  BY HeadTailProperties, EmptySeq

LEMMA EmptyIs ==
    ASSUME NEW S, NEW s \in Seq(S)
    PROVE  /\ <<>> \in Seq(S) /\ Len(<<>>) = 0 /\ Len(s) \in Nat
           /\ s = <<>> <=> Len(s) = 0
           /\ \A i \in 1 .. Len(s) : s[i] \in S
  BY EmptySeq, LenProperties, ElementOfSeq

LEMMA OneIs ==
    ASSUME NEW S, NEW e \in S
    PROVE  /\ <<e>> \in Seq(S) /\ Len(<<e>>) = 1 /\ <<e>>[1] = e
           /\ <<e>> # <<>> /\ Tail(<<e>>) = <<>> /\ Append(<<>>, e) = <<e>>
  OBVIOUS

(* The things that a sequence of messages, or of results, is of.            *)
LEMMA OfIs ==
    ASSUME NEW S, NEW T, \A x \in S : x.of \in T, NEW s \in Seq(S)
    PROVE  /\ Of(s) \in Seq(T) /\ Len(Of(s)) = Len(s)
           /\ \A i \in 1 .. Len(s) : Of(s)[i] = s[i].of
<1>1. Len(s) \in Nat /\ DOMAIN s = 1 .. Len(s) /\ \A i \in 1 .. Len(s) : s[i] \in S
  BY LenProperties, ElementOfSeq
<1>2. Of(s) \in [1 .. Len(s) -> T] /\ \A i \in 1 .. Len(s) : Of(s)[i] = s[i].of
  BY <1>1 DEF Of
<1>3. Of(s) \in Seq(T)
  BY <1>1, <1>2, SeqDef
<1>4. Len(Of(s)) \in Nat /\ DOMAIN Of(s) = 1 .. Len(Of(s))
  BY <1>3, LenProperties
<1>5. 1 .. Len(Of(s)) = 1 .. Len(s)
  BY <1>2, <1>4
<1>6. \A m, n \in Nat : 1 .. m = 1 .. n => m = n
  <2>1. ASSUME NEW m \in Nat, NEW n \in Nat, 1 .. m = 1 .. n PROVE m = n
    <3>1. m \in 1 .. m <=> m \in 1 .. n
      BY <2>1
    <3>2. n \in 1 .. m <=> n \in 1 .. n
      BY <2>1
    <3> QED
      BY <3>1, <3>2
  <2> QED
    BY <2>1
<1>7. Len(Of(s)) = Len(s)
  BY <1>1, <1>4, <1>5, <1>6
<1> QED
  BY <1>2, <1>3, <1>7

LEMMA OfAppend ==
    ASSUME NEW S, NEW T, \A x \in S : x.of \in T, NEW s \in Seq(S), NEW e \in S
    PROVE  Of(Append(s, e)) = Append(Of(s), e.of)
<1> DEFINE a == Append(s, e)
<1>1. /\ a \in Seq(S) /\ Len(a) = Len(s) + 1 /\ Len(s) \in Nat
      /\ \A i \in 1 .. Len(s) + 1 : a[i] = IF i = Len(s) + 1 THEN e ELSE s[i]
  BY Appended
<1>2. /\ Of(s) \in Seq(T) /\ Len(Of(s)) = Len(s)
      /\ \A i \in 1 .. Len(s) : Of(s)[i] = s[i].of
  BY OfIs
<1>3. /\ Of(a) \in Seq(T) /\ Len(Of(a)) = Len(a)
      /\ \A i \in 1 .. Len(a) : Of(a)[i] = a[i].of
  BY <1>1, OfIs
<1>4. /\ Append(Of(s), e.of) \in Seq(T) /\ Len(Append(Of(s), e.of)) = Len(s) + 1
      /\ \A i \in 1 .. Len(s) + 1 : Append(Of(s), e.of)[i] =
            IF i = Len(s) + 1 THEN e.of ELSE Of(s)[i]
  BY <1>2, Appended
<1> HIDE DEF a
<1>5. \A i \in 1 .. Len(Of(a)) : Of(a)[i] = Append(Of(s), e.of)[i]
  BY <1>1, <1>2, <1>3, <1>4
<1>6. Of(a) = Append(Of(s), e.of)
  BY <1>1, <1>3, <1>4, <1>5, SeqEqual
<1> QED
  BY <1>6 DEF a

LEMMA OfTail ==
    ASSUME NEW S, NEW T, \A x \in S : x.of \in T, NEW s \in Seq(S), s # <<>>
    PROVE  /\ Of(Tail(s)) = Tail(Of(s)) /\ Head(Of(s)) = s[1].of
           /\ Of(s) # <<>>
<1> DEFINE t == Tail(s)
<1>1. /\ t \in Seq(S) /\ Len(t) = Len(s) - 1 /\ Len(s) \in Nat \ {0}
      /\ \A i \in 1 .. Len(s) - 1 : t[i] = s[i + 1]
  BY Tailed
<1>2. /\ Of(s) \in Seq(T) /\ Len(Of(s)) = Len(s)
      /\ \A i \in 1 .. Len(s) : Of(s)[i] = s[i].of
  BY OfIs
<1>3. /\ Of(t) \in Seq(T) /\ Len(Of(t)) = Len(t)
      /\ \A i \in 1 .. Len(t) : Of(t)[i] = t[i].of
  BY <1>1, OfIs
<1>4. Of(s) # <<>>
  BY <1>1, <1>2, EmptyIs
<1>5. /\ Tail(Of(s)) \in Seq(T) /\ Len(Tail(Of(s))) = Len(s) - 1
      /\ Head(Of(s)) = Of(s)[1]
      /\ \A i \in 1 .. Len(s) - 1 : Tail(Of(s))[i] = Of(s)[i + 1]
  BY <1>2, <1>4, Tailed
<1> HIDE DEF t
<1>6. ASSUME NEW i \in 1 .. Len(Of(t))
      PROVE  Of(t)[i] = Tail(Of(s))[i]
  <2>1. i \in 1 .. Len(t) /\ i \in 1 .. Len(s) - 1 /\ i + 1 \in 1 .. Len(s)
    BY <1>1, <1>3
  <2>2. Of(t)[i] = s[i + 1].of
    BY <2>1, <1>1, <1>3
  <2> QED
    BY <2>1, <2>2, <1>2, <1>5
<1>7. Of(t) = Tail(Of(s))
  BY <1>1, <1>3, <1>5, <1>6, SeqEqual
<1> QED
  BY <1>1, <1>2, <1>4, <1>5, <1>7 DEF t

-----------------------------------------------------------------------------
(* Things among places: one comes to the end of a place, the one at its     *)
(* head leaves, or all there vanish.                                        *)
Join(f, y, p) == [f EXCEPT ![y] = Append(f[y], p)]
Behead(f, x) == [f EXCEPT ![x] = Tail(f[x])]
Empty(f, x) == [f EXCEPT ![x] = <<>>]

Holdings == [Holder -> Seq(Thing)]

(* What comes to the end of a place is apart if it was nowhere else, ...    *)
LEMMA Comes ==
    ASSUME NEW f \in Holdings, NEW y \in Holder, NEW p \in Thing
    PROVE  /\ Join(f, y, p) \in Holdings
           /\ Apart(f) /\ (p = NoPicture \/ ~ Somewhere(p, f))
                 => Apart(Join(f, y, p))
           /\ \A q : Somewhere(q, Join(f, y, p)) <=> Somewhere(q, f) \/ q = p
<1> SUFFICES ASSUME NEW g, g = [f EXCEPT ![y] = Append(f[y], p)]
             PROVE  /\ g \in Holdings
                    /\ Apart(f) /\ (p = NoPicture \/ ~ Somewhere(p, f)) => Apart(g)
                    /\ \A q : Somewhere(q, g) <=> Somewhere(q, f) \/ q = p
  BY DEF Join
<1>1. /\ Append(f[y], p) \in Seq(Thing) /\ Len(Append(f[y], p)) = Len(f[y]) + 1
      /\ \A i \in 1 .. Len(f[y]) + 1 :
            Append(f[y], p)[i] = IF i = Len(f[y]) + 1 THEN p ELSE f[y][i]
  BY Appended DEF Holdings
<1>2. \A h \in Holder : Len(f[h]) \in Nat
  BY EmptyIs DEF Holdings
<1>3. g \in Holdings /\ \A h \in Holder : g[h] = IF h = y THEN Append(f[y], p) ELSE f[h]
  BY <1>1 DEF Holdings
<1>4. ASSUME NEW q
      PROVE  Somewhere(q, g) <=> Somewhere(q, f) \/ q = p
  <2>1. Somewhere(q, g) => Somewhere(q, f) \/ q = p
    BY <1>1, <1>2, <1>3 DEF Somewhere, Holdings
  <2>2. ASSUME Somewhere(q, f) PROVE Somewhere(q, g)
    BY <2>2, <1>1, <1>2, <1>3 DEF Somewhere, Holdings
  <2>3. Somewhere(p, g)
    BY <1>1, <1>2, <1>3 DEF Somewhere, Holdings
  <2> QED
    BY <2>1, <2>2, <2>3
<1>5. ASSUME Apart(f), p = NoPicture \/ ~ Somewhere(p, f)
      PROVE  Apart(g)
  <2>1. ASSUME NEW h \in Holder, NEW k \in Holder, NEW i \in 1 .. Len(g[h]),
               NEW j \in 1 .. Len(g[k]), g[h][i] = g[k][j], g[h][i] # NoPicture
        PROVE  h = k /\ i = j
    <3>1. \/ i \in 1 .. Len(f[h]) /\ g[h][i] = f[h][i]
          \/ h = y /\ i = Len(f[y]) + 1 /\ g[h][i] = p
      BY <1>1, <1>2, <1>3 DEF Holdings
    <3>2. \/ j \in 1 .. Len(f[k]) /\ g[k][j] = f[k][j]
          \/ k = y /\ j = Len(f[y]) + 1 /\ g[k][j] = p
      BY <1>1, <1>2, <1>3 DEF Holdings
    <3> QED
      BY <3>1, <3>2, <2>1, <1>5 DEF Apart, Somewhere, Holdings
  <2> QED
    BY <2>1, <1>3 DEF Apart, Holdings
<1> QED
  BY <1>3, <1>4, <1>5

(* ... what leaves its head, ...                                            *)
LEMMA Leaves ==
    ASSUME NEW f \in Holdings, NEW x \in Holder, f[x] # <<>>
    PROVE  /\ Behead(f, x) \in Holdings /\ Head(f[x]) \in Thing
           /\ Apart(f) => /\ Apart(Behead(f, x))
                          /\ \/ Head(f[x]) = NoPicture
                             \/ ~ Somewhere(Head(f[x]), Behead(f, x))
           /\ \A q : Somewhere(q, f) <=> Somewhere(q, Behead(f, x)) \/ q = Head(f[x])
<1> SUFFICES ASSUME NEW g, g = [f EXCEPT ![x] = Tail(f[x])]
             PROVE  /\ g \in Holdings /\ Head(f[x]) \in Thing
                    /\ Apart(f) => /\ Apart(g)
                                   /\ \/ Head(f[x]) = NoPicture
                                      \/ ~ Somewhere(Head(f[x]), g)
                    /\ \A q : Somewhere(q, f) <=> Somewhere(q, g) \/ q = Head(f[x])
  BY DEF Behead
<1>1. /\ Head(f[x]) = f[x][1] /\ Head(f[x]) \in Thing /\ Tail(f[x]) \in Seq(Thing)
      /\ Len(Tail(f[x])) = Len(f[x]) - 1 /\ Len(f[x]) \in Nat \ {0}
      /\ \A i \in 1 .. Len(f[x]) - 1 : Tail(f[x])[i] = f[x][i + 1]
  BY Tailed DEF Holdings
<1>2. \A h \in Holder : Len(f[h]) \in Nat
  BY EmptyIs DEF Holdings
<1>3. g \in Holdings /\ \A h \in Holder : g[h] = IF h = x THEN Tail(f[x]) ELSE f[h]
  BY <1>1 DEF Holdings
<1> DEFINE skip == [h \in Holder |-> IF h = x THEN 1 ELSE 0]
<1>4. \A h \in Holder : \A i \in 1 .. Len(g[h]) :
         i + skip[h] \in 1 .. Len(f[h]) /\ g[h][i] = f[h][i + skip[h]]
  BY <1>1, <1>2, <1>3 DEF Holdings
<1>5. \A h \in Holder : Len(g[h]) \in Nat /\ skip[h] = IF h = x THEN 1 ELSE 0
  BY <1>1, <1>2, <1>3 DEF Holdings
<1> HIDE DEF skip
<1>6. ASSUME NEW q
      PROVE  Somewhere(q, f) <=> Somewhere(q, g) \/ q = Head(f[x])
  <2>1. Somewhere(q, g) => Somewhere(q, f)
    BY <1>3, <1>4 DEF Somewhere, Holdings
  <2>2. ASSUME NEW h \in Holder, NEW i \in 1 .. Len(f[h]), f[h][i] = q, q # Head(f[x])
        PROVE  Somewhere(q, g)
    <3>1. CASE h = x
      <4>1. i \in 2 .. Len(f[x])
        BY <3>1, <2>2, <1>1
      <4>2. g[x] = Tail(f[x]) /\ f[x][i] = q
        BY <3>1, <2>2, <1>3
      <4>3. i - 1 \in 1 .. Len(f[x]) - 1 /\ (i - 1) + 1 = i
        BY <4>1, <1>1
      <4>4. Tail(f[x])[i - 1] = f[x][(i - 1) + 1]
        BY <4>3, <1>1
      <4>5. i - 1 \in 1 .. Len(g[x]) /\ g[x][i - 1] = q
        BY <4>2, <4>3, <4>4, <1>1
      <4> QED
        BY <4>5, <1>3 DEF Somewhere, Holdings
    <3>2. CASE h # x
      BY <3>2, <2>2, <1>3 DEF Somewhere, Holdings
    <3> QED
      BY <3>1, <3>2
  <2>3. Somewhere(Head(f[x]), f)
    BY <1>1 DEF Somewhere, Holdings
  <2> QED
    BY <2>1, <2>2, <2>3 DEF Somewhere, Holdings
<1>7. ASSUME Apart(f)
      PROVE  /\ Apart(g)
             /\ Head(f[x]) = NoPicture \/ ~ Somewhere(Head(f[x]), g)
  <2>1. \A h, k \in DOMAIN g : \A i \in 1 .. Len(g[h]), j \in 1 .. Len(g[k]) :
           g[h][i] = g[k][j] /\ g[h][i] # NoPicture => h = k /\ i = j
    <3> TAKE h, k \in DOMAIN g
    <3> TAKE i \in 1 .. Len(g[h]), j \in 1 .. Len(g[k])
    <3> HAVE g[h][i] = g[k][j] /\ g[h][i] # NoPicture
    <3>3. DOMAIN g = Holder
      BY <1>3 DEF Holdings
    <3>1. h = k /\ i + skip[h] = j + skip[k]
      BY <3>3, <1>4, <1>7 DEF Apart, Holdings
    <3> QED
      BY <3>3, <3>1, <1>5
  <2>2. \A h \in Holder : \A i \in 1 .. Len(g[h]) :
           g[h][i] = Head(f[x]) => Head(f[x]) = NoPicture
    <3> SUFFICES ASSUME NEW h \in Holder, NEW i \in 1 .. Len(g[h]),
                        g[h][i] = Head(f[x]), Head(f[x]) # NoPicture
                 PROVE  FALSE
      OBVIOUS
    <3>1. h = x /\ i + skip[h] = 1
      <4>1. 1 \in 1 .. Len(f[x]) /\ i + skip[h] \in 1 .. Len(f[h])
        BY <1>1, <1>4 DEF Holdings
      <4>2. f[h][i + skip[h]] = f[x][1] /\ f[h][i + skip[h]] # NoPicture
        BY <1>1, <1>4 DEF Holdings
      <4> QED
        BY <4>1, <4>2, <1>7 DEF Apart, Holdings
    <3> QED
      BY <3>1, <1>5
  <2>3. DOMAIN g = Holder
    BY <1>3 DEF Holdings
  <2>4. Apart(g)
    BY <2>1 DEF Apart, Holdings
  <2>5. Head(f[x]) = NoPicture \/ ~ Somewhere(Head(f[x]), g)
    BY <2>2, <2>3 DEF Somewhere, Holdings
  <2> QED
    BY <2>4, <2>5
<1> QED
  BY <1>1, <1>3, <1>6, <1>7 DEF Holdings

(* ... and what vanishes with its place.                                    *)
LEMMA Vanishes ==
    ASSUME NEW f \in Holdings, NEW x \in Holder
    PROVE  /\ Empty(f, x) \in Holdings
           /\ Apart(f) => Apart(Empty(f, x))
           /\ \A q : Somewhere(q, Empty(f, x)) => Somewhere(q, f)
<1> DEFINE g == Empty(f, x)
<1>1. <<>> \in Seq(Thing) /\ Len(<<>>) = 0
  BY EmptySeq
<1>2. g \in Holdings /\ \A h \in Holder : g[h] = IF h = x THEN <<>> ELSE f[h]
  BY <1>1 DEF Empty, Holdings
<1> HIDE DEF g
<1>3. \A h \in Holder : \A i \in 1 .. Len(g[h]) : i \in 1 .. Len(f[h]) /\ g[h][i] = f[h][i]
  BY <1>1, <1>2 DEF Holdings
<1>4. Apart(f) => Apart(g)
  BY <1>2, <1>3 DEF Apart, Holdings
<1>5. \A q : Somewhere(q, g) => Somewhere(q, f)
  BY <1>2, <1>3 DEF Somewhere, Holdings
<1> QED
  BY <1>2, <1>4, <1>5 DEF g

(* ... and what moves from the head of a place to the end of another.       *)
LEMMA Moves ==
    ASSUME NEW f \in Holdings, NEW x \in Holder, NEW y \in Holder,
           f[x] # <<>>
    PROVE  /\ Apart(f) => Apart(Join(Behead(f, x), y, Head(f[x])))
           /\ \A q : Somewhere(q, Join(Behead(f, x), y, Head(f[x])))
                        <=> Somewhere(q, f)
<1>1. /\ Behead(f, x) \in Holdings /\ Head(f[x]) \in Thing
      /\ Apart(f) => /\ Apart(Behead(f, x))
                     /\ \/ Head(f[x]) = NoPicture
                        \/ ~ Somewhere(Head(f[x]), Behead(f, x))
      /\ \A q : Somewhere(q, f) <=> Somewhere(q, Behead(f, x)) \/ q = Head(f[x])
  BY Leaves
<1> DEFINE m == Behead(f, x)
           p == Head(f[x])
<1> HIDE DEF m, p
<1>2. m \in Holdings /\ p \in Thing
  BY <1>1 DEF m, p
<1>3. /\ Apart(m) /\ (p = NoPicture \/ ~ Somewhere(p, m)) => Apart(Join(m, y, p))
      /\ \A q : Somewhere(q, Join(m, y, p)) <=> Somewhere(q, m) \/ q = p
  BY <1>2, Comes
<1> QED
  BY <1>1, <1>3 DEF m, p

-----------------------------------------------------------------------------
(* What each place holds, now and after a step.                             *)
LEMMA HoldersAre ==
    \A h \in Holder :
        \/ h = <<"list", 0>>
        \/ \E b \in Board : h \in {<<"send", b>>, <<"down", b>>, <<"up", b>>,
                                   <<"result", b>>}
        \/ \E c \in Conn : h = <<"got", c>>
  BY DEF Holder

LEMMA AreHolders ==
    /\ <<"list", 0>> \in Holder
    /\ \A b \in Board : /\ <<"send", b>> \in Holder /\ <<"down", b>> \in Holder
                        /\ <<"up", b>> \in Holder /\ <<"result", b>> \in Holder
    /\ \A c \in Conn : <<"got", c>> \in Holder
  BY DEF Holder

LEMMA HeldAre ==
    /\ Held(<<"list", 0>>) = list
    /\ \A b \in Board :
          /\ Held(<<"send", b>>) = IF agency[b] = "send" THEN handed[b] ELSE <<>>
          /\ Held(<<"down", b>>) = Of(down[b])
          /\ Held(<<"up", b>>) = Of(up[b])
          /\ Held(<<"result", b>>) = IF Returning(b) THEN <<result[b]>> ELSE <<>>
    /\ \A c \in Conn : Held(<<"got", c>>) = Of(got[c])
  BY DEF Held, Returning

LEMMA ThingsAre ==
    /\ \A m \in Message : m.of \in Thing
    /\ \A r \in [number : Picture, of : Picture] : r.of \in Thing
    /\ \A p \in Picture : p \in Thing /\ p # NoPicture
    /\ NoPicture \in Thing
  BY DEF Message, Thing, NoPicture, Picture, Conn

LEMMA HoldingType ==
    ASSUME TypeOK
    PROVE  holding \in Holdings
<1>1. ASSUME NEW h \in Holder
      PROVE  Held(h) \in Seq(Thing)
  <2>1. CASE h = <<"list", 0>>
    <3>1. list \in Seq(Picture)
      BY DEF TypeOK, Fifo!TypeOK
    <3> QED
      BY <2>1, <3>1, HeldAre, SeqMonotonic DEF Thing
  <2>2. ASSUME NEW b \in Board, h \in {<<"send", b>>, <<"down", b>>, <<"up", b>>,
                                       <<"result", b>>}
        PROVE  Held(h) \in Seq(Thing)
    <3>1. handed[b] \in Seq(Picture) /\ up[b] \in Seq(Message)
          /\ down[b] \in Seq(Message) /\ result[b] \in Thing
      BY DEF TypeOK, Fifo!TypeOK, Thing
    <3>2. handed[b] \in Seq(Thing)
      BY <3>1, SeqMonotonic DEF Thing
    <3>3. Of(up[b]) \in Seq(Thing) /\ Of(down[b]) \in Seq(Thing)
      BY <3>1, OfIs, ThingsAre
    <3>4. <<>> \in Seq(Thing) /\ <<result[b]>> \in Seq(Thing)
      BY <3>1, EmptySeq, OneIs
    <3> QED
      BY <2>2, <3>2, <3>3, <3>4, HeldAre
  <2>3. ASSUME NEW c \in Conn, h = <<"got", c>>
        PROVE  Held(h) \in Seq(Thing)
    <3>1. got[c] \in Seq([number : Picture, of : Picture])
      BY DEF TypeOK
    <3>2. Of(got[c]) \in Seq(Thing)
      BY <3>1, OfIs, ThingsAre
    <3> QED
      BY <2>3, <3>2, HeldAre
  <2> QED
    BY <2>1, <2>2, <2>3, HoldersAre
<1> QED
  BY <1>1 DEF holding, Holdings

LEMMA HoldingAre ==
    /\ holding' = [h \in Holder |-> holding'[h]]
    /\ holding'[<<"list", 0>>] = list'
    /\ \A b \in Board :
          /\ holding'[<<"send", b>>] = IF agency'[b] = "send" THEN handed'[b] ELSE <<>>
          /\ holding'[<<"down", b>>] = Of(down'[b])
          /\ holding'[<<"up", b>>] = Of(up'[b])
          /\ holding'[<<"result", b>>] =
                IF agency'[b] \in {"result", "add", "forward"}
                THEN <<result'[b]>> ELSE <<>>
    /\ \A c \in Conn : holding'[<<"got", c>>] = Of(got'[c])
<1>1. holding' = [h \in Holder |-> holding'[h]]
  BY DEF holding
<1>2. holding'[<<"list", 0>>] = list'
  BY AreHolders DEF holding, Held
<1>3. ASSUME NEW b \in Board
      PROVE  /\ holding'[<<"send", b>>] =
                   IF agency'[b] = "send" THEN handed'[b] ELSE <<>>
             /\ holding'[<<"result", b>>] =
                   IF agency'[b] \in {"result", "add", "forward"}
                   THEN <<result'[b]>> ELSE <<>>
  BY AreHolders DEF holding, Held
<1>4. ASSUME NEW b \in Board
      PROVE  holding'[<<"down", b>>] = Of(down'[b])
  BY AreHolders DEF holding, Held, Of
<1>5. ASSUME NEW b \in Board
      PROVE  holding'[<<"up", b>>] = Of(up'[b])
  BY AreHolders DEF holding, Held, Of
<1>6. ASSUME NEW c \in Conn
      PROVE  holding'[<<"got", c>>] = Of(got'[c])
  BY AreHolders DEF holding, Held, Of
<1> QED
  BY <1>1, <1>2, <1>3, <1>4, <1>5, <1>6

(* A function that has what each place holds after a step is holding'.      *)
AroundAfter(g, b) ==
    /\ g[<<"send", b>>] = IF agency'[b] = "send" THEN handed'[b] ELSE <<>>
    /\ g[<<"down", b>>] = Of(down'[b])
    /\ g[<<"up", b>>] = Of(up'[b])
    /\ g[<<"result", b>>] = IF agency'[b] \in {"result", "add", "forward"}
                            THEN <<result'[b]>> ELSE <<>>

HeldAfter(g) ==
    /\ g = [h \in Holder |-> g[h]]
    /\ g[<<"list", 0>>] = list'
    /\ \A b \in Board : AroundAfter(g, b)
    /\ \A c \in Conn : g[<<"got", c>>] = Of(got'[c])

LEMMA HoldingNext ==
    ASSUME NEW g, HeldAfter(g)
    PROVE  holding' = g
<1>1. ASSUME NEW h \in Holder
      PROVE  g[h] = holding'[h]
  <2>1. CASE h = <<"list", 0>>
    BY <2>1, HoldingAre DEF HeldAfter, AroundAfter
  <2>2. ASSUME NEW b \in Board, h \in {<<"send", b>>, <<"down", b>>, <<"up", b>>,
                                       <<"result", b>>}
        PROVE  g[h] = holding'[h]
    <3>1. CASE h = <<"send", b>>
      BY <3>1, HoldingAre DEF HeldAfter, AroundAfter
    <3>2. CASE h = <<"down", b>>
      BY <3>2, HoldingAre DEF HeldAfter, AroundAfter
    <3>3. CASE h = <<"up", b>>
      BY <3>3, HoldingAre DEF HeldAfter, AroundAfter
    <3>4. CASE h = <<"result", b>>
      BY <3>4, HoldingAre DEF HeldAfter, AroundAfter
    <3> QED
      BY <2>2, <3>1, <3>2, <3>3, <3>4
  <2>3. ASSUME NEW c \in Conn, h = <<"got", c>>
        PROVE  g[h] = holding'[h]
    BY <2>3, HoldingAre DEF HeldAfter, AroundAfter
  <2> QED
    BY <2>1, <2>2, <2>3, HoldersAre
<1> QED
  BY <1>1, HoldingAre DEF HeldAfter, AroundAfter

LEMMA HoldingIs ==
    /\ holding = [h \in Holder |-> holding[h]]
    /\ holding[<<"list", 0>>] = list
    /\ \A b \in Board :
          /\ holding[<<"send", b>>] = IF agency[b] = "send" THEN handed[b] ELSE <<>>
          /\ holding[<<"down", b>>] = Of(down[b])
          /\ holding[<<"up", b>>] = Of(up[b])
          /\ holding[<<"result", b>>] = IF Returning(b) THEN <<result[b]>> ELSE <<>>
    /\ \A c \in Conn : holding[<<"got", c>>] = Of(got[c])
  BY HeldAre, AreHolders DEF holding

-----------------------------------------------------------------------------
(* What a step does to the places, action by action.                        *)
LEMMA Load_places ==
    ASSUME TypeOK, Load, <<conns, loaded + 1>> \in Picture
    PROVE  /\ Apart(holding) /\ ~ Somewhere(<<conns, loaded + 1>>, holding)
                 => Apart(holding')
           /\ \A q : Somewhere(q, holding') <=>
                        Somewhere(q, holding) \/ q = <<conns, loaded + 1>>
<1> DEFINE x == <<"list", 0>>
           g == Join(holding, x, <<conns, loaded + 1>>)
<1>1. /\ list' = Append(list, <<conns, loaded + 1>>)
      /\ UNCHANGED <<agency, handed, down, up, result, got>>
  BY DEF Load, Fifo!Enqueue, links
<1>2. g = [h \in Holder |-> IF h = x THEN list' ELSE holding[h]]
  BY <1>1, HoldingIs, AreHolders DEF Join
<1> HIDE DEF g
<1>3. HeldAfter(g)
  BY <1>1, <1>2, HoldingIs, AreHolders DEF Returning, HeldAfter, AroundAfter
<1>4. holding' = g
  BY <1>3, HoldingNext
<1>5. holding \in Holdings /\ x \in Holder
      /\ <<conns, loaded + 1>> \in Thing
  BY HoldingType, AreHolders, ThingsAre
<1> DEFINE p == <<conns, loaded + 1>>
<1> HIDE DEF p
<1>6. /\ Apart(holding) /\ (p = NoPicture \/ ~ Somewhere(p, holding))
            => Apart(Join(holding, x, p))
      /\ \A q : Somewhere(q, Join(holding, x, p)) <=> Somewhere(q, holding) \/ q = p
  BY <1>5, Comes DEF p
<1> QED
  BY <1>4, <1>6 DEF g, p

LEMMA ReadHeader_places ==
    ASSUME TypeOK, Messages, NEW b \in Board, ReadHeader(b)
    PROVE  /\ Apart(holding) => Apart(holding')
           /\ \A q \in Picture : Somewhere(q, holding') <=> Somewhere(q, holding)
<1> DEFINE x == <<"up", b>>
           y == <<"result", b>>
           m == up[b][1]
<1>1. /\ up[b] \in Seq(Message) /\ up[b] # <<>> /\ Head(up[b]) = m
      /\ 1 \in 1 .. Len(up[b]) /\ m \in Message
  BY Tailed DEF TypeOK, ReadHeader
<1>2. /\ Of(Tail(up[b])) = Tail(Of(up[b])) /\ Head(Of(up[b])) = m.of
      /\ Of(up[b]) # <<>> /\ m.of \in Thing
  BY <1>1, OfTail, ThingsAre
<1>3. Append(<<>>, m.of) = <<m.of>>
  BY <1>2, OneIs
<1>4. /\ up' = [up EXCEPT ![b] = Tail(up[b])] /\ up \in [Board -> Seq(Message)]
      /\ agency' = [agency EXCEPT ![b] = IF m.type = "get" THEN "asked" ELSE "result"]
      /\ agency[b] = "poll" /\ agency \in [Board -> {"poll", "asked", "sized", "send",
            "result", "add", "forward", "check", "close", "gone"}]
      /\ result' = [result EXCEPT ![b] = m.of]
      /\ result \in [Board -> Picture \union {NoPicture}]
      /\ UNCHANGED <<list, handed, down, got>>
  BY <1>1 DEF ReadHeader, TypeOK, page, fifo
<1>5. m.type = "get" => m.of = NoPicture
  BY <1>1 DEF Messages, MessagesOf
<1> HIDE DEF m
<1>6. /\ holding \in Holdings /\ x \in Holder /\ y \in Holder /\ x # y
      /\ holding[x] # <<>> /\ Head(holding[x]) = m.of
  BY <1>2, HoldingType, HoldingIs, AreHolders
<1>7. CASE m.type = "get"
  <2> DEFINE g == Behead(holding, x)
  <2>1. g = [h \in Holder |-> IF h = x THEN Of(up'[b]) ELSE holding[h]]
    BY <1>2, <1>4, HoldingIs, AreHolders DEF Behead
  <2> HIDE DEF g
  <2>2. HeldAfter(g)
    BY <1>4, <1>7, <2>1, HoldingIs, AreHolders DEF Returning, HeldAfter, AroundAfter
  <2>3. holding' = Behead(holding, x)
    BY <2>2, HoldingNext DEF g
  <2> QED
    BY <2>3, <1>5, <1>6, <1>7, Leaves, ThingsAre
<1>8. CASE m.type # "get"
  <2> DEFINE g == Join(Behead(holding, x), y, Head(holding[x]))
  <2>1. g = [h \in Holder |-> IF h = x THEN Of(up'[b])
                              ELSE IF h = y THEN <<m.of>> ELSE holding[h]]
    BY <1>2, <1>3, <1>4, <1>6, HoldingIs, AreHolders DEF Returning, Behead, Join
  <2> HIDE DEF g
  <2>2. HeldAfter(g)
    BY <1>4, <1>8, <2>1, HoldingIs, AreHolders DEF Returning, HeldAfter, AroundAfter
  <2>3. holding' = Join(Behead(holding, x), y, Head(holding[x]))
    BY <2>2, HoldingNext DEF g
  <2> QED
    BY <2>3, <1>6, Moves
<1> QED
  BY <1>7, <1>8

(* What an agency popped last, as a sequence of one.                        *)
LEMMA HandedIs ==
    ASSUME TypeOK, Messages, NEW b \in Board, handed[b] # <<>>
    PROVE  /\ handed[b] \in Seq(Picture) /\ handed[b][1] \in Picture
           /\ Head(handed[b]) = handed[b][1] /\ Tail(handed[b]) = <<>>
           /\ handed[b] = <<handed[b][1]>>
<1>1. handed[b] \in Seq(Picture) /\ Len(handed[b]) <= 1
  BY DEF TypeOK, Fifo!TypeOK, Messages, MessagesOf
<1>2. /\ Head(handed[b]) = handed[b][1] /\ Head(handed[b]) \in Picture
      /\ Tail(handed[b]) \in Seq(Picture) /\ Len(Tail(handed[b])) = Len(handed[b]) - 1
      /\ Len(handed[b]) \in Nat \ {0}
  BY <1>1, Tailed
<1>3. Len(handed[b]) = 1
  <2>1. \A n \in Nat \ {0} : n <= 1 => n = 1
    OBVIOUS
  <2> QED
    BY <1>1, <1>2, <2>1
<1>4. Tail(handed[b]) = <<>>
  <2>1. Len(Tail(handed[b])) = 0
    BY <1>2, <1>3
  <2> QED
    BY <1>2, <2>1, EmptyIs
<1>5. /\ <<handed[b][1]>> \in Seq(Picture) /\ Len(<<handed[b][1]>>) = 1
      /\ <<handed[b][1]>>[1] = handed[b][1]
  BY <1>2, OneIs
<1>6. \A i \in 1 .. Len(handed[b]) : handed[b][i] = <<handed[b][1]>>[i]
  BY <1>3, <1>5
<1>7. handed[b] = <<handed[b][1]>>
  BY <1>1, <1>3, <1>5, <1>6, SeqEqual
<1> QED
  BY <1>1, <1>2, <1>4, <1>7

LEMMA Still_places ==
    ASSUME UNCHANGED <<list, handed, down, up, result, got>>,
           \A b \in Board : /\ agency'[b] = "send" <=> agency[b] = "send"
                            /\ agency'[b] \in {"result", "add", "forward"}
                                  <=> Returning(b)
    PROVE  holding' = holding
<1>1. HeldAfter(holding)
  BY HoldingIs DEF HeldAfter, AroundAfter
<1> QED
  BY <1>1, HoldingNext

LEMMA LookForPicture_places ==
    ASSUME TypeOK, NEW b \in Board, LookForPicture(b)
    PROVE  /\ Apart(holding) => Apart(holding')
           /\ \A q \in Picture : Somewhere(q, holding') <=> Somewhere(q, holding)
<1> DEFINE x == <<"down", b>>
           m == Msg("none", NoPicture)
<1>1. /\ agency[b] = "asked" /\ agency'[b] \in {"sized", "poll"}
      /\ \A k \in Board : k # b => agency'[k] = agency[k]
      /\ UNCHANGED <<list, handed, up, result, got>>
  BY DEF LookForPicture, TypeOK, page, fifo
<1>2. CASE down' = down
  BY <1>1, <1>2, Still_places DEF Returning
<1>3. CASE down' = [down EXCEPT ![b] = Append(down[b], m)]
  <2> DEFINE g == Join(holding, x, NoPicture)
  <2>1. down \in [Board -> Seq(Message)] /\ m \in Message /\ m.of = NoPicture
    BY DEF TypeOK, Message, Msg
  <2> HIDE DEF m
  <2>2. Of(Append(down[b], m)) = Append(Of(down[b]), NoPicture)
    <3>1. down[b] \in Seq(Message) /\ \A k \in Message : k.of \in Thing
      BY <2>1, ThingsAre
    <3>2. Of(Append(down[b], m)) = Append(Of(down[b]), m.of)
      BY <2>1, <3>1, OfAppend
    <3> QED
      BY <2>1, <3>2
  <2>3. g = [h \in Holder |-> IF h = x THEN Of(down'[b]) ELSE holding[h]]
    BY <1>3, <2>1, <2>2, HoldingIs, AreHolders DEF Join
  <2> HIDE DEF g
  <2>4. HeldAfter(g)
    BY <1>1, <1>3, <2>1, <2>3, HoldingIs, AreHolders DEF Returning, HeldAfter, AroundAfter
  <2>5. holding' = Join(holding, x, NoPicture)
    BY <2>4, HoldingNext DEF g
  <2> QED
    BY <2>5, HoldingType, AreHolders, ThingsAre, Comes
<1>4. down' = down \/ down' = [down EXCEPT ![b] = Append(down[b], m)]
  BY DEF LookForPicture, Reply
<1> QED
  BY <1>2, <1>3, <1>4

LEMMA PopPicture_places ==
    ASSUME TypeOK, NEW b \in Board, PopPicture(b)
    PROVE  /\ Apart(holding) => Apart(holding')
           /\ \A q \in Picture : Somewhere(q, holding') <=> Somewhere(q, holding)
<1> DEFINE x == <<"list", 0>>
           y == <<"send", b>>
           g == Join(Behead(holding, x), y, Head(holding[x]))
<1>1. /\ agency[b] = "sized" /\ agency' = [agency EXCEPT ![b] = "send"]
      /\ list # <<>> /\ list' = Tail(list)
      /\ handed' = [handed EXCEPT ![b] = <<Head(list)>>]
      /\ UNCHANGED <<up, down, result, got>>
  BY DEF PopPicture, Fifo!Deliver, links, page
<1>2. /\ list \in Seq(Picture) /\ handed \in [Board -> Seq(Picture)]
      /\ agency \in [Board -> {"poll", "asked", "sized", "send",
            "result", "add", "forward", "check", "close", "gone"}]
  BY DEF TypeOK, Fifo!TypeOK
<1>3. Append(<<>>, Head(list)) = <<Head(list)>>
  BY <1>1, <1>2, Tailed, OneIs
<1>4. /\ holding \in Holdings /\ x \in Holder /\ y \in Holder /\ x # y
      /\ holding[x] = list /\ holding[y] = <<>>
  BY <1>1, HoldingType, HoldingIs, AreHolders
<1>5. g = [h \in Holder |-> IF h = x THEN list'
                            ELSE IF h = y THEN <<Head(list)>> ELSE holding[h]]
  BY <1>1, <1>3, <1>4, HoldingIs DEF Behead, Join
<1> HIDE DEF g
<1>6. HeldAfter(g)
  BY <1>1, <1>2, <1>5, HoldingIs, AreHolders DEF Returning, HeldAfter, AroundAfter
<1>7. holding' = Join(Behead(holding, x), y, Head(holding[x]))
  BY <1>6, HoldingNext DEF g
<1> QED
  BY <1>7, <1>1, <1>4, Moves

LEMMA SendPicture_places ==
    ASSUME TypeOK, Messages, NEW b \in Board, SendPicture(b)
    PROVE  /\ Apart(holding) => Apart(holding')
           /\ \A q \in Picture : Somewhere(q, holding') => Somewhere(q, holding)
           /\ linked[b] => \A q \in Picture : Somewhere(q, holding) => Somewhere(q, holding')
<1> DEFINE x == <<"send", b>>
           y == <<"down", b>>
           p == handed[b][1]
           m == Msg("picture", p)
<1>1. /\ agency[b] = "send" /\ agency'[b] \in {"poll", "gone"}
      /\ \A k \in Board : k # b => agency'[k] = agency[k]
      /\ down' = IF linked[b] THEN [down EXCEPT ![b] = Append(down[b], m)] ELSE down
      /\ UNCHANGED <<list, handed, up, result, got>>
  BY DEF SendPicture, Reply, TypeOK, page, fifo
<1>2. /\ handed[b] # <<>> /\ handed[b][1] = p /\ p \in Picture
      /\ Head(handed[b]) = p /\ Tail(handed[b]) = <<>>
  BY <1>1, HandedIs DEF Messages, MessagesOf
<1>3. down \in [Board -> Seq(Message)] /\ m \in Message /\ m.of = p
  BY <1>2 DEF TypeOK, Message, Msg
<1>4. Of(Append(down[b], m)) = Append(Of(down[b]), p)
  BY <1>3, OfAppend, ThingsAre
<1> HIDE DEF p, m
<1>5. /\ holding \in Holdings /\ x \in Holder /\ y \in Holder /\ x # y
      /\ holding[x] # <<>> /\ Head(holding[x]) = p /\ Tail(holding[x]) = <<>>
      /\ holding[y] = Of(down[b])
  BY <1>1, <1>2, HoldingType, HoldingIs, AreHolders
<1>6. CASE ~ linked[b]
  <2> DEFINE g == Behead(holding, x)
  <2>1. g = [h \in Holder |-> IF h = x THEN <<>> ELSE holding[h]]
    BY <1>5, HoldingIs DEF Behead
  <2> HIDE DEF g
  <2>2. HeldAfter(g)
    BY <1>1, <1>6, <2>1, HoldingIs, AreHolders DEF Returning, HeldAfter, AroundAfter
  <2>3. holding' = Behead(holding, x)
    BY <2>2, HoldingNext DEF g
  <2> QED
    BY <2>3, <1>5, <1>6, Leaves
<1>7. CASE linked[b]
  <2> DEFINE g == Join(Behead(holding, x), y, Head(holding[x]))
  <2>1. g = [h \in Holder |-> IF h = x THEN <<>>
                              ELSE IF h = y THEN Of(down'[b]) ELSE holding[h]]
    BY <1>1, <1>3, <1>4, <1>5, <1>7, HoldingIs DEF Behead, Join
  <2> HIDE DEF g
  <2>2. \A k \in Board : down'[k] = down[k] \/ k = b
    BY <1>1, <1>3, <1>7
  <2>3. /\ g = [h \in Holder |-> g[h]] /\ g[<<"list", 0>>] = list'
        /\ \A c \in Conn : g[<<"got", c>>] = Of(got'[c])
    <3>1. g = [h \in Holder |-> g[h]]
      BY <2>1
    <3>2. g[<<"list", 0>>] = list'
      BY <1>1, <2>1, HoldingIs, AreHolders
    <3>3. \A c \in Conn : g[<<"got", c>>] = Of(got'[c])
      BY <1>1, <2>1, HoldingIs, AreHolders
    <3> QED
      BY <3>1, <3>2, <3>3
  <2>4. ASSUME NEW k \in Board
        PROVE  AroundAfter(g, k)
    <3>1. CASE k = b
      BY <3>1, <1>1, <2>1, HoldingIs, AreHolders DEF Returning, AroundAfter
    <3>2. CASE k # b
      BY <3>2, <1>1, <2>1, <2>2, HoldingIs, AreHolders DEF Returning, AroundAfter
    <3> QED
      BY <3>1, <3>2
  <2>5. HeldAfter(g)
    BY <2>3, <2>4 DEF HeldAfter
  <2>6. holding' = Join(Behead(holding, x), y, Head(holding[x]))
    BY <2>5, HoldingNext DEF g
  <2> QED
    BY <2>6, <1>5, Moves
<1> QED
  BY <1>6, <1>7

LEMMA ForwardResult_places ==
    ASSUME TypeOK, Messages, NEW b \in Board, ForwardResult(b),
           clientFd[b] \in Conn
    PROVE  /\ Apart(holding) => Apart(holding')
           /\ \A q \in Picture : Somewhere(q, holding') => Somewhere(q, holding)
           /\ owner[clientFd[b]] # 0 =>
                 \A q \in Picture : Somewhere(q, holding) => Somewhere(q, holding')
<1> DEFINE c == owner[clientFd[b]]
           p == result[b]
           m == [number |-> handed[b][1], of |-> p]
           R == [number : Picture, of : Picture]
           x == <<"result", b>>
           y == <<"got", c>>
<1>1. /\ agency[b] = "forward" /\ agency'[b] = "check"
      /\ \A k \in Board : k # b => agency'[k] = agency[k]
      /\ got' = IF c = 0 THEN got ELSE [got EXCEPT ![c] = Append(got[c], m)]
      /\ UNCHANGED <<list, handed, up, down, result>>
  BY DEF ForwardResult, TypeOK, links, fifo
<1>2. p \in Picture /\ handed[b][1] \in Picture /\ c \in Conn \union {0}
  <2>1. Returning(b) /\ handed[b] # <<>> /\ result[b] # NoPicture
    BY <1>1 DEF Messages, MessagesOf, Returning
  <2>2. handed[b][1] \in Picture
    BY <2>1, HandedIs
  <2> QED
    BY <2>1, <2>2 DEF TypeOK
<1>3. got \in [Conn -> Seq(R)] /\ m \in R /\ m.of = p
  BY <1>2 DEF TypeOK
<1>4. <<p>> # <<>> /\ Head(<<p>>) = p /\ Tail(<<p>>) = <<>>
  OBVIOUS
<1>5. \A k \in R : k.of \in Thing
  BY ThingsAre
<1> HIDE DEF c, p, m, R
<1>6. /\ holding \in Holdings /\ x \in Holder
      /\ holding[x] = <<p>>
  BY <1>1, HoldingType, HoldingIs, AreHolders DEF Returning, p
<1>7. CASE c = 0
  <2> DEFINE g == Behead(holding, x)
  <2>1. g = [h \in Holder |-> IF h = x THEN <<>> ELSE holding[h]]
    BY <1>4, <1>6, HoldingIs DEF Behead
  <2> HIDE DEF g
  <2>2. HeldAfter(g)
    BY <1>1, <1>7, <2>1, HoldingIs, AreHolders DEF Returning, HeldAfter, AroundAfter
  <2>3. holding' = Behead(holding, x)
    BY <2>2, HoldingNext DEF g
  <2> QED
    BY <2>3, <1>4, <1>6, <1>7, Leaves DEF c
<1>8. CASE c # 0
  <2> DEFINE g == Join(Behead(holding, x), y, Head(holding[x]))
  <2>1. c \in Conn /\ y \in Holder /\ x # y /\ holding[y] = Of(got[c])
    BY <1>2, <1>8, HoldingIs, AreHolders
  <2>2. Of(Append(got[c], m)) = Append(Of(got[c]), p)
    <3>1. got[c] \in Seq(R)
      BY <1>3, <2>1
    <3>2. Of(Append(got[c], m)) = Append(Of(got[c]), m.of)
      BY <1>3, <1>5, <3>1, OfAppend
    <3> QED
      BY <1>3, <3>2
  <2>3. got'[c] = Append(got[c], m) /\ \A k \in Conn : k # c => got'[k] = got[k]
    BY <1>1, <1>3, <1>8, <2>1
  <2>4. g = [h \in Holder |-> IF h = x THEN <<>>
                              ELSE IF h = y THEN Of(got'[c]) ELSE holding[h]]
    BY <1>4, <1>6, <2>1, <2>2, <2>3, HoldingIs DEF Behead, Join
  <2> HIDE DEF g
  <2>5. g = [h \in Holder |-> g[h]]
    BY <2>4
  <2>6. g[<<"list", 0>>] = list'
    BY <1>1, <2>4, HoldingIs, AreHolders
  <2>7. ASSUME NEW k \in Conn PROVE g[<<"got", k>>] = Of(got'[k])
    <3>1. CASE k = c
      BY <3>1, <2>1, <2>4
    <3>2. CASE k # c
      BY <3>2, <2>3, <2>4, HoldingIs, AreHolders
    <3> QED
      BY <3>1, <3>2
  <2>8. ASSUME NEW k \in Board PROVE AroundAfter(g, k)
    <3>1. CASE k = b
      BY <3>1, <1>1, <2>4, HoldingIs, AreHolders DEF Returning, AroundAfter
    <3>2. CASE k # b
      BY <3>2, <1>1, <2>4, HoldingIs, AreHolders DEF Returning, AroundAfter
    <3> QED
      BY <3>1, <3>2
  <2>9. HeldAfter(g)
    BY <2>5, <2>6, <2>7, <2>8 DEF HeldAfter
  <2>10. holding' = Join(Behead(holding, x), y, Head(holding[x]))
    BY <2>9, HoldingNext DEF g
  <2> QED
    BY <2>1, <2>10, <1>4, <1>6, Moves
<1> QED
  BY <1>7, <1>8

LEMMA Ask_places ==
    ASSUME TypeOK, NEW b \in Board, Ask(b)
    PROVE  /\ Apart(holding) => Apart(holding')
           /\ \A q \in Picture : Somewhere(q, holding') <=> Somewhere(q, holding)
<1> DEFINE x == <<"up", b>>
           m == Msg("get", NoPicture)
           g == Join(holding, x, NoPicture)
<1>1. /\ up' = [up EXCEPT ![b] = Append(up[b], m)]
      /\ UNCHANGED <<list, handed, down, result, got, agency>>
  BY DEF Ask, page, fifo
<1>2. up \in [Board -> Seq(Message)] /\ m \in Message /\ m.of = NoPicture
  BY DEF TypeOK, Message, Msg
<1> HIDE DEF m
<1>3. Of(Append(up[b], m)) = Append(Of(up[b]), NoPicture)
  <2>1. up[b] \in Seq(Message) /\ \A k \in Message : k.of \in Thing
    BY <1>2, ThingsAre
  <2>2. Of(Append(up[b], m)) = Append(Of(up[b]), m.of)
    BY <1>2, <2>1, OfAppend
  <2> QED
    BY <1>2, <2>2
<1>4. g = [h \in Holder |-> IF h = x THEN Of(up'[b]) ELSE holding[h]]
  BY <1>1, <1>2, <1>3, HoldingIs, AreHolders DEF Join
<1> HIDE DEF g
<1>5. HeldAfter(g)
  BY <1>1, <1>2, <1>4, HoldingIs, AreHolders DEF Returning, HeldAfter, AroundAfter
<1>6. holding' = Join(holding, x, NoPicture)
  BY <1>5, HoldingNext DEF g
<1> QED
  BY <1>6, HoldingType, AreHolders, ThingsAre, Comes

(* The head of a link.                                                      *)
LEMMA DownIs ==
    ASSUME TypeOK, NEW b \in Board, down[b] # <<>>
    PROVE  /\ down \in [Board -> Seq(Message)] /\ down[b] \in Seq(Message)
           /\ Head(down[b]) = down[b][1] /\ down[b][1] \in Message
           /\ down[b][1].of \in Thing /\ 1 \in 1 .. Len(down[b])
           /\ Of(Tail(down[b])) = Tail(Of(down[b]))
           /\ Head(Of(down[b])) = down[b][1].of /\ Of(down[b]) # <<>>
<1>1. /\ down \in [Board -> Seq(Message)] /\ down[b] \in Seq(Message)
      /\ \A k \in Message : k.of \in Thing
  BY ThingsAre DEF TypeOK
<1>2. /\ Head(down[b]) = down[b][1] /\ Head(down[b]) \in Message
      /\ Len(down[b]) \in Nat \ {0}
  BY <1>1, Tailed
<1>3. /\ Of(Tail(down[b])) = Tail(Of(down[b])) /\ Head(Of(down[b])) = down[b][1].of
      /\ Of(down[b]) # <<>>
  BY <1>1, OfTail
<1> QED
  BY <1>1, <1>2, <1>3

LEMMA ReceiveAnswer_places ==
    ASSUME TypeOK, Messages, NEW b \in Board, ReceiveAnswer(b)
    PROVE  /\ Apart(holding) => Apart(holding')
           /\ \A q \in Picture : Somewhere(q, holding') <=> Somewhere(q, holding)
<1> DEFINE x == <<"down", b>>
<1>1. down[b] # <<>> /\ UNCHANGED <<list, handed, up, result, got, agency>>
  BY DEF ReceiveAnswer, page, fifo
<1>2. down' = IF down[b][1].type = "none" THEN [down EXCEPT ![b] = Tail(down[b])] ELSE down
  BY <1>1, DownIs DEF ReceiveAnswer
<1>3. CASE down[b][1].type # "none"
  BY <1>1, <1>2, <1>3, Still_places DEF Returning
<1>4. CASE down[b][1].type = "none"
  <2> DEFINE g == Behead(holding, x)
  <2>1. down[b][1].of = NoPicture
    BY <1>1, <1>4, DownIs DEF Messages, MessagesOf
  <2>2. /\ down' = [down EXCEPT ![b] = Tail(down[b])]
        /\ down \in [Board -> Seq(Message)]
        /\ Of(Tail(down[b])) = Tail(Of(down[b]))
        /\ Head(Of(down[b])) = NoPicture /\ Of(down[b]) # <<>>
    BY <1>1, <1>2, <1>4, <2>1, DownIs
  <2>3. g = [h \in Holder |-> IF h = x THEN Of(down'[b]) ELSE holding[h]]
    BY <2>2, HoldingIs, AreHolders DEF Behead
  <2> HIDE DEF g
  <2>4. HeldAfter(g)
    BY <1>1, <2>2, <2>3, HoldingIs, AreHolders DEF Returning, HeldAfter, AroundAfter
  <2>5. holding' = Behead(holding, x)
    BY <2>4, HoldingNext DEF g
  <2>6. holding \in Holdings /\ x \in Holder /\ holding[x] = Of(down[b])
    BY HoldingType, HoldingIs, AreHolders
  <2> QED
    BY <2>2, <2>5, <2>6, Leaves, ThingsAre
<1> QED
  BY <1>3, <1>4

LEMMA Detect_places ==
    ASSUME TypeOK, NEW b \in Board, Detect(b), down[b] # <<>>
    PROVE  /\ Apart(holding) => Apart(holding')
           /\ \A q \in Picture : Somewhere(q, holding') <=> Somewhere(q, holding)
<1> DEFINE x == <<"down", b>>
           y == <<"up", b>>
           p == down[b][1].of
           m == Msg("result", p)
           g == Join(Behead(holding, x), y, Head(holding[x]))
<1>1. /\ up' = [up EXCEPT ![b] = Append(up[b], m)]
      /\ down' = [down EXCEPT ![b] = Tail(down[b])]
      /\ UNCHANGED <<list, handed, result, got, agency>>
  BY DownIs DEF Detect, page, fifo
<1>2. /\ up \in [Board -> Seq(Message)] /\ down \in [Board -> Seq(Message)]
      /\ m \in Message /\ m.of = p
  BY DownIs DEF TypeOK, Message, Msg, Thing
<1>3. /\ Of(Tail(down[b])) = Tail(Of(down[b]))
      /\ Head(Of(down[b])) = p /\ Of(down[b]) # <<>>
  BY DownIs
<1> HIDE DEF m, p
<1>4. Of(Append(up[b], m)) = Append(Of(up[b]), p)
  <2>1. up[b] \in Seq(Message) /\ \A k \in Message : k.of \in Thing
    BY <1>2, ThingsAre
  <2>2. Of(Append(up[b], m)) = Append(Of(up[b]), m.of)
    BY <1>2, <2>1, OfAppend
  <2> QED
    BY <1>2, <2>2
<1>5. /\ holding \in Holdings /\ x \in Holder /\ y \in Holder /\ x # y
      /\ holding[x] = Of(down[b]) /\ holding[y] = Of(up[b])
  BY HoldingType, HoldingIs, AreHolders
<1>6. down'[b] = Tail(down[b]) /\ up'[b] = Append(up[b], m)
      /\ \A k \in Board : k # b => down'[k] = down[k] /\ up'[k] = up[k]
  BY <1>1, <1>2
<1>7. g = [h \in Holder |-> IF h = x THEN Of(down'[b])
                            ELSE IF h = y THEN Of(up'[b]) ELSE holding[h]]
  BY <1>3, <1>4, <1>5, <1>6, HoldingIs DEF Behead, Join
<1> HIDE DEF g
<1>8. HeldAfter(g)
  <2>1. g = [h \in Holder |-> g[h]]
    BY <1>7
  <2>2. g[<<"list", 0>>] = list'
    BY <1>1, <1>7, HoldingIs, AreHolders
  <2>3. \A k \in Conn : g[<<"got", k>>] = Of(got'[k])
    BY <1>1, <1>7, HoldingIs, AreHolders
  <2>4. ASSUME NEW k \in Board PROVE AroundAfter(g, k)
    <3>1. CASE k = b
      BY <3>1, <1>1, <1>7, HoldingIs, AreHolders DEF Returning, AroundAfter
    <3>2. CASE k # b
      BY <3>2, <1>1, <1>6, <1>7, HoldingIs, AreHolders DEF Returning, AroundAfter
    <3> QED
      BY <3>1, <3>2
  <2> QED
    BY <2>1, <2>2, <2>3, <2>4 DEF HeldAfter
<1>9. holding' = Join(Behead(holding, x), y, Head(holding[x]))
  BY <1>8, HoldingNext DEF g
<1> QED
  BY <1>3, <1>5, <1>9, Moves

LEMMA Die_places ==
    ASSUME TypeOK, NEW b \in Board, Die(b)
    PROVE  /\ Apart(holding) => Apart(holding')
           /\ \A q \in Picture : Somewhere(q, holding') => Somewhere(q, holding)
<1> DEFINE x == <<"down", b>>
           g == Empty(holding, x)
<1>1. /\ down' = [down EXCEPT ![b] = <<>>] /\ down \in [Board -> Seq(Message)]
      /\ UNCHANGED <<list, handed, up, result, got, agency>>
  BY DEF Die, TypeOK, page, fifo
<1>2. Of(<<>>) = <<>>
  BY DEF Of
<1>3. g = [h \in Holder |-> IF h = x THEN Of(down'[b]) ELSE holding[h]]
  BY <1>1, <1>2, HoldingIs, AreHolders DEF Empty
<1> HIDE DEF g
<1>4. HeldAfter(g)
  BY <1>1, <1>3, HoldingIs, AreHolders DEF Returning, HeldAfter, AroundAfter
<1>5. holding' = Empty(holding, x)
  BY <1>4, HoldingNext DEF g
<1> QED
  BY <1>5, HoldingType, AreHolders, Vanishes

LEMMA Reconnect_places ==
    ASSUME TypeOK, NEW b \in Board, Reconnect(b)
    PROVE  /\ Apart(holding) => Apart(holding')
           /\ \A q \in Picture : Somewhere(q, holding') => Somewhere(q, holding)
<1> DEFINE x == <<"up", b>>
           g == Empty(holding, x)
<1>1. /\ up' = [up EXCEPT ![b] = <<>>] /\ up \in [Board -> Seq(Message)]
      /\ UNCHANGED <<list, handed, down, result, got, agency>>
  BY DEF Reconnect, TypeOK, page, fifo
<1>2. Of(<<>>) = <<>>
  BY DEF Of
<1>3. g = [h \in Holder |-> IF h = x THEN Of(up'[b]) ELSE holding[h]]
  BY <1>1, <1>2, HoldingIs, AreHolders DEF Empty
<1> HIDE DEF g
<1>4. HeldAfter(g)
  BY <1>1, <1>3, HoldingIs, AreHolders DEF Returning, HeldAfter, AroundAfter
<1>5. holding' = Empty(holding, x)
  BY <1>4, HoldingNext DEF g
<1> QED
  BY <1>5, HoldingType, AreHolders, Vanishes

-----------------------------------------------------------------------------
(* The invariant: first what is initially true.                             *)
LEMMA InitDispatch == Init => DispatchInv /\ \A b \in Board : InStep(b)
<1> SUFFICES ASSUME Init PROVE DispatchInv /\ \A b \in Board : InStep(b)
  OBVIOUS
<1>1. /\ PerConn \in Nat \ {0} /\ MaxConns \in Nat \ {0} /\ MaxDeaths \in Nat
      /\ Limit \in Nat \ {0}
  BY PictureDispatchAssumption
<1>2. /\ conns = 0 /\ loaded = PerConn /\ list = <<>> /\ held = {}
      /\ owner = [f \in Conn |-> 0] /\ clientFd = [b \in Board |-> 0]
      /\ got = [c \in Conn |-> <<>>] /\ handed = [b \in Board |-> <<>>]
      /\ flagGet = 0 /\ read = [b \in Board |-> 0]
      /\ agency = [b \in Board |-> "poll"] /\ result = [b \in Board |-> NoPicture]
      /\ up = [b \in Board |-> <<>>] /\ down = [b \in Board |-> <<>>]
      /\ linked = [b \in Board |-> TRUE] /\ board = [b \in Board |-> "ask"]
      /\ deaths = [b \in Board |-> 0]
  BY DEF Init, Fifo!Init
<1>3. \A S : <<>> \in Seq(S) /\ Len(<<>>) = 0
  BY EmptySeq
<1>4. TypeOK
  BY <1>1, <1>2, <1>3 DEF TypeOK, Fifo!TypeOK, Conn
<1>5. Messages
  BY <1>2, <1>3 DEF Messages, MessagesOf, Returning
<1>6. Links
  BY <1>2 DEF Links, LinkOf
<1>7. Descriptors
  BY <1>2 DEF Descriptors
<1>8. \A h \in Holder : holding[h] = <<>>
  <2>1. Of(<<>>) = <<>>
    BY DEF Of
  <2> QED
    BY <1>2, <2>1, HoldersAre, HoldingIs DEF Returning
<1>9. \A q : ~ Somewhere(q, holding)
  BY <1>3, <1>8, HoldingIs DEF Somewhere
<1>10. Apart(holding)
  BY <1>3, <1>8, HoldingIs DEF Apart
<1>11. Sent = {}
  BY <1>1, <1>2 DEF Sent, Picture, Conn
<1>12. Placed
  BY <1>9, <1>10, <1>11 DEF Placed
<1>13. \A b \in Board : InStep(b)
  BY <1>2, <1>3 DEF InStep, Known, Idle
<1> QED
  BY <1>4, <1>5, <1>6, <1>7, <1>12, <1>13 DEF DispatchInv, Formed

-----------------------------------------------------------------------------
(* Every step keeps the messages, links and descriptors in form.            *)
LEMMA OtherMessages ==
    ASSUME NEW k \in Board, MessagesOf(k), handed'[k] = handed[k], up'[k] = up[k],
           down'[k] = down[k], agency'[k] = agency[k], result'[k] = result[k]
    PROVE  MessagesOf(k)'
  BY DEF MessagesOf, Returning

LEMMA OtherLinks ==
    ASSUME NEW k \in Board, LinkOf(k), linked'[k] = linked[k], board'[k] = board[k],
           deaths'[k] = deaths[k], down'[k] = down[k]
    PROVE  LinkOf(k)'
  BY DEF LinkOf

LEMMA Accept_formed ==
    ASSUME Formed, Accept
    PROVE  Formed'
<1>1. TypeOK /\ Messages /\ Links /\ Descriptors
  BY DEF Formed
<1>2. PICK f \in Conn : /\ owner' = [owner EXCEPT ![f] = conns + 1]
                        /\ clientFd' = [b \in Board |-> f]
  BY DEF Accept
<1>3. /\ conns < MaxConns /\ conns' = conns + 1 /\ loaded' = 0
      /\ UNCHANGED <<got, fifo, flagGet, read, agency, result, links, board, deaths>>
  BY DEF Accept
<1>4. conns \in Nat /\ MaxConns \in Nat /\ conns + 1 \in Conn /\ conns + 1 \in 0 .. MaxConns
      /\ PerConn \in Nat \ {0}
  BY <1>1, <1>3, PictureDispatchAssumption DEF TypeOK, Conn
<1>5. owner \in [Conn -> Conn \union {0}]
  BY <1>1 DEF TypeOK
<1>6. TypeOK'
  <2>1. owner' \in [Conn -> Conn \union {0}] /\ clientFd' \in [Board -> Conn \union {0}]
    BY <1>2, <1>4, <1>5
  <2>2. conns' \in 0 .. MaxConns /\ loaded' \in 0 .. PerConn
    BY <1>3, <1>4
  <2> QED
    BY <1>1, <1>3, <2>1, <2>2 DEF TypeOK, Fifo!TypeOK, fifo, links
<1>7. Messages'
  BY <1>1, <1>3 DEF Messages, MessagesOf, Returning, fifo, links
<1>8. Links'
  BY <1>1, <1>3 DEF Links, LinkOf, links
<1>9. Descriptors'
  <2>1. \A g \in Conn : owner'[g] = IF g = f THEN conns + 1 ELSE owner[g]
    BY <1>2, <1>5
  <2>2. \A g \in Conn : owner[g] <= conns /\ owner[g] \in Nat
    BY <1>1, <1>5 DEF Descriptors, Conn
  <2>3. \A g \in Conn : owner'[g] <= conns'
    BY <2>1, <2>2, <1>3, <1>4
  <2>4. \A g \in Conn : owner'[g] = conns' => g = f
    BY <2>1, <2>2, <1>3, <1>4
  <2> QED
    BY <2>1, <2>3, <2>4, <1>2, <1>3, <1>4 DEF Descriptors
<1> QED
  BY <1>6, <1>7, <1>8, <1>9 DEF Formed

LEMMA Load_formed ==
    ASSUME Formed, Load
    PROVE  Formed' /\ <<conns, loaded + 1>> \in Picture
<1>1. TypeOK /\ Messages /\ Links /\ Descriptors
  BY DEF Formed
<1>2. /\ loaded < PerConn /\ loaded' = loaded + 1
      /\ Fifo!Enqueue(Loader, <<conns, loaded + 1>>)
      /\ UNCHANGED <<conns, owner, clientFd, got, flagGet, read, agency, result,
                     links, board, deaths>>
  BY DEF Load
<1>3. /\ conns \in 0 .. MaxConns /\ loaded \in 0 .. PerConn /\ PerConn \in Nat \ {0}
      /\ MaxConns \in Nat \ {0} /\ conns # 0
  BY <1>1, <1>2, PictureDispatchAssumption DEF TypeOK, Descriptors
<1>4. <<conns, loaded + 1>> \in Picture /\ loaded + 1 \in 0 .. PerConn
  BY <1>2, <1>3 DEF Picture, Conn
<1>5. /\ list' = Append(list, <<conns, loaded + 1>>) /\ UNCHANGED handed
      /\ held' \subseteq {Loader}
  BY <1>1, <1>2 DEF Fifo!Enqueue, TypeOK, Fifo!TypeOK
<1>6. list' \in Seq(Picture)
  BY <1>1, <1>4, <1>5, Appended DEF TypeOK, Fifo!TypeOK
<1>7. TypeOK'
  BY <1>1, <1>2, <1>4, <1>5, <1>6 DEF TypeOK, Fifo!TypeOK, links
<1>8. Messages'
  BY <1>1, <1>2, <1>5 DEF Messages, MessagesOf, Returning, links
<1>9. Links' /\ Descriptors'
  BY <1>1, <1>2, <1>3 DEF Links, LinkOf, links, Descriptors
<1> QED
  BY <1>4, <1>7, <1>8, <1>9 DEF Formed

LEMMA LoaderGoesOn_formed ==
    ASSUME Formed, LoaderGoesOn
    PROVE  Formed'
<1>1. TypeOK /\ Messages /\ Links /\ Descriptors
  BY DEF Formed
<1>2. /\ held' \subseteq held
      /\ UNCHANGED <<page, list, handed, flagGet, read, agency, result, links,
                     board, deaths>>
  BY DEF LoaderGoesOn, Fifo!Release
<1>3. TypeOK'
  BY <1>1, <1>2 DEF TypeOK, Fifo!TypeOK, links, page
<1>4. Messages' /\ Links' /\ Descriptors'
  BY <1>1, <1>2 DEF Messages, MessagesOf, Returning, links, page, Links, LinkOf,
                    Descriptors
<1> QED
  BY <1>3, <1>4 DEF Formed

LEMMA ReadHeader_formed ==
    ASSUME Formed, NEW b \in Board, ReadHeader(b)
    PROVE  Formed'
<1>1. TypeOK /\ Messages /\ Links /\ Descriptors
  BY DEF Formed
<1> DEFINE m == up[b][1]
<1>2. /\ up \in [Board -> Seq(Message)] /\ up[b] \in Seq(Message) /\ up[b] # <<>>
  BY <1>1 DEF TypeOK, ReadHeader
<1>3. /\ Head(up[b]) = m /\ m \in Message /\ Tail(up[b]) \in Seq(Message)
      /\ Len(Tail(up[b])) = Len(up[b]) - 1 /\ Len(up[b]) \in Nat \ {0}
      /\ \A i \in 1 .. Len(up[b]) - 1 : Tail(up[b])[i] = up[b][i + 1]
  BY <1>2, Tailed
<1>4. /\ up' = [up EXCEPT ![b] = Tail(up[b])]
      /\ agency' = [agency EXCEPT ![b] = IF m.type = "get" THEN "asked" ELSE "result"]
      /\ result' = [result EXCEPT ![b] = m.of]
      /\ UNCHANGED <<page, fifo, flagGet, read, down, linked, board, deaths>>
  BY <1>3 DEF ReadHeader
<1>5. m.of \in Picture \union {NoPicture}
  BY <1>3 DEF Message
<1>6. TypeOK'
  BY <1>1, <1>2, <1>3, <1>4, <1>5 DEF TypeOK, Fifo!TypeOK, page, fifo
<1>7. 1 \in 1 .. Len(up[b]) /\ \A i \in 1 .. Len(up[b]) - 1 : i + 1 \in 1 .. Len(up[b])
  BY <1>3
<1>8. MessagesOf(b)
  BY <1>1 DEF Messages
<1>9. up'[b] = Tail(up[b]) /\ handed'[b] = handed[b] /\ down'[b] = down[b]
      /\ agency'[b] = (IF m.type = "get" THEN "asked" ELSE "result")
      /\ result'[b] = m.of
  BY <1>1, <1>2, <1>4 DEF fifo, TypeOK
<1>10. \A i \in 1 .. Len(up'[b]) :
          \/ up'[b][i].type = "get" /\ up'[b][i].of = NoPicture
          \/ up'[b][i].type = "result" /\ up'[b][i].of # NoPicture
  BY <1>3, <1>7, <1>8, <1>9 DEF MessagesOf
<1>11. \/ m.type = "get" /\ m.of = NoPicture
       \/ m.type = "result" /\ m.of # NoPicture /\ handed[b] # <<>>
  BY <1>7, <1>8 DEF MessagesOf
<1>12. handed[b] = <<>> => \A i \in 1 .. Len(up'[b]) : up'[b][i].type = "get"
  BY <1>3, <1>7, <1>8, <1>9 DEF MessagesOf
<1> HIDE DEF m
<1>13. MessagesOf(b)'
  BY <1>8, <1>9, <1>10, <1>11, <1>12 DEF MessagesOf, Returning
<1>14. \A k \in Board : k # b => MessagesOf(k)'
  BY <1>1, <1>2, <1>4, OtherMessages DEF Messages, fifo, TypeOK
<1>15. Messages'
  BY <1>13, <1>14 DEF Messages
<1>16. Links' /\ Descriptors'
  BY <1>1, <1>4 DEF Links, LinkOf, Descriptors, page
<1> QED
  BY <1>6, <1>15, <1>16 DEF Formed

LEMMA LookForPicture_formed ==
    ASSUME Formed, NEW b \in Board, LookForPicture(b)
    PROVE  Formed'
<1>1. TypeOK /\ Messages /\ Links /\ Descriptors
  BY DEF Formed
<1> DEFINE m == Msg("none", NoPicture)
<1>2. /\ agency' = [agency EXCEPT ![b] = agency'[b]] /\ agency'[b] \in {"sized", "poll"}
      /\ \/ down' = down
         \/ down' = [down EXCEPT ![b] = Append(down[b], m)] /\ board[b] # "connect"
      /\ UNCHANGED <<page, fifo, flagGet, read, result, up, linked, board, deaths>>
  <2>1. agency \in [Board -> {"poll", "asked", "sized", "send", "result", "add",
                             "forward", "check", "close", "gone"}]
    BY <1>1 DEF TypeOK
  <2>2. agency' = [agency EXCEPT ![b] = agency'[b]] /\ agency'[b] \in {"sized", "poll"}
    BY <2>1 DEF LookForPicture
  <2>3. linked[b] => board[b] # "connect"
    BY <1>1 DEF Links, LinkOf
  <2>4. down' = down \/ (down' = [down EXCEPT ![b] = Append(down[b], m)] /\ linked[b])
    BY DEF LookForPicture, Reply
  <2>5. UNCHANGED <<page, fifo, flagGet, read, result, up, linked, board, deaths>>
    BY DEF LookForPicture
  <2> QED
    BY <2>2, <2>3, <2>4, <2>5
<1>3. /\ down \in [Board -> Seq(Message)] /\ down[b] \in Seq(Message)
      /\ m \in Message /\ m.type = "none" /\ m.of = NoPicture
  BY <1>1 DEF TypeOK, Message, Msg
<1> HIDE DEF m
<1>4. /\ Append(down[b], m) \in Seq(Message) /\ Append(down[b], m) # <<>>
      /\ Len(Append(down[b], m)) = Len(down[b]) + 1 /\ Len(down[b]) \in Nat
      /\ \A i \in 1 .. Len(down[b]) + 1 :
            Append(down[b], m)[i] = IF i = Len(down[b]) + 1 THEN m ELSE down[b][i]
  BY <1>3, Appended
<1>5. TypeOK'
  <2>1. down' \in [Board -> Seq(Message)]
    BY <1>2, <1>3, <1>4
  <2>2. agency' \in [Board -> {"poll", "asked", "sized", "send", "result", "add",
                              "forward", "check", "close", "gone"}]
    BY <1>1, <1>2 DEF TypeOK
  <2> QED
    BY <1>1, <1>2, <2>1, <2>2 DEF TypeOK, Fifo!TypeOK, page, fifo
<1>6. down'[b] = down[b] \/ down'[b] = Append(down[b], m)
  BY <1>2, <1>3
<1>7. MessagesOf(b) /\ LinkOf(b)
  BY <1>1 DEF Messages, Links
<1>8. \A i \in 1 .. Len(down'[b]) :
         \/ down'[b][i].type = "none" /\ down'[b][i].of = NoPicture
         \/ down'[b][i].type = "picture" /\ down'[b][i].of # NoPicture
  <2>1. \A i \in 1 .. Len(down[b]) :
           \/ down[b][i].type = "none" /\ down[b][i].of = NoPicture
           \/ down[b][i].type = "picture" /\ down[b][i].of # NoPicture
    BY <1>7 DEF MessagesOf
  <2>2. CASE down'[b] = down[b]
    BY <2>1, <2>2
  <2>3. CASE down'[b] = Append(down[b], m)
    BY <2>1, <2>3, <1>3, <1>4
  <2> QED
    BY <2>2, <2>3, <1>6
<1>9. ASSUME handed[b] = <<>>, NEW i \in 1 .. Len(down'[b])
      PROVE  down'[b][i].type = "none"
  <2>1. \A j \in 1 .. Len(down[b]) : down[b][j].type = "none"
    BY <1>7, <1>9 DEF MessagesOf
  <2>2. CASE down'[b] = down[b]
    BY <2>1, <2>2
  <2>3. CASE down'[b] = Append(down[b], m)
    BY <2>1, <2>3, <1>3, <1>4
  <2> QED
    BY <2>2, <2>3, <1>6
<1>10. MessagesOf(b)'
  BY <1>2, <1>7, <1>8, <1>9 DEF MessagesOf, Returning, fifo
<1>11. \A k \in Board : k # b => agency'[k] = agency[k] /\ down'[k] = down[k]
  BY <1>1, <1>2, <1>3 DEF TypeOK
<1>12. \A k \in Board : k # b => MessagesOf(k)' /\ LinkOf(k)'
  BY <1>1, <1>2, <1>11, OtherMessages, OtherLinks DEF Messages, Links, fifo
<1>13. LinkOf(b)'
  <2>1. down[b] # <<>> => 1 \in 1 .. Len(down[b])
    BY <1>3, EmptyIs
  <2>2. down[b] # <<>> => down'[b] # <<>> /\ down'[b][1] = down[b][1]
    BY <1>4, <1>6, <2>1
  <2> QED
    BY <1>2, <1>7, <2>2 DEF LinkOf
<1>14. Messages' /\ Links'
  BY <1>10, <1>12, <1>13 DEF Messages, Links
<1>15. Descriptors'
  BY <1>1, <1>2 DEF Descriptors, page
<1> QED
  BY <1>5, <1>14, <1>15 DEF Formed

LEMMA PopPicture_formed ==
    ASSUME Formed, NEW b \in Board, PopPicture(b)
    PROVE  Formed'
<1>1. TypeOK /\ Messages /\ Links /\ Descriptors
  BY DEF Formed
<1>2. /\ agency' = [agency EXCEPT ![b] = "send"]
      /\ list # <<>> /\ list' = Tail(list)
      /\ handed' = [handed EXCEPT ![b] = <<Head(list)>>]
      /\ UNCHANGED <<page, held, flagGet, read, result, links, board, deaths>>
  BY DEF PopPicture, Fifo!Deliver
<1>3. /\ list \in Seq(Picture) /\ Head(list) \in Picture /\ Tail(list) \in Seq(Picture)
      /\ handed \in [Board -> Seq(Picture)]
  BY <1>1, <1>2, Tailed DEF TypeOK, Fifo!TypeOK
<1>4. /\ <<Head(list)>> \in Seq(Picture) /\ Len(<<Head(list)>>) = 1
      /\ <<Head(list)>> # <<>>
  BY <1>3, OneIs
<1>5. TypeOK'
  BY <1>1, <1>2, <1>3, <1>4 DEF TypeOK, Fifo!TypeOK, page, links
<1>6. handed'[b] = <<Head(list)>> /\ agency'[b] = "send"
  BY <1>1, <1>2, <1>3 DEF TypeOK
<1>7. MessagesOf(b)'
  <2>1. MessagesOf(b) /\ up'[b] = up[b] /\ down'[b] = down[b]
    BY <1>1, <1>2 DEF Messages, links
  <2>2. Len(handed'[b]) = 1 /\ handed'[b] # <<>>
    BY <1>4, <1>6
  <2> QED
    BY <2>1, <2>2, <1>6 DEF MessagesOf, Returning
<1>8. \A k \in Board : k # b => agency'[k] = agency[k] /\ handed'[k] = handed[k]
  BY <1>1, <1>2, <1>3 DEF TypeOK
<1>9. \A k \in Board : k # b => MessagesOf(k)'
  BY <1>1, <1>2, <1>8, OtherMessages DEF Messages, links
<1>10. Messages'
  BY <1>7, <1>9 DEF Messages
<1>11. Links' /\ Descriptors'
  BY <1>1, <1>2 DEF Links, LinkOf, Descriptors, page, links
<1> QED
  BY <1>5, <1>10, <1>11 DEF Formed

LEMMA SendPicture_formed ==
    ASSUME Formed, NEW b \in Board, SendPicture(b)
    PROVE  Formed'
<1>1. TypeOK /\ Messages /\ Links /\ Descriptors
  BY DEF Formed
<1> DEFINE p == handed[b][1]
           m == Msg("picture", p)
<1>2. /\ agency[b] = "send"
      /\ agency' = [agency EXCEPT ![b] = agency'[b]] /\ agency'[b] \in {"gone", "poll"}
      /\ down' = down \/ down' = [down EXCEPT ![b] = Append(down[b], m)]
      /\ UNCHANGED <<page, fifo, flagGet, read, result, up, linked, board, deaths>>
  BY <1>1 DEF SendPicture, Reply, TypeOK
<1>3. handed[b] # <<>>
  BY <1>1, <1>2 DEF Messages, MessagesOf
<1>4. p \in Picture /\ p # NoPicture
  BY <1>1, <1>3, HandedIs, ThingsAre
<1>5. /\ down \in [Board -> Seq(Message)] /\ down[b] \in Seq(Message)
      /\ m \in Message /\ m.type = "picture" /\ m.of # NoPicture
  BY <1>1, <1>4 DEF TypeOK, Message, Msg
<1> HIDE DEF m, p
<1>6. /\ Append(down[b], m) \in Seq(Message) /\ Append(down[b], m) # <<>>
      /\ Len(Append(down[b], m)) = Len(down[b]) + 1 /\ Len(down[b]) \in Nat
      /\ \A i \in 1 .. Len(down[b]) + 1 :
            Append(down[b], m)[i] = IF i = Len(down[b]) + 1 THEN m ELSE down[b][i]
  BY <1>5, Appended
<1>7. TypeOK'
  <2>1. down' \in [Board -> Seq(Message)]
    BY <1>2, <1>5, <1>6
  <2>2. agency' \in [Board -> {"poll", "asked", "sized", "send", "result", "add",
                              "forward", "check", "close", "gone"}]
    BY <1>1, <1>2 DEF TypeOK
  <2> QED
    BY <1>1, <1>2, <2>1, <2>2 DEF TypeOK, Fifo!TypeOK, page, fifo
<1>8. down'[b] = down[b] \/ down'[b] = Append(down[b], m)
  BY <1>2, <1>5
<1>9. MessagesOf(b) /\ LinkOf(b)
  BY <1>1 DEF Messages, Links
<1>10. \A i \in 1 .. Len(down'[b]) :
          \/ down'[b][i].type = "none" /\ down'[b][i].of = NoPicture
          \/ down'[b][i].type = "picture" /\ down'[b][i].of # NoPicture
  BY <1>5, <1>6, <1>8, <1>9 DEF MessagesOf
<1>11. MessagesOf(b)'
  BY <1>2, <1>3, <1>9, <1>10 DEF MessagesOf, Returning, fifo
<1>12. \A k \in Board : k # b => agency'[k] = agency[k] /\ down'[k] = down[k]
  BY <1>1, <1>2, <1>5 DEF TypeOK
<1>13. \A k \in Board : k # b => MessagesOf(k)' /\ LinkOf(k)'
  BY <1>1, <1>2, <1>12, OtherMessages, OtherLinks DEF Messages, Links, fifo
<1>14. LinkOf(b)'
  <2>1. down[b] # <<>> => 1 \in 1 .. Len(down[b])
    BY <1>5, EmptyIs
  <2>2. down[b] # <<>> => down'[b] # <<>> /\ down'[b][1] = down[b][1]
    BY <1>6, <1>8, <2>1
  <2> QED
    BY <1>2, <1>9, <2>2 DEF LinkOf
<1>15. Messages' /\ Links'
  BY <1>11, <1>13, <1>14 DEF Messages, Links
<1>16. Descriptors'
  BY <1>1, <1>2 DEF Descriptors, page
<1> QED
  BY <1>7, <1>15, <1>16 DEF Formed

(* The steps of an agency after a result came in.                           *)
LEMMA Result_formed ==
    ASSUME Formed, NEW b \in Board,
           \/ ReadFlag(b) \/ AddToFlag(b) \/ CheckFlag(b) \/ CloseClient(b)
    PROVE  Formed'
<1>1. TypeOK /\ Messages /\ Links /\ Descriptors
  BY DEF Formed
<1>2. /\ agency[b] \in {"result", "add", "check", "close"}
      /\ agency' = [agency EXCEPT ![b] = agency'[b]]
      /\ agency'[b] \in {"add", "forward", "close", "poll"}
      /\ agency'[b] \in {"add", "forward"} => Returning(b)
      /\ owner' \in [Conn -> Conn \union {0}]
      /\ \A f \in Conn : owner'[f] \in {0, owner[f]}
      /\ flagGet' \in Nat /\ read' \in [Board -> Nat]
      /\ UNCHANGED <<conns, loaded, clientFd, got, fifo, result, links, board, deaths>>
  <2>1. CASE ReadFlag(b)
    BY <1>1, <2>1 DEF ReadFlag, TypeOK, Returning, page
  <2>2. CASE AddToFlag(b)
    BY <1>1, <2>2 DEF AddToFlag, TypeOK, Returning, page
  <2>3. CASE CheckFlag(b)
    BY <1>1, <2>3 DEF CheckFlag, TypeOK, Returning, page
  <2>4. CASE CloseClient(b)
    BY <1>1, <2>4 DEF CloseClient, TypeOK, Returning
  <2> QED
    BY <2>1, <2>2, <2>3, <2>4
<1>3. TypeOK'
  <2>1. agency' \in [Board -> {"poll", "asked", "sized", "send", "result", "add",
                              "forward", "check", "close", "gone"}]
    <3>1. agency \in [Board -> {"poll", "asked", "sized", "send", "result", "add",
                               "forward", "check", "close", "gone"}]
      BY <1>1 DEF TypeOK
    <3> QED
      BY <1>2, <3>1
  <2>2. UNCHANGED <<conns, loaded, clientFd, got, fifo, result, links, board, deaths>>
    BY <1>2
  <2>3. Fifo!TypeOK'
    BY <1>1, <2>2 DEF TypeOK, Fifo!TypeOK, fifo
  <2> QED
    BY <1>1, <1>2, <2>1, <2>2, <2>3 DEF TypeOK, links
<1>4. MessagesOf(b)'
  BY <1>1, <1>2 DEF Messages, MessagesOf, Returning, fifo, links
<1>5. \A k \in Board : k # b => MessagesOf(k)'
  BY <1>1, <1>2, OtherMessages DEF Messages, fifo, links, TypeOK
<1>6. Messages'
  BY <1>4, <1>5 DEF Messages
<1>7. Links'
  BY <1>1, <1>2 DEF Links, LinkOf, links
<1>8. Descriptors'
  <2>1. conns \in Nat /\ (conns > 0 => conns # 0)
    BY <1>1 DEF TypeOK
  <2>2. \A f \in Conn : owner'[f] <= conns
    BY <1>1, <1>2, <2>1 DEF Descriptors
  <2> QED
    BY <1>1, <1>2, <2>1, <2>2 DEF Descriptors
<1> QED
  BY <1>3, <1>6, <1>7, <1>8 DEF Formed

(* A picture pushed belongs to a connection that was accepted.              *)
LEMMA SentHasConn ==
    ASSUME Formed, NEW p \in Sent
    PROVE  conns \in Conn /\ p \in Picture /\ p[1] \in 1 .. conns
<1>1. conns \in 0 .. MaxConns /\ MaxConns \in Nat
  BY PictureDispatchAssumption DEF Formed, TypeOK
<1>2. p \in Picture /\ p[1] \in Conn /\ (p[1] < conns \/ p[1] = conns)
  BY DEF Sent, Picture
<1> QED
  BY <1>1, <1>2 DEF Conn

(* An agency with a result is pointed to the last connection.               *)
LEMMA ResultHasConn ==
    ASSUME DispatchInv, NEW b \in Board, Returning(b)
    PROVE  /\ handed[b] # <<>> /\ handed[b][1] \in Picture /\ result[b] \in Sent
           /\ Somewhere(result[b], holding)
           /\ conns \in Conn /\ clientFd[b] \in Conn
           /\ owner[clientFd[b]] \in {0, conns}
           /\ \A f \in Conn : owner[f] = conns => f = clientFd[b]
<1>1. TypeOK /\ Messages /\ Descriptors /\ Placed /\ Formed
  BY DEF DispatchInv, Formed
<1>2. handed[b] # <<>> /\ result[b] # NoPicture
  BY <1>1 DEF Messages, MessagesOf
<1>3. handed[b][1] \in Picture /\ result[b] \in Picture
  BY <1>1, <1>2, HandedIs DEF TypeOK
<1>4. Somewhere(result[b], holding)
  <2>1. holding[<<"result", b>>] = <<result[b]>> /\ <<"result", b>> \in DOMAIN holding
    BY HoldingIs, AreHolders
  <2>2. 1 \in 1 .. Len(<<result[b]>>) /\ <<result[b]>>[1] = result[b]
    BY <1>3, OneIs
  <2> QED
    BY <2>1, <2>2 DEF Somewhere
<1>5. result[b] \in Sent
  BY <1>1, <1>3, <1>4 DEF Placed
<1>6. conns \in Conn
  BY <1>1, <1>5, SentHasConn
<1>7. conns > 0
  BY <1>6 DEF Conn
<1> QED
  BY <1>1, <1>2, <1>3, <1>4, <1>5, <1>6, <1>7 DEF Descriptors

LEMMA ForwardResult_formed ==
    ASSUME DispatchInv, NEW b \in Board, ForwardResult(b)
    PROVE  Formed'
<1>1. TypeOK /\ Messages /\ Links /\ Descriptors
  BY DEF DispatchInv, Formed
<1> DEFINE c == owner[clientFd[b]]
           m == [number |-> handed[b][1], of |-> result[b]]
           R == [number : Picture, of : Picture]
<1>2. /\ agency[b] = "forward" /\ agency' = [agency EXCEPT ![b] = "check"]
      /\ got' = IF c = 0 THEN got ELSE [got EXCEPT ![c] = Append(got[c], m)]
      /\ UNCHANGED <<conns, loaded, owner, clientFd, fifo, flagGet, read, result,
                     links, board, deaths>>
  BY DEF ForwardResult
<1>3. /\ handed[b] # <<>> /\ m \in R /\ c \in Conn \union {0}
      /\ got \in [Conn -> Seq(R)]
  <2>1. Returning(b)
    BY <1>2 DEF Returning
  <2>2. /\ handed[b] # <<>> /\ handed[b][1] \in Picture /\ result[b] \in Sent
        /\ conns \in Conn /\ c \in {0, conns}
    BY <2>1, ResultHasConn
  <2>3. result[b] \in Picture
    BY <2>2 DEF Sent
  <2> QED
    BY <1>1, <2>2, <2>3 DEF TypeOK
<1> HIDE DEF c, m, R
<1>4. got' \in [Conn -> Seq(R)]
  <2>1. \A k \in Conn : Append(got[k], m) \in Seq(R)
    BY <1>3, Appended
  <2> QED
    BY <1>2, <1>3, <2>1
<1>5. TypeOK'
  BY <1>1, <1>2, <1>4 DEF TypeOK, Fifo!TypeOK, fifo, links, R
<1>6. MessagesOf(b)'
  BY <1>1, <1>2, <1>3 DEF Messages, MessagesOf, Returning, fifo, links, TypeOK
<1>7. \A k \in Board : k # b => MessagesOf(k)'
  BY <1>1, <1>2, OtherMessages DEF Messages, fifo, links, TypeOK
<1>8. Messages'
  BY <1>6, <1>7 DEF Messages
<1>9. Links' /\ Descriptors'
  BY <1>1, <1>2 DEF Links, LinkOf, Descriptors, links
<1> QED
  BY <1>5, <1>8, <1>9 DEF Formed

LEMMA Ask_formed ==
    ASSUME Formed, NEW b \in Board, Ask(b)
    PROVE  Formed'
<1>1. TypeOK /\ Messages /\ Links /\ Descriptors
  BY DEF Formed
<1> DEFINE m == Msg("get", NoPicture)
<1>2. /\ board[b] = "ask" /\ board' = [board EXCEPT ![b] = "await"]
      /\ up' = [up EXCEPT ![b] = Append(up[b], m)]
      /\ UNCHANGED <<page, fifo, flagGet, read, agency, result, down, linked, deaths>>
  BY DEF Ask
<1>3. /\ up \in [Board -> Seq(Message)] /\ up[b] \in Seq(Message)
      /\ m \in Message /\ m.type = "get" /\ m.of = NoPicture
  BY <1>1 DEF TypeOK, Message, Msg
<1> HIDE DEF m
<1>4. /\ Append(up[b], m) \in Seq(Message)
      /\ Len(Append(up[b], m)) = Len(up[b]) + 1 /\ Len(up[b]) \in Nat
      /\ \A i \in 1 .. Len(up[b]) + 1 :
            Append(up[b], m)[i] = IF i = Len(up[b]) + 1 THEN m ELSE up[b][i]
  BY <1>3, Appended
<1>5. TypeOK'
  <2>1. up' \in [Board -> Seq(Message)]
    BY <1>2, <1>3, <1>4
  <2> QED
    BY <1>1, <1>2, <2>1 DEF TypeOK, Fifo!TypeOK, page, fifo
<1>6. up'[b] = Append(up[b], m) /\ \A k \in Board : k # b => up'[k] = up[k]
  BY <1>2, <1>3
<1>7. MessagesOf(b)
  BY <1>1 DEF Messages
<1>8. \A i \in 1 .. Len(up'[b]) :
         \/ up'[b][i].type = "get" /\ up'[b][i].of = NoPicture
         \/ up'[b][i].type = "result" /\ up'[b][i].of # NoPicture
  BY <1>3, <1>4, <1>6, <1>7 DEF MessagesOf
<1>9. ASSUME handed[b] = <<>>, NEW i \in 1 .. Len(up'[b])
      PROVE  up'[b][i].type = "get"
  <2>1. \A j \in 1 .. Len(up[b]) : up[b][j].type = "get"
    BY <1>7, <1>9 DEF MessagesOf
  <2> QED
    BY <2>1, <1>3, <1>4, <1>6
<1>10. MessagesOf(b)'
  BY <1>2, <1>7, <1>8, <1>9 DEF MessagesOf, Returning, fifo
<1>11. \A k \in Board : k # b => MessagesOf(k)'
  BY <1>1, <1>2, <1>6, OtherMessages DEF Messages, fifo
<1>12. Messages'
  BY <1>10, <1>11 DEF Messages
<1>13. Links' /\ Descriptors'
  BY <1>1, <1>2 DEF Links, LinkOf, Descriptors, page, TypeOK
<1> QED
  BY <1>5, <1>12, <1>13 DEF Formed

LEMMA ReceiveAnswer_formed ==
    ASSUME Formed, NEW b \in Board, ReceiveAnswer(b)
    PROVE  Formed'
<1>1. TypeOK /\ Messages /\ Links /\ Descriptors
  BY DEF Formed
<1>2. /\ board[b] = "await" /\ down[b] # <<>>
      /\ board' = [board EXCEPT ![b] = IF down[b][1].type = "none" THEN "ask" ELSE "detect"]
      /\ down' = IF down[b][1].type = "none"
                 THEN [down EXCEPT ![b] = Tail(down[b])] ELSE down
      /\ UNCHANGED <<page, fifo, flagGet, read, agency, result, up, linked, deaths>>
  BY <1>1, DownIs DEF ReceiveAnswer
<1>3. /\ down \in [Board -> Seq(Message)] /\ down[b] \in Seq(Message)
      /\ Tail(down[b]) \in Seq(Message)
      /\ Len(Tail(down[b])) = Len(down[b]) - 1 /\ Len(down[b]) \in Nat \ {0}
      /\ \A i \in 1 .. Len(down[b]) - 1 : Tail(down[b])[i] = down[b][i + 1]
  BY <1>1, <1>2, Tailed DEF TypeOK
<1>4. TypeOK'
  <2>1. down' \in [Board -> Seq(Message)]
    BY <1>2, <1>3
  <2>2. board' \in [Board -> {"ask", "await", "detect", "connect"}]
    BY <1>1, <1>2 DEF TypeOK
  <2> QED
    BY <1>1, <1>2, <2>1, <2>2 DEF TypeOK, Fifo!TypeOK, page, fifo
<1>5. down'[b] \in {down[b], Tail(down[b])} /\ \A k \in Board : k # b => down'[k] = down[k]
  BY <1>2, <1>3
<1>6. 1 \in 1 .. Len(down[b]) /\ \A i \in 1 .. Len(down[b]) - 1 : i + 1 \in 1 .. Len(down[b])
  BY <1>3
<1>7. MessagesOf(b) /\ LinkOf(b)
  BY <1>1 DEF Messages, Links
<1>8. \A i \in 1 .. Len(down'[b]) : \E j \in 1 .. Len(down[b]) : down'[b][i] = down[b][j]
  BY <1>3, <1>5, <1>6
<1>9. MessagesOf(b)'
  BY <1>2, <1>7, <1>8 DEF MessagesOf, Returning, fifo
<1>10. \A k \in Board : k # b => MessagesOf(k)' /\ LinkOf(k)'
  BY <1>1, <1>2, <1>5, OtherMessages, OtherLinks DEF Messages, Links, fifo, TypeOK
<1>11. LinkOf(b)'
  <2>1. board'[b] = IF down[b][1].type = "none" THEN "ask" ELSE "detect"
    BY <1>1, <1>2 DEF TypeOK
  <2>2. down[b][1].type # "none" => down[b][1].type = "picture" /\ down' = down
    BY <1>2, <1>6, <1>7 DEF MessagesOf
  <2> QED
    BY <2>1, <2>2, <1>2, <1>7 DEF LinkOf
<1>12. Messages' /\ Links'
  BY <1>9, <1>10, <1>11 DEF Messages, Links
<1>13. Descriptors'
  BY <1>1, <1>2 DEF Descriptors, page
<1> QED
  BY <1>4, <1>12, <1>13 DEF Formed

LEMMA Detect_formed ==
    ASSUME Formed, NEW b \in Board, Detect(b)
    PROVE  Formed' /\ down[b] # <<>> /\ down[b][1].type = "picture"
<1>1. TypeOK /\ Messages /\ Links /\ Descriptors
  BY DEF Formed
<1> DEFINE p == down[b][1].of
           m == Msg("result", p)
<1>2. board[b] = "detect" /\ down[b] # <<>> /\ down[b][1].type = "picture"
  BY <1>1 DEF Detect, Links, LinkOf
<1>3. /\ board' = [board EXCEPT ![b] = "ask"]
      /\ up' = [up EXCEPT ![b] = Append(up[b], m)]
      /\ down' = [down EXCEPT ![b] = Tail(down[b])]
      /\ UNCHANGED <<page, fifo, flagGet, read, agency, result, linked, deaths>>
  BY <1>1, <1>2, DownIs DEF Detect
<1>4. /\ down \in [Board -> Seq(Message)] /\ down[b] \in Seq(Message)
      /\ Tail(down[b]) \in Seq(Message)
      /\ Len(Tail(down[b])) = Len(down[b]) - 1 /\ Len(down[b]) \in Nat \ {0}
      /\ \A i \in 1 .. Len(down[b]) - 1 : Tail(down[b])[i] = down[b][i + 1]
  BY <1>1, <1>2, Tailed DEF TypeOK
<1>5. 1 \in 1 .. Len(down[b]) /\ \A i \in 1 .. Len(down[b]) - 1 : i + 1 \in 1 .. Len(down[b])
  BY <1>4
<1>6. MessagesOf(b) /\ LinkOf(b)
  BY <1>1 DEF Messages, Links
<1>7. p # NoPicture /\ handed[b] # <<>>
  BY <1>2, <1>5, <1>6 DEF MessagesOf
<1>8. /\ up \in [Board -> Seq(Message)] /\ up[b] \in Seq(Message)
      /\ m \in Message /\ m.type = "result" /\ m.of = p
  BY <1>1, <1>2, DownIs DEF TypeOK, Message, Msg, Thing
<1> HIDE DEF m, p
<1>9. /\ Append(up[b], m) \in Seq(Message)
      /\ Len(Append(up[b], m)) = Len(up[b]) + 1 /\ Len(up[b]) \in Nat
      /\ \A i \in 1 .. Len(up[b]) + 1 :
            Append(up[b], m)[i] = IF i = Len(up[b]) + 1 THEN m ELSE up[b][i]
  BY <1>8, Appended
<1>10. TypeOK'
  <2>1. down' \in [Board -> Seq(Message)] /\ up' \in [Board -> Seq(Message)]
    BY <1>3, <1>4, <1>8, <1>9
  <2>2. board' \in [Board -> {"ask", "await", "detect", "connect"}]
    BY <1>1, <1>3 DEF TypeOK
  <2> QED
    BY <1>1, <1>3, <2>1, <2>2 DEF TypeOK, Fifo!TypeOK, page, fifo
<1>11. /\ down'[b] = Tail(down[b]) /\ up'[b] = Append(up[b], m)
       /\ \A k \in Board : k # b => down'[k] = down[k] /\ up'[k] = up[k]
  BY <1>3, <1>4, <1>8
<1>12. \A i \in 1 .. Len(down'[b]) : \E j \in 1 .. Len(down[b]) : down'[b][i] = down[b][j]
  BY <1>4, <1>5, <1>11
<1>13. \A i \in 1 .. Len(up'[b]) :
          \/ up'[b][i].type = "get" /\ up'[b][i].of = NoPicture
          \/ up'[b][i].type = "result" /\ up'[b][i].of # NoPicture
  BY <1>6, <1>7, <1>8, <1>9, <1>11 DEF MessagesOf
<1>14. MessagesOf(b)'
  BY <1>3, <1>6, <1>7, <1>12, <1>13 DEF MessagesOf, Returning, fifo
<1>15. \A k \in Board : k # b => MessagesOf(k)' /\ LinkOf(k)'
  BY <1>1, <1>3, <1>11, OtherMessages, OtherLinks DEF Messages, Links, fifo, TypeOK
<1>16. LinkOf(b)'
  BY <1>1, <1>2, <1>3, <1>6 DEF LinkOf, TypeOK
<1>17. Messages' /\ Links'
  BY <1>14, <1>15, <1>16 DEF Messages, Links
<1>18. Descriptors'
  BY <1>1, <1>3 DEF Descriptors, page
<1> QED
  BY <1>2, <1>10, <1>17, <1>18 DEF Formed

LEMMA Die_formed ==
    ASSUME Formed, NEW b \in Board, Die(b)
    PROVE  Formed' /\ deaths'[b] > 0 /\ \A k \in Board : deaths'[k] >= deaths[k]
<1>1. TypeOK /\ Messages /\ Links /\ Descriptors
  BY DEF Formed
<1>2. /\ deaths[b] < MaxDeaths
      /\ deaths' = [deaths EXCEPT ![b] = deaths[b] + 1]
      /\ board' = [board EXCEPT ![b] = "connect"]
      /\ linked' = [linked EXCEPT ![b] = FALSE]
      /\ down' = [down EXCEPT ![b] = <<>>]
      /\ UNCHANGED <<page, fifo, flagGet, read, agency, result, up>>
  BY DEF Die
<1>3. /\ MaxDeaths \in Nat /\ deaths \in [Board -> 0 .. MaxDeaths]
      /\ <<>> \in Seq(Message) /\ Len(<<>>) = 0
  BY <1>1, PictureDispatchAssumption, EmptySeq DEF TypeOK
<1>4. deaths[b] + 1 \in 0 .. MaxDeaths
  BY <1>2, <1>3
<1>5. TypeOK'
  BY <1>1, <1>2, <1>3, <1>4 DEF TypeOK, Fifo!TypeOK, page, fifo
<1>6. deaths'[b] = deaths[b] + 1 /\ \A k \in Board : k # b => deaths'[k] = deaths[k]
  BY <1>2, <1>3
<1>7. deaths'[b] > 0 /\ \A k \in Board : deaths'[k] >= deaths[k]
  <2>1. \A k \in Board : deaths[k] \in Nat
    BY <1>3
  <2> QED
    BY <1>6, <2>1
<1>8. MessagesOf(b)'
  BY <1>1, <1>2, <1>3 DEF Messages, MessagesOf, Returning, fifo, TypeOK
<1>9. \A k \in Board : k # b => MessagesOf(k)' /\ LinkOf(k)'
  BY <1>1, <1>2, <1>6, OtherMessages, OtherLinks DEF Messages, Links, fifo, TypeOK
<1>10. LinkOf(b)'
  BY <1>1, <1>2, <1>7 DEF LinkOf, TypeOK
<1>11. Messages' /\ Links'
  BY <1>8, <1>9, <1>10 DEF Messages, Links
<1>12. Descriptors'
  BY <1>1, <1>2 DEF Descriptors, page
<1> QED
  BY <1>5, <1>7, <1>11, <1>12 DEF Formed

LEMMA Reconnect_formed ==
    ASSUME Formed, NEW b \in Board, Reconnect(b)
    PROVE  Formed' /\ deaths[b] > 0
<1>1. TypeOK /\ Messages /\ Links /\ Descriptors
  BY DEF Formed
<1>2. /\ board[b] = "connect"
      /\ board' = [board EXCEPT ![b] = "ask"]
      /\ linked' = [linked EXCEPT ![b] = TRUE]
      /\ up' = [up EXCEPT ![b] = <<>>]
      /\ UNCHANGED <<page, fifo, flagGet, read, agency, result, down, deaths>>
  BY DEF Reconnect
<1>3. <<>> \in Seq(Message) /\ Len(<<>>) = 0
  BY EmptySeq
<1>4. TypeOK'
  BY <1>1, <1>2, <1>3 DEF TypeOK, Fifo!TypeOK, page, fifo
<1>5. deaths[b] > 0
  <2>1. deaths[b] \in Nat /\ deaths[b] # 0
    BY <1>1, <1>2 DEF Links, LinkOf, TypeOK
  <2> QED
    BY <2>1
<1>6. MessagesOf(b)'
  BY <1>1, <1>2, <1>3 DEF Messages, MessagesOf, Returning, fifo, TypeOK
<1>7. \A k \in Board : k # b => MessagesOf(k)' /\ LinkOf(k)'
  BY <1>1, <1>2, OtherMessages, OtherLinks DEF Messages, Links, fifo, TypeOK
<1>8. LinkOf(b)'
  BY <1>1, <1>2 DEF LinkOf, TypeOK
<1>9. Messages' /\ Links'
  BY <1>6, <1>7, <1>8 DEF Messages, Links
<1>10. Descriptors'
  BY <1>1, <1>2 DEF Descriptors, page
<1> QED
  BY <1>4, <1>5, <1>9, <1>10 DEF Formed

-----------------------------------------------------------------------------
(* Every step keeps every picture in one place: what was pushed is where it *)
(* was or was moved, ...                                                    *)
LEMMA LostStays ==
    ASSUME Formed, owner' \in [Conn -> Conn \union {0}],
           \A f \in Conn : owner'[f] \in {0, owner[f], conns + 1},
           conns' \in {conns, conns + 1},
           \A b \in Board : deaths'[b] \in Nat /\ deaths'[b] >= deaths[b]
    PROVE  Lost => Lost'
<1>1. /\ conns \in Nat /\ owner \in [Conn -> Conn \union {0}]
      /\ \A b \in Board : deaths[b] \in Nat
  BY DEF Formed, TypeOK
<1>2. ASSUME NEW b \in Board, deaths[b] > 0 PROVE Lost'
  <2>1. deaths'[b] > 0
    BY <1>1, <1>2
  <2> QED
    BY <2>1 DEF Lost
<1>3. ASSUME NEW c \in 1 .. conns, ~ Open(c) PROVE Lost'
  <2>1. c \in 1 .. conns' /\ c # conns + 1 /\ c # 0
    BY <1>1
  <2>2. ~ Open(c)'
    BY <1>3, <2>1 DEF Open
  <2> QED
    BY <2>1, <2>2 DEF Lost, Open
<1> QED
  BY <1>2, <1>3 DEF Lost

LEMMA PlacedKept ==
    ASSUME Placed, Sent' = Sent, Lost => Lost', Apart(holding'),
           \A q \in Picture : Somewhere(q, holding') => Somewhere(q, holding),
           \/ Lost'
           \/ \A q \in Picture : Somewhere(q, holding) => Somewhere(q, holding')
    PROVE  Placed'
<1>1. Sent \subseteq Picture
  BY DEF Sent
<1>2. \A p \in Picture : Somewhere(p, holding') => p \in Sent
  BY DEF Placed
<1>3. \A p \in Sent : Somewhere(p, holding') \/ Lost'
  BY <1>1 DEF Placed
<1>4. Apart(holding)' /\ (\A p \in Picture : Somewhere(p, holding)' => p \in Sent')
      /\ (\A p \in Sent' : Somewhere(p, holding)' \/ Lost')
  BY <1>2, <1>3 DEF Apart, Somewhere
<1> QED
  BY <1>4 DEF Placed

(* ... and what is pushed was nowhere before.                               *)
LEMMA Load_placed ==
    ASSUME DispatchInv, Load
    PROVE  Placed'
<1> DEFINE p == <<conns, loaded + 1>>
<1>1. Formed /\ TypeOK /\ Placed
  BY DEF DispatchInv, Formed
<1>2. p \in Picture /\ TypeOK'
  BY <1>1, Load_formed DEF Formed
<1>3. conns' = conns /\ loaded' = loaded + 1 /\ UNCHANGED <<owner, deaths>>
      /\ conns \in Nat /\ loaded \in Nat
  BY <1>1 DEF Load, TypeOK
<1>4. p \notin Sent /\ Sent' = Sent \union {p}
  <2>1. p \notin Sent
    BY <1>2, <1>3 DEF Sent
  <2>2. \A q \in Picture : q = <<q[1], q[2]>> /\ q[1] \in Nat /\ q[2] \in Nat
    BY PictureDispatchAssumption DEF Picture, Conn
  <2>3. \A q \in Picture : q \in Sent' <=> q \in Sent \/ q = p
    BY <2>2, <1>3 DEF Sent
  <2>4. Sent \subseteq Picture /\ Sent' \subseteq Picture
    BY DEF Sent
  <2> QED
    BY <2>1, <2>3, <2>4, <1>2
<1>5. ~ Somewhere(p, holding)
  BY <1>1, <1>2, <1>4 DEF Placed
<1>6. /\ Apart(holding) /\ ~ Somewhere(p, holding) => Apart(holding')
      /\ \A q : Somewhere(q, holding') <=> Somewhere(q, holding) \/ q = p
  BY <1>1, <1>2, Load_places
<1>7. Lost <=> Lost'
  BY <1>3 DEF Lost, Open
<1> HIDE DEF p
<1>8. Apart(holding')
  BY <1>1, <1>5, <1>6 DEF Placed
<1>9. \A q \in Picture : Somewhere(q, holding') => q \in Sent'
  BY <1>1, <1>4, <1>6 DEF Placed
<1>10. \A q \in Sent' : Somewhere(q, holding') \/ Lost'
  BY <1>1, <1>4, <1>6, <1>7 DEF Placed
<1>11. Apart(holding)' /\ (\A q \in Picture : Somewhere(q, holding)' => q \in Sent')
      /\ (\A q \in Sent' : Somewhere(q, holding)' \/ Lost')
  BY <1>8, <1>9, <1>10 DEF Apart, Somewhere
<1> QED
  BY <1>11 DEF Placed

LEMMA Accept_placed ==
    ASSUME DispatchInv, Accept
    PROVE  Placed'
<1>1. Formed /\ TypeOK /\ Placed
  BY DEF DispatchInv, Formed
<1>2. PICK f \in Conn : owner' = [owner EXCEPT ![f] = conns + 1]
  BY DEF Accept
<1>3. /\ loaded = PerConn /\ conns' = conns + 1 /\ loaded' = 0
      /\ UNCHANGED <<list, handed, down, up, result, got, agency, deaths>>
  BY DEF Accept, links, fifo
<1>4. /\ conns \in Nat /\ owner \in [Conn -> Conn \union {0}] /\ PerConn \in Nat
      /\ conns + 1 \in Conn /\ \A b \in Board : deaths[b] \in Nat
  <2>1. conns \in 0 .. MaxConns /\ conns < MaxConns /\ MaxConns \in Nat /\ PerConn \in Nat
    BY <1>1, PictureDispatchAssumption DEF Accept, TypeOK
  <2> QED
    BY <2>1, <1>1 DEF TypeOK, Conn
<1>5. Sent' = Sent
  <2>1. \A q \in Picture : q[1] \in Nat /\ q[2] \in 1 .. PerConn
    BY <1>4, PictureDispatchAssumption DEF Picture, Conn
  <2>2. \A q \in Picture : q \in Sent' <=> q \in Sent
    BY <2>1, <1>3, <1>4 DEF Sent
  <2>3. Sent \subseteq Picture /\ Sent' \subseteq Picture
    BY DEF Sent
  <2> QED
    BY <2>2, <2>3
<1>6. Lost => Lost'
  <2>1. owner' \in [Conn -> Conn \union {0}] /\ \A g \in Conn : owner'[g] \in {owner[g], conns + 1}
    BY <1>2, <1>4
  <2> QED
    BY <1>1, <1>3, <1>4, <2>1, LostStays
<1>7. holding' = holding
  BY <1>3, Still_places DEF Returning
<1> QED
  BY <1>1, <1>5, <1>6, <1>7, PlacedKept DEF Placed

(* A result is lost only on a connection that was closed.                   *)
LEMMA ForwardResult_placed ==
    ASSUME DispatchInv, NEW b \in Board, ForwardResult(b)
    PROVE  Placed'
<1>1. Formed /\ TypeOK /\ Messages /\ Placed
  BY DEF DispatchInv, Formed
<1>2. Returning(b) /\ UNCHANGED <<conns, loaded, owner, deaths>>
  BY DEF ForwardResult, Returning
<1>3. /\ conns \in Conn /\ clientFd[b] \in Conn /\ owner[clientFd[b]] \in {0, conns}
      /\ \A f \in Conn : owner[f] = conns => f = clientFd[b]
  BY <1>2, ResultHasConn
<1>4. Sent' = Sent /\ (Lost <=> Lost')
  BY <1>2 DEF Sent, Lost, Open
<1>5. /\ Apart(holding) => Apart(holding')
      /\ \A q \in Picture : Somewhere(q, holding') => Somewhere(q, holding)
      /\ owner[clientFd[b]] # 0 =>
            \A q \in Picture : Somewhere(q, holding) => Somewhere(q, holding')
  BY <1>1, <1>3, ForwardResult_places
<1>6. owner[clientFd[b]] = 0 => Lost
  <2>1. conns \in 1 .. conns /\ conns # 0
    BY <1>3 DEF Conn
  <2>2. owner[clientFd[b]] = 0 => ~ Open(conns)
    BY <1>3, <2>1 DEF Open
  <2> QED
    BY <2>1, <2>2 DEF Lost
<1>7. Apart(holding')
  BY <1>1, <1>5 DEF Placed
<1> QED
  BY <1>1, <1>4, <1>5, <1>6, <1>7, PlacedKept

(* The steps that do not disturb, or only clear, connections and pictures.  *)
LEMMA Others_placed ==
    ASSUME DispatchInv, Formed', UNCHANGED <<conns, loaded>>,
           \A f \in Conn : owner'[f] \in {0, owner[f]},
           \A b \in Board : deaths'[b] >= deaths[b],
           Apart(holding) => Apart(holding'),
           \A q \in Picture : Somewhere(q, holding') => Somewhere(q, holding),
           \/ \E b \in Board : deaths'[b] > 0
           \/ \A q \in Picture : Somewhere(q, holding) => Somewhere(q, holding')
    PROVE  Placed'
<1>1. Formed /\ Placed
  BY DEF DispatchInv
<1>2. Sent' = Sent
  BY DEF Sent
<1>3. owner' \in [Conn -> Conn \union {0}] /\ \A b \in Board : deaths'[b] \in Nat
  BY DEF Formed, TypeOK
<1>4. Lost => Lost'
  BY <1>1, <1>3, LostStays
<1>5. (\E b \in Board : deaths'[b] > 0) => Lost'
  BY DEF Lost
<1> QED
  BY <1>1, <1>2, <1>4, <1>5, PlacedKept DEF Placed

LEMMA NextDispatch == DispatchInv /\ [Next]_vars => DispatchInv'
<1> SUFFICES ASSUME DispatchInv, [Next]_vars PROVE DispatchInv'
  OBVIOUS
<1>1. Formed /\ TypeOK /\ Messages /\ Links /\ Descriptors /\ Placed
  BY DEF DispatchInv, Formed
<1>2. \A b \in Board : deaths[b] \in Nat /\ deaths[b] >= deaths[b]
  BY <1>1 DEF TypeOK
<1>3. CASE UNCHANGED vars
  <2>1. UNCHANGED <<list, handed, down, up, result, got, agency, conns, loaded,
                    owner, deaths>>
    BY <1>3 DEF vars, page, fifo, links
  <2>2. Formed'
    <3> USE <1>1, <1>3 DEF vars, page, fifo, links
    <3>1. TypeOK'
      BY DEF TypeOK, Fifo!TypeOK
    <3>2. Messages'
      BY DEF Messages, MessagesOf, Returning
    <3>3. Links'
      BY DEF Links, LinkOf
    <3>4. Descriptors'
      BY DEF Descriptors
    <3> QED
      BY <3>1, <3>2, <3>3, <3>4 DEF Formed
  <2>3. holding' = holding
    BY <2>1, Still_places DEF Returning
  <2>4. Placed'
    BY <1>2, <2>1, <2>2, <2>3, Others_placed
  <2> QED
    BY <2>2, <2>4 DEF DispatchInv
<1>4. CASE Accept
  BY <1>1, <1>4, Accept_formed, Accept_placed DEF DispatchInv
<1>5. CASE Load
  BY <1>1, <1>5, Load_formed, Load_placed DEF DispatchInv
<1>6. CASE LoaderGoesOn
  <2>1. Formed'
    BY <1>1, <1>6, LoaderGoesOn_formed
  <2>2. UNCHANGED <<list, handed, down, up, result, got, agency, conns, loaded,
                    owner, deaths>>
    BY <1>6 DEF LoaderGoesOn, Fifo!Release, page, links
  <2>3. holding' = holding
    BY <2>2, Still_places DEF Returning
  <2>4. Placed'
    BY <1>2, <2>1, <2>2, <2>3, Others_placed
  <2> QED
    BY <2>1, <2>4 DEF DispatchInv
<1>7. ASSUME NEW b \in Board, ReadHeader(b) PROVE DispatchInv'
  <2>1. Formed' /\ UNCHANGED <<conns, loaded, owner, deaths>>
    BY <1>1, <1>7, ReadHeader_formed DEF ReadHeader, page
  <2>2. Placed'
    BY <1>1, <1>2, <1>7, <2>1, ReadHeader_places, Others_placed
  <2> QED
    BY <2>1, <2>2 DEF DispatchInv
<1>8. ASSUME NEW b \in Board, LookForPicture(b) PROVE DispatchInv'
  <2>1. Formed' /\ UNCHANGED <<conns, loaded, owner, deaths>>
    BY <1>1, <1>8, LookForPicture_formed DEF LookForPicture, page
  <2>2. Placed'
    BY <1>1, <1>2, <1>8, <2>1, LookForPicture_places, Others_placed
  <2> QED
    BY <2>1, <2>2 DEF DispatchInv
<1>9. ASSUME NEW b \in Board, PopPicture(b) PROVE DispatchInv'
  <2>1. Formed' /\ UNCHANGED <<conns, loaded, owner, deaths>>
    BY <1>1, <1>9, PopPicture_formed DEF PopPicture, page
  <2>2. Placed'
    BY <1>1, <1>2, <1>9, <2>1, PopPicture_places, Others_placed
  <2> QED
    BY <2>1, <2>2 DEF DispatchInv
<1>10. ASSUME NEW b \in Board, SendPicture(b) PROVE DispatchInv'
  <2>1. Formed' /\ UNCHANGED <<conns, loaded, owner, deaths, linked>>
    BY <1>1, <1>10, SendPicture_formed DEF SendPicture, page
  <2>2. linked[b] \/ deaths'[b] > 0
    BY <1>1, <1>2, <2>1 DEF Links, LinkOf
  <2>3. Placed'
    BY <1>1, <1>2, <1>10, <2>1, <2>2, SendPicture_places, Others_placed
  <2> QED
    BY <2>1, <2>3 DEF DispatchInv
<1>11. ASSUME NEW b \in Board, \/ ReadFlag(b) \/ AddToFlag(b) \/ CheckFlag(b)
                               \/ CloseClient(b)
       PROVE DispatchInv'
  <2>1. Formed'
    BY <1>1, <1>11, Result_formed
  <2>2. UNCHANGED <<list, handed, down, up, result, got, conns, loaded, deaths>>
    BY <1>11 DEF ReadFlag, AddToFlag, CheckFlag, CloseClient, page, fifo, links
  <2>3. \A f \in Conn : owner'[f] \in {0, owner[f]}
    BY <1>1, <1>11 DEF ReadFlag, AddToFlag, CheckFlag, CloseClient, page, TypeOK
  <2>4. \A k \in Board : /\ agency'[k] = "send" <=> agency[k] = "send"
                         /\ agency'[k] \in {"result", "add", "forward"} <=> Returning(k)
    <3>1. CASE ReadFlag(b)
      BY <1>1, <3>1 DEF ReadFlag, Returning, TypeOK
    <3>2. CASE AddToFlag(b)
      BY <1>1, <3>2 DEF AddToFlag, Returning, TypeOK
    <3>3. CASE CheckFlag(b)
      BY <1>1, <3>3 DEF CheckFlag, Returning, TypeOK
    <3>4. CASE CloseClient(b)
      BY <1>1, <3>4 DEF CloseClient, Returning, TypeOK
    <3> QED
      BY <1>11, <3>1, <3>2, <3>3, <3>4
  <2>5. holding' = holding
    BY <2>2, <2>4, Still_places
  <2>6. Placed'
    BY <1>2, <2>1, <2>2, <2>3, <2>5, Others_placed
  <2> QED
    BY <2>1, <2>6 DEF DispatchInv
<1>12. ASSUME NEW b \in Board, ForwardResult(b) PROVE DispatchInv'
  BY <1>12, ForwardResult_formed, ForwardResult_placed DEF DispatchInv
<1>13. ASSUME NEW b \in Board, Ask(b) PROVE DispatchInv'
  <2>1. Formed' /\ UNCHANGED <<conns, loaded, owner, deaths>>
    BY <1>1, <1>13, Ask_formed DEF Ask, page
  <2>2. Placed'
    BY <1>1, <1>2, <1>13, <2>1, Ask_places, Others_placed
  <2> QED
    BY <2>1, <2>2 DEF DispatchInv
<1>14. ASSUME NEW b \in Board, ReceiveAnswer(b) PROVE DispatchInv'
  <2>1. Formed' /\ UNCHANGED <<conns, loaded, owner, deaths>>
    BY <1>1, <1>14, ReceiveAnswer_formed DEF ReceiveAnswer, page
  <2>2. Placed'
    BY <1>1, <1>2, <1>14, <2>1, ReceiveAnswer_places, Others_placed
  <2> QED
    BY <2>1, <2>2 DEF DispatchInv
<1>15. ASSUME NEW b \in Board, Detect(b) PROVE DispatchInv'
  <2>1. Formed' /\ down[b] # <<>> /\ UNCHANGED <<conns, loaded, owner, deaths>>
    BY <1>1, <1>15, Detect_formed DEF Detect, page
  <2>2. Placed'
    BY <1>1, <1>2, <1>15, <2>1, Detect_places, Others_placed
  <2> QED
    BY <2>1, <2>2 DEF DispatchInv
<1>16. ASSUME NEW b \in Board, Reconnect(b) PROVE DispatchInv'
  <2>1. Formed' /\ UNCHANGED <<conns, loaded, owner, deaths>> /\ deaths'[b] > 0
    BY <1>1, <1>16, Reconnect_formed DEF Reconnect, page
  <2>2. Placed'
    BY <1>1, <1>2, <1>16, <2>1, Reconnect_places, Others_placed
  <2> QED
    BY <2>1, <2>2 DEF DispatchInv
<1>17. ASSUME NEW b \in Board, Die(b) PROVE DispatchInv'
  <2>1. Formed' /\ deaths'[b] > 0 /\ \A k \in Board : deaths'[k] >= deaths[k]
    BY <1>1, <1>17, Die_formed
  <2>2. UNCHANGED <<conns, loaded, owner>>
    BY <1>17 DEF Die, page
  <2>3. Placed'
    BY <1>1, <1>17, <2>1, <2>2, Die_places, Others_placed
  <2> QED
    BY <2>1, <2>3 DEF DispatchInv
<1> QED
  BY <1>3, <1>4, <1>5, <1>6, <1>7, <1>8, <1>9, <1>10, <1>11, <1>12, <1>13, <1>14,
     <1>15, <1>16, <1>17 DEF Next, DataDeal, ImageManage

LEMMA DispatchInvariant == Spec => []DispatchInv
<1>1. Init => DispatchInv
  BY InitDispatch
<1>2. DispatchInv /\ [Next]_vars => DispatchInv'
  BY NextDispatch
<1> QED
  BY <1>1, <1>2, PTL DEF Spec

(* Every variable keeps its type in every reachable state.                  *)
THEOREM DispatchTypeCorrect == Spec => []TypeOK
<1>1. DispatchInv => TypeOK
  BY DEF DispatchInv, Formed
<1> QED
  BY <1>1, DispatchInvariant, PTL

(* A picture is in one place at a time from the picture list to the web     *)
(* server, and in none only after a death or on a closed connection:        *)
(* whatever the boards, the agencies and the web server do.                 *)
THEOREM PictureIsInOnePlace == Spec => []PictureInOnePlace
<1>1. DispatchInv => PictureInOnePlace
  <2> SUFFICES ASSUME DispatchInv, NEW p \in Sent
               PROVE  /\ Cardinality(Places(p)) <= 1
                      /\ Places(p) = {} => Lost
    BY DEF PictureInOnePlace, Lost
  <2>1. TypeOK /\ Placed /\ holding \in Holdings /\ p \in Picture /\ p # NoPicture
    BY HoldingType, ThingsAre DEF DispatchInv, Formed, Sent
  <2>2. \A h \in Holder : DOMAIN holding[h] = 1 .. Len(holding[h]) /\ holding[h] = Held(h)
    BY <2>1, LenProperties DEF Holdings, holding
  <2>3. DOMAIN holding = Holder
    BY DEF holding
  <2>4. \A x \in Places(p) : \E h \in Holder : \E i \in 1 .. Len(holding[h]) :
           x = <<h, i>> /\ holding[h][i] = p
    BY <2>2 DEF Places
  <2>5. \A x, y \in Places(p) : x = y
    BY <2>1, <2>3, <2>4 DEF Placed, Apart
  <2>6. Cardinality(Places(p)) <= 1
    <3>1. CASE Places(p) = {}
      BY <3>1, FS_EmptySet
    <3>2. ASSUME NEW x \in Places(p) PROVE Cardinality(Places(p)) = 1
      <4>1. Places(p) = {x}
        BY <2>5
      <4> QED
        BY <4>1, FS_Singleton
    <3> QED
      BY <3>1, <3>2
  <2>7. ASSUME Places(p) = {} PROVE Lost
    <3>1. ~ Somewhere(p, holding)
      <4> SUFFICES ASSUME NEW h \in Holder, NEW i \in 1 .. Len(holding[h]),
                          holding[h][i] = p
                   PROVE  FALSE
        BY <2>3 DEF Somewhere
      <4>1. <<h, i>> \in Places(p)
        BY <2>2 DEF Places
      <4> QED
        BY <4>1, <2>7
    <3> QED
      BY <3>1, <2>1 DEF Placed
  <2> QED
    BY <2>6, <2>7
<1> QED
  BY <1>1, DispatchInvariant, PTL

-----------------------------------------------------------------------------
(* While no process of a board died, the board and its agency keep step.    *)
LEMMA OtherInStep ==
    ASSUME NEW k \in Board, InStep(k), board'[k] = board[k], up'[k] = up[k],
           down'[k] = down[k], agency'[k] = agency[k], handed'[k] = handed[k],
           result'[k] = result[k]
    PROVE  InStep(k)'
  BY DEF InStep, Known, Idle, Returning

(* The two messages that InStep looks at are in the link.                   *)
LEMMA UpIs ==
    ASSUME TypeOK, NEW b \in Board
    PROVE  /\ up[b] \in Seq(Message) /\ down[b] \in Seq(Message)
           /\ Len(up[b]) \in Nat /\ Len(down[b]) \in Nat
           /\ up[b] = <<>> <=> Len(up[b]) = 0
           /\ down[b] = <<>> <=> Len(down[b]) = 0
           /\ \A m \in Message : /\ Len(Append(up[b], m)) = Len(up[b]) + 1
                                 /\ Append(up[b], m)[Len(up[b]) + 1] = m
                                 /\ up[b] # <<>> => Append(up[b], m)[1] = up[b][1]
           /\ \A m \in Message : /\ Len(Append(down[b], m)) = Len(down[b]) + 1
                                 /\ Append(down[b], m)[Len(down[b]) + 1] = m
           /\ up[b] # <<>> => /\ Head(up[b]) = up[b][1] /\ up[b][1] \in Message
                              /\ Len(Tail(up[b])) = Len(up[b]) - 1
                              /\ Len(up[b]) = 2 => Tail(up[b])[1] = up[b][2]
                              /\ Len(up[b]) = 1 => Tail(up[b]) = <<>>
           /\ down[b] # <<>> => /\ Head(down[b]) = down[b][1] /\ down[b][1] \in Message
                                /\ Len(down[b]) = 1 => Tail(down[b]) = <<>>
<1>1. up[b] \in Seq(Message) /\ down[b] \in Seq(Message)
  BY DEF TypeOK
<1>2. /\ Len(up[b]) \in Nat /\ Len(down[b]) \in Nat
      /\ up[b] = <<>> <=> Len(up[b]) = 0
      /\ down[b] = <<>> <=> Len(down[b]) = 0
  BY <1>1, EmptyIs
<1>3. ASSUME NEW s \in Seq(Message), NEW m \in Message
      PROVE  /\ Len(Append(s, m)) = Len(s) + 1
             /\ Append(s, m)[Len(s) + 1] = m
             /\ s # <<>> => Append(s, m)[1] = s[1]
  <2>1. /\ Len(Append(s, m)) = Len(s) + 1 /\ Len(s) \in Nat
        /\ \A i \in 1 .. Len(s) + 1 :
              Append(s, m)[i] = IF i = Len(s) + 1 THEN m ELSE s[i]
    BY Appended
  <2>2. s # <<>> => Len(s) # 0
    BY EmptyIs
  <2> QED
    BY <2>1, <2>2
<1>4. ASSUME NEW s \in Seq(Message), s # <<>>
      PROVE  /\ Head(s) = s[1] /\ s[1] \in Message
             /\ Len(Tail(s)) = Len(s) - 1
             /\ Len(s) = 2 => Tail(s)[1] = s[2]
             /\ Len(s) = 1 => Tail(s) = <<>>
  <2>1. /\ Head(s) = s[1] /\ Head(s) \in Message
        /\ Tail(s) \in Seq(Message) /\ Len(Tail(s)) = Len(s) - 1
        /\ Len(s) \in Nat \ {0}
        /\ \A i \in 1 .. Len(s) - 1 : Tail(s)[i] = s[i + 1]
    BY <1>4, Tailed
  <2>2. Len(s) = 2 => Tail(s)[1] = s[1 + 1] /\ 1 + 1 = 2
    BY <2>1
  <2>3. Len(s) = 1 => Tail(s) = <<>>
    BY <2>1, EmptyIs
  <2> QED
    BY <2>1, <2>2, <2>3
<1> QED
  BY <1>1, <1>2, <1>3, <1>4

LEMMA InStepNext ==
    ASSUME Formed, NEW b \in Board, deaths[b] = 0, InStep(b),
           DataDeal(b) \/ ImageManage(b)
    PROVE  InStep(b)'
<1> DEFINE u == up[b]
           d == down[b]
           a == agency[b]
           Steps == {"poll", "asked", "sized", "send", "result", "add", "forward",
                     "check", "close", "gone"}
<1>1. TypeOK /\ MessagesOf(b) /\ linked[b] /\ board[b] # "connect"
  BY DEF Formed, Messages, Links, LinkOf
<1>2. /\ agency \in [Board -> Steps] /\ up \in [Board -> Seq(Message)]
      /\ down \in [Board -> Seq(Message)] /\ handed \in [Board -> Seq(Picture)]
      /\ result \in [Board -> Picture \union {NoPicture}]
      /\ board \in [Board -> {"ask", "await", "detect", "connect"}]
  BY <1>1 DEF TypeOK, Fifo!TypeOK
<1>3. CASE ReadHeader(b)
  <2>1. /\ a = "poll" /\ u # <<>> /\ up'[b] = Tail(u)
        /\ agency'[b] = IF u[1].type = "get" THEN "asked" ELSE "result"
        /\ result'[b] = u[1].of
        /\ UNCHANGED <<handed, down, board>>
    BY <1>1, <1>2, <1>3, UpIs DEF ReadHeader, fifo
  <2>2. /\ Len(u) \in Nat /\ (u = <<>> <=> Len(u) = 0) /\ Len(Tail(u)) = Len(u) - 1
        /\ Len(u) = 2 => Tail(u)[1] = u[2]
        /\ Len(u) = 1 => Tail(u) = <<>>
    BY <1>1, <2>1, UpIs
  <2>3. \/ board[b] = "await" /\ d = <<>> /\ Len(u) = 1 /\ u[1].type = "get"
        \/ /\ board[b] \in {"ask", "await"} /\ d = <<>>
           /\ Len(u) = IF board[b] = "ask" THEN 1 ELSE 2
           /\ u[1].type = "result" /\ handed[b] = <<u[1].of>>
           /\ board[b] = "await" => u[2].type = "get"
    BY <2>1 DEF InStep
  <2>4. CASE board[b] = "await" /\ d = <<>> /\ Len(u) = 1 /\ u[1].type = "get"
    BY <2>1, <2>2, <2>4 DEF InStep
  <2>5. CASE /\ board[b] \in {"ask", "await"} /\ d = <<>>
             /\ Len(u) = IF board[b] = "ask" THEN 1 ELSE 2
             /\ u[1].type = "result" /\ handed[b] = <<u[1].of>>
             /\ board[b] = "await" => u[2].type = "get"
    <3>1. agency'[b] = "result" /\ result'[b] = u[1].of /\ handed'[b] = <<result'[b]>>
      BY <2>1, <2>5
    <3>2. board[b] = "ask" => up'[b] = <<>>
      BY <2>1, <2>2, <2>5
    <3>3. board[b] = "await" => Len(up'[b]) = 1 /\ up'[b][1].type = "get"
      BY <2>1, <2>2, <2>5
    <3> QED
      BY <2>1, <2>5, <3>1, <3>2, <3>3 DEF InStep, Known, Returning
  <2> QED
    BY <2>3, <2>4, <2>5
<1>4. CASE LookForPicture(b)
  <2>1. /\ a = "asked" /\ UNCHANGED <<handed, up, result, board>>
        /\ \/ agency'[b] = "sized" /\ down' = down
           \/ agency'[b] = "poll" /\ down'[b] = Append(d, Msg("none", NoPicture))
    BY <1>1, <1>2, <1>4 DEF LookForPicture, Reply, fifo
  <2>2. Msg("none", NoPicture) \in Message /\ Msg("none", NoPicture).type = "none"
    BY DEF Msg, Message
  <2>3. d = <<>> => /\ Len(Append(d, Msg("none", NoPicture))) = 1
                    /\ Append(d, Msg("none", NoPicture))[1] = Msg("none", NoPicture)
    BY <1>1, <2>2, UpIs
  <2> QED
    BY <2>1, <2>2, <2>3 DEF InStep, Known, Idle, Returning
<1>5. CASE PopPicture(b)
  <2>1. /\ a = "sized" /\ agency'[b] = "send" /\ UNCHANGED <<up, down, result, board>>
    BY <1>2, <1>5 DEF PopPicture, links
  <2> QED
    BY <2>1 DEF InStep, Known, Idle, Returning
<1>6. CASE SendPicture(b)
  <2> DEFINE p == handed[b][1]
             m == Msg("picture", p)
  <2>1. a = "send" /\ handed[b] # <<>>
    BY <1>1, <1>6 DEF SendPicture, MessagesOf
  <2>2. p \in Picture /\ handed[b] = <<p>>
    BY <1>1, <2>1, HandedIs DEF Formed
  <2>3. /\ agency'[b] = "poll" /\ down'[b] = Append(d, m)
        /\ UNCHANGED <<handed, up, result, board>>
    BY <1>1, <1>2, <1>6 DEF SendPicture, Reply, fifo
  <2>4. m \in Message /\ m.type = "picture" /\ m.of = p
    BY <2>2 DEF Msg, Message
  <2> HIDE DEF p, m
  <2>5. d = <<>> => Len(Append(d, m)) = 1 /\ Append(d, m)[1] = m
    BY <1>1, <2>4, UpIs
  <2> QED
    BY <2>1, <2>2, <2>3, <2>4, <2>5 DEF InStep, Known, Idle, Returning
<1>7. CASE ReadFlag(b) \/ AddToFlag(b) \/ ForwardResult(b) \/ CheckFlag(b) \/ CloseClient(b)
  <2>1. UNCHANGED <<up, down, board, handed, result>>
    BY <1>7 DEF ReadFlag, AddToFlag, ForwardResult, CheckFlag, CloseClient, links, fifo
  <2>2. \/ a = "result" /\ agency'[b] = "add"
        \/ a = "add" /\ agency'[b] = "forward"
        \/ a = "forward" /\ agency'[b] = "check"
        \/ a = "check" /\ agency'[b] \in {"close", "poll"}
        \/ a = "close" /\ agency'[b] = "poll"
    BY <1>2, <1>7 DEF ReadFlag, AddToFlag, ForwardResult, CheckFlag, CloseClient
  <2> QED
    BY <2>1, <2>2 DEF InStep, Known, Idle, Returning
<1>8. CASE Ask(b)
  <2> DEFINE m == Msg("get", NoPicture)
  <2>1. /\ board[b] = "ask" /\ board'[b] = "await" /\ up'[b] = Append(u, m)
        /\ UNCHANGED <<down, agency, handed, result>>
    BY <1>2, <1>8 DEF Ask, fifo
  <2>2. m \in Message /\ m.type = "get"
    BY DEF Msg, Message
  <2> HIDE DEF m
  <2>3. /\ Len(u) \in Nat /\ (u = <<>> <=> Len(u) = 0)
        /\ Len(Append(u, m)) = Len(u) + 1 /\ Append(u, m)[Len(u) + 1] = m
        /\ u # <<>> => Append(u, m)[1] = u[1]
    BY <1>1, <2>2, UpIs
  <2>4. /\ Len(u) = 0 => Append(u, m)[1] = m
        /\ Len(u) = 1 => Append(u, m)[2] = m
    BY <2>3
  <2> QED
    BY <2>1, <2>2, <2>3, <2>4 DEF InStep, Known, Idle, Returning
<1>9. CASE ReceiveAnswer(b)
  <2>1. board[b] = "await" /\ d # <<>>
    BY <1>9 DEF ReceiveAnswer
  <2>2. /\ Head(d) = d[1] /\ Len(d) \in Nat
        /\ Len(d) = 1 => Tail(d) = <<>>
    BY <1>1, <2>1, UpIs
  <2>3. /\ board'[b] = IF d[1].type = "none" THEN "ask" ELSE "detect"
        /\ down'[b] = IF d[1].type = "none" THEN Tail(d) ELSE d
        /\ UNCHANGED <<up, agency, handed, result>>
    BY <1>2, <1>9, <2>2 DEF ReceiveAnswer, fifo
  <2>4. Len(d) = 1 => d[1].type \in {"none", "picture"}
    BY <1>1 DEF MessagesOf
  <2> QED
    BY <2>1, <2>2, <2>3, <2>4 DEF InStep, Known, Idle, Returning
<1>10. CASE Detect(b)
  <2>1. board[b] = "detect" /\ d # <<>>
    BY <1>10 DEF Detect, Formed, Links, LinkOf
  <2> DEFINE p == d[1].of
             m == Msg("result", p)
  <2>2. d[1] \in Message /\ Head(d) = d[1] /\ (Len(d) = 1 => Tail(d) = <<>>)
    BY <1>1, <2>1, UpIs
  <2>3. m \in Message /\ m.type = "result" /\ m.of = p
    BY <2>2 DEF Msg, Message
  <2>4. /\ board'[b] = "ask" /\ up'[b] = Append(u, m) /\ down'[b] = Tail(d)
        /\ UNCHANGED <<agency, handed, result>>
    BY <1>2, <1>10, <2>2 DEF Detect, fifo
  <2> HIDE DEF m
  <2>5. u = <<>> => Len(Append(u, m)) = 1 /\ Append(u, m)[1] = m
    BY <1>1, <2>3, UpIs
  <2> QED
    BY <2>1, <2>2, <2>3, <2>4, <2>5 DEF InStep, Known, Idle, Returning
<1>11. ~ Reconnect(b)
  BY <1>1 DEF Reconnect
<1> QED
  BY <1>3, <1>4, <1>5, <1>6, <1>7, <1>8, <1>9, <1>10, <1>11 DEF DataDeal, ImageManage

(* A step of one board or of its agency leaves the others where they are.   *)
LEMMA OthersStill ==
    ASSUME TypeOK, NEW b \in Board, NEW k \in Board, k # b,
           DataDeal(b) \/ ImageManage(b) \/ Die(b)
    PROVE  /\ board'[k] = board[k] /\ up'[k] = up[k] /\ down'[k] = down[k]
           /\ agency'[k] = agency[k] /\ handed'[k] = handed[k]
           /\ result'[k] = result[k] /\ deaths'[k] = deaths[k]
<1> USE DEF TypeOK, Fifo!TypeOK
<1>1. CASE DataDeal(b)
  <2>1. CASE ReadHeader(b)
    BY <2>1 DEF ReadHeader, page, fifo
  <2>2. CASE LookForPicture(b)
    BY <2>2 DEF LookForPicture, Reply, page, fifo
  <2>3. CASE PopPicture(b)
    BY <2>3 DEF PopPicture, Fifo!Deliver, links
  <2>4. CASE SendPicture(b)
    BY <2>4 DEF SendPicture, Reply, page, fifo
  <2>5. CASE ReadFlag(b) \/ AddToFlag(b) \/ ForwardResult(b) \/ CheckFlag(b) \/ CloseClient(b)
    BY <2>5 DEF ReadFlag, AddToFlag, ForwardResult, CheckFlag, CloseClient, fifo, links
  <2> QED
    BY <1>1, <2>1, <2>2, <2>3, <2>4, <2>5 DEF DataDeal
<1>2. CASE ImageManage(b)
  BY <1>2 DEF ImageManage, Ask, ReceiveAnswer, Detect, Reconnect, fifo
<1>3. CASE Die(b)
  BY <1>3 DEF Die, fifo
<1> QED
  BY <1>1, <1>2, <1>3

LEMMA NextInStep == StepInv /\ [Next]_vars => StepInv'
<1> SUFFICES ASSUME StepInv, [Next]_vars, DispatchInv',
                    NEW k \in Board, deaths'[k] = 0
             PROVE  InStep(k)'
  BY NextDispatch DEF StepInv
<1>1. Formed /\ TypeOK
  BY DEF StepInv, DispatchInv, Formed
<1>2. deaths[k] = 0 => InStep(k)
  BY DEF StepInv
<1>3. CASE UNCHANGED vars \/ Accept \/ Load \/ LoaderGoesOn
  <2>1. UNCHANGED <<up, down, board, agency, handed, result, deaths>>
    BY <1>3 DEF vars, Accept, Load, LoaderGoesOn, Fifo!Enqueue, Fifo!Release, links, fifo
  <2> QED
    BY <1>2, <2>1, OtherInStep
<1>4. ASSUME NEW b \in Board, DataDeal(b) \/ ImageManage(b) \/ Die(b), k # b
      PROVE  InStep(k)'
  BY <1>1, <1>2, <1>4, OthersStill, OtherInStep
<1>5. CASE DataDeal(k) \/ ImageManage(k)
  <2>1. deaths' = deaths
    BY <1>5 DEF DataDeal, ReadHeader, LookForPicture, PopPicture, SendPicture, ReadFlag,
                AddToFlag, ForwardResult, CheckFlag, CloseClient, ImageManage, Ask,
                ReceiveAnswer, Detect, Reconnect
  <2> QED
    BY <1>1, <1>2, <1>5, <2>1, InStepNext
<1>6. CASE Die(k)
  BY <1>1, <1>6 DEF Die, TypeOK
<1> QED
  BY <1>3, <1>4, <1>5, <1>6 DEF Next, StepInv

(* A result goes out under the number of the picture it is of, as long as   *)
(* no process of this board died: whatever the other boards do.             *)
THEOREM ResultIsOfItsPicture == Spec => []ResultOfItsPicture
<1>1. Init => StepInv
  BY InitDispatch DEF StepInv
<1>2. StepInv /\ [Next]_vars => StepInv'
  BY NextInStep
<1>3. StepInv => ResultOfItsPicture
  BY DEF StepInv, InStep, Known, Idle, Returning, ResultOfItsPicture
<1> QED
  BY <1>1, <1>2, <1>3, PTL DEF Spec

-----------------------------------------------------------------------------
(* One picture for a connection (task_readimg.cpp:51), and a web server     *)
(* that connects when the last result has come and nobody is about to close *)
(* its connection.                                                          *)
OneAtATime == PerConn = 1 /\ MaxWaiting = 1 /\ ~ Overlap

LEMMA GotIs ==
    ASSUME TypeOK, NEW c \in Conn
    PROVE  /\ got[c] \in Seq([number : Picture, of : Picture])
           /\ Len(got[c]) \in Nat /\ DOMAIN got[c] = 1 .. Len(got[c])
           /\ got[c] = <<>> <=> Len(got[c]) = 0
           /\ \A i \in 1 .. Len(got[c]) : got[c][i].of \in Picture
<1>1. got[c] \in Seq([number : Picture, of : Picture])
  BY DEF TypeOK
<1>2. \A i \in 1 .. Len(got[c]) : got[c][i] \in [number : Picture, of : Picture]
  BY <1>1, EmptyIs
<1> QED
  BY <1>1, <1>2, EmptyIs, LenProperties

(* What the web server has is nowhere else, and it has it once.             *)
LEMMA GotOnce ==
    ASSUME DispatchInv, NEW c \in Conn, NEW i \in 1 .. Len(got[c])
    PROVE  /\ \A j \in 1 .. Len(got[c]) : got[c][i].of = got[c][j].of => i = j
           /\ \A b \in Board : Returning(b) => result[b] # got[c][i].of
<1>1. TypeOK /\ Apart(holding) /\ DOMAIN holding = Holder /\ <<"got", c>> \in Holder
  BY AreHolders DEF DispatchInv, Formed, Placed, holding
<1>2. /\ got[c] \in Seq([number : Picture, of : Picture])
      /\ \A j \in 1 .. Len(got[c]) : got[c][j].of \in Picture
  BY <1>1, GotIs
<1>3. /\ Len(Of(got[c])) = Len(got[c])
      /\ \A j \in 1 .. Len(got[c]) : Of(got[c])[j] = got[c][j].of
  BY <1>2, OfIs, ThingsAre
<1>4. /\ holding[<<"got", c>>] = Of(got[c])
      /\ got[c][i].of # NoPicture
  BY <1>2, HoldingIs, ThingsAre
<1> DEFINE x == <<"got", c>>
<1> HIDE DEF x
<1>5. /\ x \in DOMAIN holding /\ Len(holding[x]) = Len(got[c])
      /\ \A j \in 1 .. Len(got[c]) : holding[x][j] = got[c][j].of
  BY <1>1, <1>3, <1>4 DEF x
<1>6. ASSUME NEW j \in 1 .. Len(got[c]), got[c][i].of = got[c][j].of
      PROVE  i = j
  <2>1. i \in 1 .. Len(holding[x]) /\ j \in 1 .. Len(holding[x])
    BY <1>5
  <2>2. holding[x][i] = holding[x][j] /\ holding[x][i] # NoPicture
    BY <1>4, <1>5, <1>6
  <2> QED
    BY <1>1, <1>5, <2>1, <2>2 DEF Apart
<1>7. ASSUME NEW b \in Board, Returning(b), result[b] = got[c][i].of
      PROVE  FALSE
  <2> DEFINE y == <<"result", b>>
  <2>1. y # x
    BY DEF x
  <2>2. holding[y] = <<result[b]>> /\ y \in DOMAIN holding
    BY <1>1, <1>7, HoldingIs, AreHolders
  <2> HIDE DEF y
  <2>3. 1 \in 1 .. Len(holding[y]) /\ holding[y][1] = result[b]
    BY <2>2
  <2>4. i \in 1 .. Len(holding[x]) /\ holding[x][i] = holding[y][1]
        /\ holding[x][i] # NoPicture
    BY <1>4, <1>5, <1>7, <2>3
  <2> QED
    BY <1>1, <1>5, <2>1, <2>2, <2>3, <2>4 DEF Apart
<1> QED
  BY <1>6, <1>7

(* A result at hand is of a picture that was pushed.                        *)
LEMMA ResultSent ==
    ASSUME DispatchInv, NEW b \in Board, Returning(b)
    PROVE  result[b] \in Picture /\ result[b] \in Sent
<1>1. TypeOK /\ Messages /\ Placed
  BY DEF DispatchInv, Formed
<1>2. result[b] \in Picture
  BY <1>1 DEF TypeOK, Messages, MessagesOf
<1>3. holding[<<"result", b>>] = <<result[b]>> /\ <<"result", b>> \in DOMAIN holding
  BY HoldingIs, AreHolders DEF holding
<1>4. Len(<<result[b]>>) = 1 /\ <<result[b]>>[1] = result[b]
  OBVIOUS
<1>5. Somewhere(result[b], holding)
  BY <1>3, <1>4 DEF Somewhere
<1> QED
  BY <1>1, <1>2, <1>5 DEF Placed

(* Steps that leave connections, descriptors and what came on them.         *)
LEMMA StillDelivered ==
    ASSUME Delivered, UNCHANGED <<got, conns, owner>>,
           \A b \in Board : agency'[b] \in {"check", "close"} =>
                               agency[b] \in {"check", "close"}
    PROVE  Delivered'
  BY DEF Delivered, Open

LEMMA Accept_delivered ==
    ASSUME OneAtATime, DeliveryInv, Accept
    PROVE  Delivered'
<1>1. TypeOK /\ Delivered
  BY DEF DeliveryInv, DispatchInv, Formed
<1>2. conns \in Nat /\ MaxConns \in Nat /\ owner \in [Conn -> Conn \union {0}]
  BY <1>1, PictureDispatchAssumption DEF TypeOK
<1>3. /\ conns < MaxConns /\ conns' = conns + 1 /\ got' = got /\ agency' = agency
      /\ \A b \in Board : agency[b] \notin {"check", "close"}
      /\ Cardinality(Waiting) < 1
      /\ \E f \in Conn : owner' = [owner EXCEPT ![f] = conns + 1]
  BY DEF Accept, OneAtATime
<1>4. Waiting = {}
  <2>1. IsFiniteSet(1 .. conns)
    BY <1>2, FS_Interval
  <2>2. IsFiniteSet(Waiting)
    BY <2>1, FS_Subset DEF Waiting
  <2>3. Cardinality(Waiting) \in Nat
    BY <2>2, FS_CardinalityType
  <2>4. Cardinality(Waiting) = 0
    BY <1>3, <2>3
  <2> QED
    BY <2>2, <2>4, FS_EmptySet
<1>5. \A c \in 1 .. conns : c \in Conn /\ got[c] # <<>>
  <2>1. \A c \in 1 .. conns : c \in Conn
    BY <1>2, <1>3 DEF Conn
  <2>2. \A c \in 1 .. conns : ~ (Len(got[c]) < 1)
    BY <1>4 DEF Waiting, OneAtATime
  <2> QED
    BY <1>1, <2>1, <2>2, GotIs
<1>6. \E f \in Conn : owner'[f] = conns + 1
  BY <1>2, <1>3
<1>7. \A c \in 1 .. conns' : c \in 1 .. conns \/ c = conns + 1
  BY <1>2, <1>3
<1>8. \A c \in 1 .. conns' - 1 : c \in 1 .. conns
  BY <1>2, <1>3
<1>9. \A c \in 1 .. conns' : (\E f \in Conn : owner'[f] = c) \/ got'[c] # <<>>
  BY <1>3, <1>5, <1>6, <1>7
<1>10. \A c \in Conn : \A i \in 1 .. Len(got'[c]) : got'[c][i].of = <<c, 1>>
  BY <1>1, <1>3 DEF Delivered
<1>11. \A c \in 1 .. conns' - 1 : got'[c] # <<>>
  BY <1>3, <1>5, <1>8
<1> QED
  BY <1>3, <1>9, <1>10, <1>11 DEF Delivered, Open

LEMMA ForwardResult_delivered ==
    ASSUME OneAtATime, DeliveryInv, NEW b \in Board, ForwardResult(b)
    PROVE  Delivered'
<1>1. DispatchInv /\ TypeOK /\ Descriptors /\ Delivered
  BY DEF DeliveryInv, DispatchInv, Formed
<1>2. /\ conns \in 0 .. MaxConns /\ MaxConns \in Nat
      /\ owner \in [Conn -> Conn \union {0}]
      /\ got \in [Conn -> Seq([number : Picture, of : Picture])]
  BY <1>1, PictureDispatchAssumption DEF TypeOK
<1> DEFINE p == result[b]
           m == [number |-> handed[b][1], of |-> p]
<1>3. /\ agency[b] = "forward" /\ Returning(b)
      /\ agency'[b] = "check" /\ \A k \in Board : k # b => agency'[k] = agency[k]
      /\ got' = IF owner[clientFd[b]] = 0 THEN got
                ELSE [got EXCEPT ![owner[clientFd[b]]] =
                        Append(got[owner[clientFd[b]]], m)]
      /\ UNCHANGED <<conns, owner>>
  BY <1>1 DEF ForwardResult, Returning, TypeOK
<1>4. p \in Picture /\ p \in Sent
  BY <1>1, <1>3, ResultSent
<1>5. p = <<p[1], 1>> /\ p[1] \in 1 .. conns /\ p[1] \in Conn /\ conns \in Conn
  <2>1. p \in Conn \X {1}
    BY <1>4 DEF Picture, OneAtATime
  <2>2. p[1] \in Conn /\ p = <<p[1], 1>>
    BY <2>1
  <2>3. p[1] < conns \/ p[1] = conns
    BY <1>4 DEF Sent
  <2> QED
    BY <2>2, <2>3, <1>2 DEF Conn
<1>6. ASSUME got[p[1]] # <<>> PROVE FALSE
  <2>1. 1 \in 1 .. Len(got[p[1]])
    BY <1>1, <1>5, <1>6, GotIs
  <2>2. got[p[1]][1].of = p
    BY <1>1, <1>5, <2>1 DEF Delivered
  <2> QED
    BY <1>1, <1>3, <1>5, <2>1, <2>2, GotOnce
<1>7. p[1] = conns
  <2>1. p[1] \in 1 .. conns - 1 \/ p[1] = conns
    BY <1>2, <1>5
  <2> QED
    BY <1>1, <1>6, <2>1 DEF Delivered
<1>8. Open(conns)
  BY <1>1, <1>5, <1>6, <1>7 DEF Delivered
<1>9. owner[clientFd[b]] = conns /\ conns # 0
  BY <1>1, <1>2, <1>5, <1>8 DEF Descriptors, Open
<1>10. handed[b][1] \in Picture
  <2>1. Messages
    BY <1>1 DEF DispatchInv, Formed
  <2>2. handed[b] # <<>>
    BY <1>3, <2>1 DEF Messages, MessagesOf
  <2> QED
    BY <1>1, <2>1, <2>2, HandedIs
<1>11. m \in [number : Picture, of : Picture] /\ m.of = p
  BY <1>4, <1>10
<1>12. /\ got'[conns] = Append(got[conns], m)
       /\ \A c \in Conn : c # conns => got'[c] = got[c]
  BY <1>2, <1>3, <1>5, <1>9
<1> HIDE DEF p, m
<1>13. got[conns] = <<>> /\ got[conns] \in Seq([number : Picture, of : Picture])
  BY <1>1, <1>2, <1>5, <1>6, <1>7
<1>14. Len(got'[conns]) = 1 /\ got'[conns][1] = m /\ got'[conns] # <<>>
  BY <1>11, <1>12, <1>13, OneIs
<1>15. ASSUME NEW c \in Conn, NEW i \in 1 .. Len(got'[c])
       PROVE  got'[c][i].of = <<c, 1>>
  <2>1. CASE c = conns
    <3>1. i = 1
      BY <2>1, <1>14
    <3> QED
      BY <2>1, <3>1, <1>5, <1>7, <1>11, <1>14
  <2>2. CASE c # conns
    BY <2>2, <1>1, <1>12 DEF Delivered
  <2> QED
    BY <2>1, <2>2
<1>16. \A c \in 1 .. conns : c \in Conn
  BY <1>2 DEF Conn
<1>17. \A c \in 1 .. conns - 1 : got'[c] # <<>>
  <2>1. \A c \in 1 .. conns - 1 : c \in 1 .. conns /\ c # conns
    BY <1>2
  <2> QED
    BY <2>1, <1>1, <1>12, <1>16 DEF Delivered
<1>18. \A c \in 1 .. conns : Open(c)' \/ got'[c] # <<>>
  <2>1. \A c \in 1 .. conns : c = conns \/ c \in 1 .. conns - 1
    BY <1>2
  <2> QED
    BY <2>1, <1>14, <1>17
<1>19. conns > 0
  BY <1>2, <1>9
<1> QED
  BY <1>3, <1>14, <1>15, <1>17, <1>18, <1>19 DEF Delivered

LEMMA CloseClient_delivered ==
    ASSUME DeliveryInv, NEW b \in Board, CloseClient(b)
    PROVE  Delivered'
<1>1. TypeOK /\ Delivered
  BY DEF DeliveryInv, DispatchInv, Formed
<1>2. /\ agency[b] = "close" /\ agency'[b] = "poll"
      /\ \A k \in Board : k # b => agency'[k] = agency[k]
      /\ UNCHANGED <<conns, got>>
  BY <1>1 DEF CloseClient, TypeOK
<1>3. conns \in Nat /\ conns > 0 /\ got[conns] # <<>>
  BY <1>1, <1>2 DEF Delivered, TypeOK
<1>4. \A c \in 1 .. conns : got[c] # <<>>
  <2>1. \A c \in 1 .. conns : c = conns \/ c \in 1 .. conns - 1
    BY <1>3
  <2> QED
    BY <2>1, <1>1, <1>3 DEF Delivered
<1> QED
  BY <1>1, <1>2, <1>3, <1>4 DEF Delivered

LEMMA NextDelivered ==
    ASSUME OneAtATime
    PROVE  DeliveryInv /\ [Next]_vars => DeliveryInv'
<1> SUFFICES ASSUME DeliveryInv, [Next]_vars PROVE Delivered'
  BY NextDispatch DEF DeliveryInv
<1>1. TypeOK /\ Delivered
  BY DEF DeliveryInv, DispatchInv, Formed
<1>2. CASE UNCHANGED vars \/ Load \/ LoaderGoesOn
  <2>1. UNCHANGED <<got, conns, owner, agency>>
    BY <1>2 DEF vars, Load, LoaderGoesOn, page
  <2> QED
    BY <1>1, <2>1, StillDelivered
<1>3. CASE Accept
  BY <1>3, Accept_delivered
<1>4. ASSUME NEW b \in Board, DataDeal(b), ~ ForwardResult(b), ~ CloseClient(b)
      PROVE  Delivered'
  <2>1. UNCHANGED <<got, conns, owner>>
    BY <1>4 DEF DataDeal, ReadHeader, LookForPicture, PopPicture, SendPicture, ReadFlag,
                AddToFlag, CheckFlag, page
  <2>2. /\ \A k \in Board : k # b => agency'[k] = agency[k]
        /\ agency'[b] \in {"check", "close"} => agency[b] = "check"
    BY <1>1, <1>4 DEF DataDeal, ReadHeader, LookForPicture, PopPicture, SendPicture,
                      ReadFlag, AddToFlag, CheckFlag, TypeOK
  <2> QED
    BY <1>1, <2>1, <2>2, StillDelivered
<1>5. ASSUME NEW b \in Board, ForwardResult(b) PROVE Delivered'
  BY <1>5, ForwardResult_delivered
<1>6. ASSUME NEW b \in Board, CloseClient(b) PROVE Delivered'
  BY <1>6, CloseClient_delivered
<1>7. ASSUME NEW b \in Board, ImageManage(b) \/ Die(b) PROVE Delivered'
  <2>1. UNCHANGED <<got, conns, owner, agency>>
    BY <1>7 DEF ImageManage, Ask, ReceiveAnswer, Detect, Reconnect, Die, page
  <2> QED
    BY <1>1, <2>1, StillDelivered
<1> QED
  BY <1>2, <1>3, <1>4, <1>5, <1>6, <1>7 DEF Next

LEMMA DeliveryInvariant ==
    ASSUME OneAtATime
    PROVE  Spec => []DeliveryInv
<1>1. Init => DeliveryInv
  <2>1. ASSUME Init PROVE Delivered
    <3>1. conns = 0 /\ got = [c \in Conn |-> <<>>] /\ agency = [b \in Board |-> "poll"]
      BY <2>1 DEF Init
    <3>2. 1 .. conns = {} /\ 1 .. conns - 1 = {} /\ 1 .. Len(<<>>) = {}
      BY <3>1, EmptySeq
    <3>3. \A c \in Conn : \A i \in 1 .. Len(got[c]) : got[c][i].of = <<c, 1>>
      BY <3>1, <3>2
    <3> QED
      BY <3>1, <3>2, <3>3 DEF Delivered
  <2> QED
    BY <2>1, InitDispatch DEF DeliveryInv
<1>2. DeliveryInv /\ [Next]_vars => DeliveryInv'
  BY NextDelivered
<1> QED
  BY <1>1, <1>2, PTL DEF Spec

(* The web server gets every result on the connection of its picture, if it *)
(* has one connection at a time: although every agency sends to the         *)
(* descriptor that came in last, and descriptors are used again.            *)
THEOREM ResultsComeOnTheirConnection ==
    ASSUME OneAtATime
    PROVE  Spec => []ResultsOnTheirConnection
<1>1. DeliveryInv => ResultsOnTheirConnection
  <2> SUFFICES ASSUME DeliveryInv, NEW c \in Conn, NEW i \in DOMAIN got[c]
               PROVE  got[c][i].of[1] = c
    BY DEF ResultsOnTheirConnection
  <2>1. i \in 1 .. Len(got[c])
    BY GotIs DEF DeliveryInv, DispatchInv, Formed
  <2>2. got[c][i].of = <<c, 1>>
    BY <2>1 DEF DeliveryInv, Delivered
  <2> QED
    BY <2>2
<1> QED
  BY <1>1, DeliveryInvariant, PTL

(* And no connection is closed before its result was sent on it: although   *)
(* the count that decides it runs over all agencies and connections, and is *)
(* written without a lock.                                                  *)
THEOREM ConnectionsServedBeforeClosed ==
    ASSUME OneAtATime
    PROVE  Spec => []ServedBeforeClosed
<1>1. DeliveryInv => ServedBeforeClosed
  <2> SUFFICES ASSUME DeliveryInv, NEW c \in 1 .. conns, ~ Open(c)
               PROVE  Len(got[c]) = 1
    BY DEF ServedBeforeClosed, OneAtATime
  <2>1. DispatchInv /\ TypeOK /\ Delivered
    BY DEF DeliveryInv, DispatchInv, Formed
  <2>2. c \in Conn
    <3>1. conns \in 0 .. MaxConns /\ MaxConns \in Nat
      BY <2>1, PictureDispatchAssumption DEF TypeOK
    <3> QED
      BY <3>1 DEF Conn
  <2>3. got[c] # <<>> /\ \A i \in 1 .. Len(got[c]) : got[c][i].of = <<c, 1>>
    BY <2>1, <2>2 DEF Delivered
  <2>4. Len(got[c]) \in Nat /\ Len(got[c]) # 0
    BY <2>1, <2>2, <2>3, GotIs
  <2>5. ASSUME Len(got[c]) > 1 PROVE FALSE
    <3>1. 1 \in 1 .. Len(got[c]) /\ 2 \in 1 .. Len(got[c])
      BY <2>4, <2>5
    <3>2. got[c][1].of = got[c][2].of
      BY <2>3, <3>1
    <3>3. 1 = 2
      BY <2>1, <2>2, <3>1, <3>2, GotOnce
    <3> QED
      BY <3>3
  <2>6. \A n \in Nat : n # 0 /\ ~ (n > 1) => n = 1
    OBVIOUS
  <2> QED
    BY <2>4, <2>5, <2>6
<1> QED
  BY <1>1, DeliveryInvariant, PTL
=============================================================================
