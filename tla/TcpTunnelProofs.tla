-------------------------- MODULE TcpTunnelProofs --------------------------
(***************************************************************************)
(* Proofs about module TcpTunnel: for any amount of data, buffer sizes and *)
(* timeouts nothing is lost between the ends of a proxied TCP connection,  *)
(* an end of file says that everything has arrived, and a half-closed      *)
(* relay is silent no longer than its timeout.                             *)
(***************************************************************************)
EXTENDS MCTcp, FiniteSetTheorems, TLAPS

Dirs == {"up", "down"}
Sides == {"agent", "proxy"}
Copy == [st : {"copy", "shut", "done"}, buf : 0..1]
Link == [staged : Nat, queued : Nat, end : BOOLEAN]

TunnelTyped ==
    /\ sent \in [Dirs -> Nat] /\ inbox \in [Dirs -> Nat] /\ out \in [Dirs -> Nat]
    /\ fin \in [Dirs -> BOOLEAN] /\ outFin \in [Dirs -> BOOLEAN]
    /\ c1 \in [Dirs -> Copy] /\ c2 \in [Dirs -> Copy] /\ link \in [Dirs -> Link]
    /\ relay \in [Sides -> {"running", "done", "idle", "failed"}]
    /\ broken \subseteq Sides /\ quiet \in Nat /\ link_closed \in BOOLEAN

\* No socket broke and no timer fired.
Clean == broken = {} /\ relay["proxy"] # "idle"

\* What was sent is somewhere between sender and receiver, or arrived.
NothingIsLost(d) ==
    /\ sent[d] = inbox[d] + c1[d].buf + link[d].staged + link[d].queued + c2[d].buf + out[d]
    /\ sent[d] <= MaxUnits /\ link[d].staged + link[d].queued <= LINK_SIZE

\* The first relay is past its copying: everything was read and written.
FirstIsThrough(d) ==
    /\ c1[d].st # "copy" => fin[d] /\ inbox[d] = 0 /\ c1[d].buf = 0
    /\ c1[d].st = "done" => link[d].end /\ link[d].staged = 0
    /\ link[d].end => c1[d].st = "done"

\* The second relay is past its copying: it saw the end packet, unless something broke.
SecondIsThrough(d) ==
    /\ c2[d].st # "copy" => c2[d].buf = 0 /\ (Clean => link[d].end /\ link[d].queued = 0)
    /\ outFin[d] => c2[d].st = "done"

DirectionInv(d) == NothingIsLost(d) /\ FirstIsThrough(d) /\ SecondIsThrough(d)

\* Unless something broke, a relay ends with both its directions, and it is only then that
\* the framed connection is dropped.
RelaysEndDone ==
    Clean => /\ \A x \in Sides : relay[x] # "running" =>
                    /\ \A d \in Dirs : Tunnel!First(d) = x => c1[d].st = "done"
                    /\ \A d \in Dirs : Tunnel!Second(d) = x => c2[d].st = "done"
             /\ link_closed => \E x \in Sides : relay[x] # "running"

QuietIsBounded == quiet <= (IF HALF_CLOSE > IDLE THEN HALF_CLOSE ELSE IDLE)

\* TcpRelayTimeouts::current of a half-closed relay, and the timer it arms.
HalfLimit == IF HALF_CLOSE = 0 THEN IDLE ELSE IF IDLE = 0 \/ HALF_CLOSE < IDLE THEN HALF_CLOSE ELSE IDLE
HalfTimer == relay["proxy"] = "running" /\ (c1["down"].st # "copy" \/ c2["up"].st # "copy") /\ HalfLimit # 0
                 => quiet <= HalfLimit

\* The inductive invariant.
TunnelInv == /\ TunnelTyped /\ (\A d \in Dirs : DirectionInv(d)) /\ RelaysEndDone
             /\ QuietIsBounded /\ HalfTimer
-----------------------------------------------------------------------------
LEMMA TwoEnds ==
    /\ Tunnel!Dirs = Dirs /\ Tunnel!Sides = Sides
    /\ \A d \in Dirs : Tunnel!First(d) \in Sides /\ Tunnel!Second(d) \in Sides /\ Tunnel!First(d) # Tunnel!Second(d)
    /\ \A d, e \in Dirs : /\ d # e => Tunnel!First(d) = Tunnel!Second(e) /\ Tunnel!Second(d) = Tunnel!First(e)
BY DEF Tunnel!Dirs, Tunnel!Sides, Dirs, Sides, Tunnel!First, Tunnel!Second

LEMMA TunnelInit == ASSUME Tunnel!TunnelConstants, Tunnel!Init PROVE TunnelInv
<1>1. /\ \A d \in Dirs : /\ sent[d] = 0 /\ inbox[d] = 0 /\ out[d] = 0 /\ ~fin[d] /\ ~outFin[d]
                         /\ c1[d] = [st |-> "copy", buf |-> 0] /\ c2[d] = [st |-> "copy", buf |-> 0]
                         /\ link[d] = [staged |-> 0, queued |-> 0, end |-> FALSE]
      /\ \A x \in Sides : relay[x] = "running"
      /\ link_closed = FALSE /\ quiet = 0
  BY TwoEnds DEF Tunnel!Init, Tunnel!NewCopy
<1>2. TunnelTyped
  <2>1. /\ sent \in [Dirs -> Nat] /\ inbox \in [Dirs -> Nat] /\ out \in [Dirs -> Nat]
        /\ relay \in [Sides -> {"running", "done", "idle", "failed"}]
        /\ broken \subseteq Sides /\ quiet \in Nat /\ link_closed \in BOOLEAN
    BY TwoEnds DEF Tunnel!Init
  <2>2. fin \in [Dirs -> BOOLEAN] /\ outFin \in [Dirs -> BOOLEAN]
    BY TwoEnds DEF Tunnel!Init
  <2>3. c1 \in [Dirs -> Copy] /\ c2 \in [Dirs -> Copy]
    BY TwoEnds DEF Tunnel!Init, Tunnel!NewCopy, Copy
  <2>4. link \in [Dirs -> Link]
    <3>1. [staged |-> 0, queued |-> 0, end |-> FALSE] \in Link
      BY DEF Link
    <3> QED
      BY TwoEnds, <3>1 DEF Tunnel!Init
  <2> QED
    BY <2>1, <2>2, <2>3, <2>4 DEF TunnelTyped
<1>3. QuietIsBounded /\ HalfTimer
  BY <1>1 DEF QuietIsBounded, HalfTimer, HalfLimit, Tunnel!TunnelConstants
<1>4. ASSUME NEW d \in Dirs PROVE DirectionInv(d)
  <2>1. NothingIsLost(d)
    BY <1>1 DEF NothingIsLost, Tunnel!TunnelConstants
  <2> QED
    BY <1>1, <2>1 DEF DirectionInv, FirstIsThrough, SecondIsThrough
<1>5. RelaysEndDone
  BY <1>1 DEF RelaysEndDone
<1> QED
  BY <1>2, <1>3, <1>4, <1>5 DEF TunnelInv

\* A step of one direction: the other stays, and relays and sockets are as they were.
LEMMA OneDirection ==
    ASSUME TunnelInv, TunnelTyped', NEW d \in Dirs, UNCHANGED <<relay, broken, link_closed>>,
           \A e \in Dirs \ {d} : /\ sent'[e] = sent[e] /\ inbox'[e] = inbox[e] /\ fin'[e] = fin[e]
                                 /\ c1'[e] = c1[e] /\ c2'[e] = c2[e] /\ link'[e] = link[e]
                                 /\ out'[e] = out[e] /\ outFin'[e] = outFin[e],
           DirectionInv(d)',
           c1[d].st = "done" => c1'[d].st = "done", c2[d].st = "done" => c2'[d].st = "done",
           quiet' \in {0, quiet},
           \/ quiet' = 0 \/ c1["down"].st # "copy" \/ c2["up"].st # "copy"
           \/ (c1'["down"].st = "copy" /\ c2'["up"].st = "copy"),
           Tunnel!TunnelConstants
    PROVE  TunnelInv'
<1>0. /\ TunnelTyped /\ (\A e \in Dirs : DirectionInv(e)) /\ RelaysEndDone
      /\ QuietIsBounded /\ HalfTimer
  BY DEF TunnelInv
<1>1. ASSUME NEW e \in Dirs PROVE DirectionInv(e)'
  <2>1. CASE e = d
    BY <2>1
  <2>2. CASE e # d
    <3>1. NothingIsLost(e)'
      BY <1>0, <2>2 DEF DirectionInv, NothingIsLost
    <3>2. FirstIsThrough(e)' /\ SecondIsThrough(e)'
      BY <1>0, <2>2 DEF DirectionInv, FirstIsThrough, SecondIsThrough, Clean
    <3> QED
      BY <3>1, <3>2 DEF DirectionInv
  <2> QED
    BY <2>1, <2>2
<1>2. RelaysEndDone'
  BY <1>0 DEF RelaysEndDone, Clean
<1>3. QuietIsBounded'
  BY <1>0 DEF QuietIsBounded, Tunnel!TunnelConstants, TunnelTyped
<1>4. HalfTimer'
  BY <1>0 DEF HalfTimer, HalfLimit, Tunnel!TunnelConstants, TunnelTyped
<1> QED
  BY <1>1, <1>2, <1>3, <1>4 DEF TunnelInv

\* The two ends.
LEMMA EndsStep ==
    ASSUME Tunnel!TunnelConstants, TunnelInv, NEW d \in Dirs, Tunnel!Send(d) \/ Tunnel!Close(d)
    PROVE  TunnelInv'
<1>0. TunnelTyped /\ DirectionInv(d)
  BY DEF TunnelInv
<1>1. /\ UNCHANGED <<c1, c2, link, link_closed, outFin, relay, broken, quiet>>
      /\ c1'["down"] = c1["down"] /\ c2'["up"] = c2["up"] /\ ~fin[d]
  BY DEF Tunnel!Send, Tunnel!Close, Tunnel!receivers
<1>2. \/ /\ inbox' = [inbox EXCEPT ![d] = @ + 1] /\ fin' = fin
         /\ \/ /\ out[d] = sent[d] /\ sent' = [sent EXCEPT ![d] = 1] /\ out' = [out EXCEPT ![d] = 0]
            \/ /\ sent[d] < MaxUnits /\ sent' = [sent EXCEPT ![d] = @ + 1] /\ out' = out
      \/ UNCHANGED <<sent, inbox, out>> /\ fin' = [fin EXCEPT ![d] = TRUE]
  BY DEF Tunnel!Send, Tunnel!Close, Tunnel!receivers
<1>3. TunnelTyped'
  <2>1. fin' \in [Dirs -> BOOLEAN] /\ outFin' \in [Dirs -> BOOLEAN]
    BY <1>0, <1>1, <1>2, Zenon DEF TunnelTyped
  <2>2. sent' \in [Dirs -> Nat] /\ inbox' \in [Dirs -> Nat] /\ out' \in [Dirs -> Nat]
    BY <1>0, <1>2 DEF TunnelTyped
  <2> QED
    BY <1>0, <1>1, <2>1, <2>2 DEF TunnelTyped
<1>4. \A e \in Dirs \ {d} : sent'[e] = sent[e] /\ inbox'[e] = inbox[e] /\ fin'[e] = fin[e] /\ out'[e] = out[e]
  BY <1>0, <1>2 DEF TunnelTyped
<1>5. NothingIsLost(d)'
  <2>1. /\ sent[d] \in Nat /\ inbox[d] \in Nat /\ out[d] \in Nat /\ c1[d] \in Copy /\ c2[d] \in Copy /\ link[d] \in Link
    BY <1>0 DEF TunnelTyped
  <2>2. /\ c1[d].buf \in Nat /\ c2[d].buf \in Nat /\ link[d].staged \in Nat /\ link[d].queued \in Nat
    BY <2>1 DEF Copy, Link
  <2>3. \/ sent'[d] = sent[d] + 1 /\ inbox'[d] = inbox[d] + 1 /\ out'[d] = out[d] /\ sent[d] < MaxUnits
        \/ sent'[d] = 1 /\ inbox'[d] = inbox[d] + 1 /\ out'[d] = 0 /\ out[d] = sent[d]
        \/ sent'[d] = sent[d] /\ inbox'[d] = inbox[d] /\ out'[d] = out[d]
    BY <1>0, <1>2 DEF TunnelTyped
  <2>4. /\ NothingIsLost(d) /\ c1'[d] = c1[d] /\ c2'[d] = c2[d] /\ link'[d] = link[d] 
        /\ MaxUnits \in Nat /\ LINK_SIZE \in Nat /\ MaxUnits > 0
    BY <1>0, <1>1 DEF DirectionInv, Tunnel!TunnelConstants
  <2>5. CASE out[d] = sent[d] /\ sent'[d] = 1 /\ inbox'[d] = inbox[d] + 1 /\ out'[d] = 0
    <3>1. inbox[d] = 0 /\ c1[d].buf = 0 /\ link[d].staged = 0 /\ link[d].queued = 0 /\ c2[d].buf = 0
      <4> DEFINE a == inbox[d]
                 b == c1[d].buf
                 c == link[d].staged
                 e == link[d].queued
                 f == c2[d].buf
                 g == sent[d]
      <4>1. a \in Nat /\ b \in Nat /\ c \in Nat /\ e \in Nat /\ f \in Nat /\ g \in Nat
        BY <2>1, <2>2
      <4>2. g = a + b + c + e + f + g
        BY <2>4, <2>5 DEF NothingIsLost
      <4> HIDE DEF a, b, c, e, f, g
      <4>3. a = 0 /\ b = 0 /\ c = 0 /\ e = 0 /\ f = 0
        BY <4>1, <4>2
      <4> QED
        BY <4>3 DEF a, b, c, e, f
    <3> QED
      BY <2>1, <2>4, <2>5, <3>1 DEF NothingIsLost
  <2>6. CASE sent'[d] = sent[d] + 1 /\ inbox'[d] = inbox[d] + 1 /\ out'[d] = out[d] /\ sent[d] < MaxUnits
    BY <2>1, <2>2, <2>4, <2>6 DEF NothingIsLost
  <2>7. CASE sent'[d] = sent[d] /\ inbox'[d] = inbox[d] /\ out'[d] = out[d]
    BY <2>4, <2>7 DEF NothingIsLost
  <2> QED
    BY <2>3, <2>5, <2>6, <2>7
<1>6. c1[d].st = "copy"
  BY <1>0, <1>1 DEF DirectionInv, FirstIsThrough
<1>7. FirstIsThrough(d)' /\ SecondIsThrough(d)'
  BY <1>0, <1>1, <1>6 DEF DirectionInv, FirstIsThrough, SecondIsThrough, Clean
<1> QED
  BY <1>1, <1>3, <1>4, <1>5, <1>7, OneDirection DEF DirectionInv

\* The first relay reads the sender and writes the framed connection.
LEMMA FirstStep ==
    ASSUME Tunnel!TunnelConstants, TunnelInv, NEW d \in Dirs,
           \/ Tunnel!Read1(d) \/ Tunnel!ReadEof1(d) \/ Tunnel!Write1(d) \/ Tunnel!Flush1(d) \/ Tunnel!Shut1(d)
    PROVE  TunnelInv'
<1>0. TunnelTyped /\ NothingIsLost(d) /\ FirstIsThrough(d) /\ SecondIsThrough(d)
  BY DEF TunnelInv, DirectionInv
<1>1. /\ UNCHANGED <<sent, fin, c2, link_closed, out, outFin, relay, broken>>
      /\ c2'["up"] = c2["up"]
  BY DEF Tunnel!Read1, Tunnel!ReadEof1, Tunnel!Write1, Tunnel!Flush1, Tunnel!Shut1, Tunnel!receivers, Tunnel!ends
<1>2. /\ sent[d] \in Nat /\ inbox[d] \in Nat /\ out[d] \in Nat /\ c1[d] \in Copy /\ c2[d] \in Copy /\ link[d] \in Link
      /\ quiet \in Nat
  BY <1>0 DEF TunnelTyped
<1>3. /\ c1[d].buf \in 0..1 /\ c2[d].buf \in 0..1 /\ link[d].staged \in Nat /\ link[d].queued \in Nat
      /\ c1[d].st \in {"copy", "shut", "done"} /\ link[d].end \in BOOLEAN
  BY <1>2 DEF Copy, Link
<1>4. /\ inbox' \in [Dirs -> Nat] /\ c1' \in [Dirs -> Copy] /\ link' \in [Dirs -> Link]
      /\ \A e \in Dirs \ {d} : inbox'[e] = inbox[e] /\ c1'[e] = c1[e] /\ link'[e] = link[e]
      /\ quiet' \in {0, quiet}
      /\ NothingIsLost(d)' /\ FirstIsThrough(d)'
      /\ link[d].end => link'[d].end /\ link'[d].queued = link[d].queued
      /\ c1[d].st = "done" => c1'[d].st = "done"
      /\ c1'[d].st # "copy" /\ c1[d].st = "copy" /\ Tunnel!First(d) = "proxy" => quiet' = 0
  <2>1. CASE Tunnel!Read1(d)
    <3>1. /\ inbox' = [inbox EXCEPT ![d] = @ - 1] /\ inbox[d] > 0 /\ c1[d] = [st |-> "copy", buf |-> 0]
          /\ c1' = [c1 EXCEPT ![d].buf = 1] /\ link' = link /\ quiet' \in {0, quiet}
      BY <2>1 DEF Tunnel!Read1, Tunnel!NewCopy, Tunnel!Active
    <3>2. /\ inbox' \in [Dirs -> Nat] /\ inbox'[d] = inbox[d] - 1
          /\ \A e \in Dirs \ {d} : inbox'[e] = inbox[e]
      BY <1>0, <1>2, <3>1 DEF TunnelTyped
    <3>3. /\ c1' \in [Dirs -> Copy] /\ c1'[d].st = "copy" /\ c1'[d].buf = 1
          /\ \A e \in Dirs \ {d} : c1'[e] = c1[e]
      BY <1>0, <3>1 DEF TunnelTyped, Copy
    <3> QED
      BY <1>0, <1>1, <1>2, <1>3, <3>1, <3>2, <3>3 DEF NothingIsLost, FirstIsThrough, TunnelTyped
  <2>2. CASE Tunnel!ReadEof1(d)
    <3>1. /\ inbox' = inbox /\ inbox[d] = 0 /\ c1[d] = [st |-> "copy", buf |-> 0] /\ fin[d]
          /\ c1' = [c1 EXCEPT ![d].st = "shut"] /\ link' = link
          /\ quiet' = IF Tunnel!First(d) = "proxy" THEN 0 ELSE quiet
      BY <2>2 DEF Tunnel!ReadEof1, Tunnel!NewCopy, Tunnel!Active, Tunnel!ends
    <3>2. /\ c1' \in [Dirs -> Copy] /\ c1'[d].st = "shut" /\ c1'[d].buf = 0
          /\ \A e \in Dirs \ {d} : c1'[e] = c1[e]
      BY <1>0, <3>1 DEF TunnelTyped, Copy
    <3> QED
      BY <1>0, <1>1, <1>2, <1>3, <3>1, <3>2 DEF NothingIsLost, FirstIsThrough, TunnelTyped
  <2>3. CASE Tunnel!Write1(d)
    <3>1. /\ inbox' = inbox /\ c1[d].buf = 1 /\ link[d].staged + link[d].queued < LINK_SIZE
          /\ c1' = [c1 EXCEPT ![d].buf = 0] /\ link' = [link EXCEPT ![d].staged = @ + 1]
          /\ quiet' \in {0, quiet}
      BY <2>3 DEF Tunnel!Write1, Tunnel!Active, Tunnel!ends
    <3>2. /\ c1' \in [Dirs -> Copy] /\ c1'[d].st = c1[d].st /\ c1'[d].buf = 0
          /\ \A e \in Dirs \ {d} : c1'[e] = c1[e]
      <4> DEFINE a == [c1[d] EXCEPT !.buf = 0]
      <4>1. a \in Copy /\ a.st = c1[d].st /\ a.buf = 0
        BY <1>2 DEF Copy
      <4>2. c1' = [c1 EXCEPT ![d] = a]
        BY <3>1
      <4> HIDE DEF a
      <4> QED
        BY <1>0, <4>1, <4>2 DEF TunnelTyped
    <3>3. /\ link' \in [Dirs -> Link] /\ link'[d].staged = link[d].staged + 1 /\ link'[d].queued = link[d].queued
          /\ link'[d].end = link[d].end /\ \A e \in Dirs \ {d} : link'[e] = link[e]
      BY <1>0, <3>1 DEF TunnelTyped, Link
    <3>4. c1[d].st = "copy"
      BY <1>0, <3>1 DEF FirstIsThrough
    <3>5. NothingIsLost(d)'
      BY <1>0, <1>1, <1>2, <1>3, <3>1, <3>2, <3>3 DEF NothingIsLost, Tunnel!TunnelConstants
    <3> QED
      BY <1>0, <1>1, <3>1, <3>2, <3>3, <3>4, <3>5 DEF FirstIsThrough, TunnelTyped
  <2>4. CASE Tunnel!Flush1(d)
    <3>1. /\ inbox' = inbox /\ link[d].staged > 0 /\ c1' = c1 /\ quiet' = quiet
          /\ link' = [link EXCEPT ![d].queued = @ + link[d].staged, ![d].staged = 0]
      BY <2>4 DEF Tunnel!Flush1, Tunnel!ends
    <3>2. /\ link' \in [Dirs -> Link] /\ link'[d].staged = 0 /\ link'[d].queued = link[d].queued + link[d].staged
          /\ link'[d].end = link[d].end /\ \A e \in Dirs \ {d} : link'[e] = link[e]
      BY <1>0, <3>1 DEF TunnelTyped, Link
    <3>3. NothingIsLost(d)'
      BY <1>0, <1>1, <1>2, <1>3, <3>1, <3>2 DEF NothingIsLost
    <3> QED
      BY <1>0, <1>1, <1>3, <3>1, <3>2, <3>3 DEF FirstIsThrough, TunnelTyped
  <2>5. CASE Tunnel!Shut1(d)
    <3>1. /\ inbox' = inbox /\ c1[d] = [st |-> "shut", buf |-> 0] /\ quiet' = quiet
          /\ c1' = [c1 EXCEPT ![d].st = "done"]
          /\ link' = [link EXCEPT ![d].queued = @ + link[d].staged, ![d].staged = 0, ![d].end = TRUE]
      BY <2>5 DEF Tunnel!Shut1, Tunnel!ends
    <3>2. /\ c1' \in [Dirs -> Copy] /\ c1'[d].st = "done" /\ c1'[d].buf = 0
          /\ \A e \in Dirs \ {d} : c1'[e] = c1[e]
      BY <1>0, <3>1 DEF TunnelTyped, Copy
    <3>3. /\ link' \in [Dirs -> Link] /\ link'[d].staged = 0 /\ link'[d].queued = link[d].queued + link[d].staged
          /\ link'[d].end /\ \A e \in Dirs \ {d} : link'[e] = link[e]
      <4>0. link[d].queued + link[d].staged \in Nat
        BY <1>3
      <4> DEFINE l == [link[d] EXCEPT !.queued = @ + link[d].staged, !.staged = 0, !.end = TRUE]
      <4>1. l \in Link /\ l.staged = 0 /\ l.queued = link[d].queued + link[d].staged /\ l.end
        BY <1>2, <4>0 DEF Link
      <4>2. link' = [link EXCEPT ![d] = l]
        BY <3>1
      <4> HIDE DEF l
      <4> QED
        BY <1>0, <4>1, <4>2 DEF TunnelTyped
    <3>4. NothingIsLost(d)'
      BY <1>0, <1>1, <1>2, <1>3, <3>1, <3>2, <3>3 DEF NothingIsLost
    <3> QED
      BY <1>0, <1>1, <3>1, <3>2, <3>3, <3>4 DEF FirstIsThrough, TunnelTyped
  <2> QED
    BY <2>1, <2>2, <2>3, <2>4, <2>5
<1>5. TunnelTyped'
  BY <1>0, <1>1, <1>4 DEF TunnelTyped
<1>6. SecondIsThrough(d)'
  BY <1>0, <1>1, <1>4 DEF SecondIsThrough, Clean
<1>7. \/ quiet' = 0 \/ c1["down"].st # "copy" \/ c2["up"].st # "copy"
      \/ (c1'["down"].st = "copy" /\ c2'["up"].st = "copy")
  <2>1. d = "down" => Tunnel!First(d) = "proxy"
    BY DEF Tunnel!First
  <2>2. d = "up" => c1'["down"] = c1["down"]
    BY <1>4 DEF Dirs
  <2>3. d = "down" \/ d = "up"
    BY DEF Dirs
  <2>4. CASE d = "down"
    BY <1>1, <1>4, <2>1, <2>4
  <2>5. CASE d = "up"
    BY <1>1, <2>2, <2>5
  <2> QED
    BY <2>3, <2>4, <2>5
<1> QED
  BY <1>1, <1>4, <1>5, <1>6, <1>7, OneDirection DEF DirectionInv

\* The second relay reads the framed connection and writes the receiver.
LEMMA SecondStep ==
    ASSUME Tunnel!TunnelConstants, TunnelInv, NEW d \in Dirs,
           \/ Tunnel!Read2(d) \/ Tunnel!ReadEof2(d) \/ Tunnel!Write2(d) \/ Tunnel!Shut2(d)
    PROVE  TunnelInv'
<1>0. TunnelTyped /\ NothingIsLost(d) /\ FirstIsThrough(d) /\ SecondIsThrough(d) /\ RelaysEndDone
  BY DEF TunnelInv, DirectionInv
<1>1. /\ UNCHANGED <<sent, inbox, fin, c1, link_closed, relay, broken>>
      /\ c1'["down"] = c1["down"] /\ Tunnel!Runs2(d)
  BY DEF Tunnel!Read2, Tunnel!ReadEof2, Tunnel!Write2, Tunnel!Shut2, Tunnel!ends
<1>2. /\ sent[d] \in Nat /\ inbox[d] \in Nat /\ out[d] \in Nat /\ c1[d] \in Copy /\ c2[d] \in Copy /\ link[d] \in Link
      /\ quiet \in Nat
  BY <1>0 DEF TunnelTyped
<1>3. /\ c1[d].buf \in 0..1 /\ c2[d].buf \in 0..1 /\ link[d].staged \in Nat /\ link[d].queued \in Nat
      /\ c2[d].st \in {"copy", "shut", "done"} /\ link[d].end \in BOOLEAN
  BY <1>2 DEF Copy, Link
<1>4. /\ out' \in [Dirs -> Nat] /\ outFin' \in [Dirs -> BOOLEAN] /\ c2' \in [Dirs -> Copy] /\ link' \in [Dirs -> Link]
      /\ \A e \in Dirs \ {d} : /\ out'[e] = out[e] /\ outFin'[e] = outFin[e] /\ c2'[e] = c2[e]
                               /\ link'[e] = link[e]
      /\ quiet' \in {0, quiet}
      /\ NothingIsLost(d)' /\ SecondIsThrough(d)'
      /\ link'[d].end = link[d].end /\ link'[d].staged = link[d].staged
      /\ c2[d].st = "done" => c2'[d].st = "done"
      /\ c2'[d].st # "copy" /\ c2[d].st = "copy" /\ Tunnel!Second(d) = "proxy" => quiet' = 0
  <2>1. CASE Tunnel!Read2(d)
    <3>1. /\ link' = [link EXCEPT ![d].queued = @ - 1] /\ c2' = [c2 EXCEPT ![d].buf = 1]
          /\ c2[d] = [st |-> "copy", buf |-> 0] /\ link[d].queued > 0 /\ UNCHANGED <<out, outFin>>
          /\ quiet' \in {0, quiet}
      BY <2>1 DEF Tunnel!Read2, Tunnel!NewCopy, Tunnel!Active, Tunnel!receivers
    <3>2. /\ link' \in [Dirs -> Link] /\ link'[d].staged = link[d].staged /\ link'[d].queued = link[d].queued - 1
          /\ link'[d].end = link[d].end /\ \A e \in Dirs \ {d} : link'[e] = link[e]
      <4>0. link[d].queued - 1 \in Nat
        BY <1>3, <3>1
      <4> DEFINE l == [link[d] EXCEPT !.queued = @ - 1]
      <4>1. l \in Link /\ l.staged = link[d].staged /\ l.queued = link[d].queued - 1 /\ l.end = link[d].end
        BY <1>2, <4>0 DEF Link
      <4>2. link' = [link EXCEPT ![d] = l]
        BY <3>1
      <4> HIDE DEF l
      <4> QED
        BY <1>0, <4>1, <4>2 DEF TunnelTyped
    <3>3. /\ c2' \in [Dirs -> Copy] /\ c2'[d].st = "copy" /\ c2'[d].buf = 1
          /\ \A e \in Dirs \ {d} : c2'[e] = c2[e]
      BY <1>0, <3>1 DEF TunnelTyped, Copy
    <3>4. NothingIsLost(d)'
      BY <1>0, <1>1, <1>2, <1>3, <3>1, <3>2, <3>3 DEF NothingIsLost, Tunnel!TunnelConstants
    <3>5. SecondIsThrough(d)'
      BY <1>0, <3>1, <3>3 DEF SecondIsThrough
    <3> QED
      BY <1>0, <3>1, <3>2, <3>3, <3>4, <3>5 DEF TunnelTyped
  <2>2. CASE Tunnel!ReadEof2(d)
    <3>1. /\ link' = link /\ c2' = [c2 EXCEPT ![d].st = "shut"] /\ (link[d].end \/ link_closed)
          /\ c2[d] = [st |-> "copy", buf |-> 0] /\ link[d].queued = 0 /\ UNCHANGED <<out, outFin>>
          /\ quiet' = IF Tunnel!Second(d) = "proxy" THEN 0 ELSE quiet
      BY <2>2 DEF Tunnel!ReadEof2, Tunnel!NewCopy, Tunnel!Active, Tunnel!receivers
    <3>2. /\ c2' \in [Dirs -> Copy] /\ c2'[d].st = "shut" /\ c2'[d].buf = 0
          /\ \A e \in Dirs \ {d} : c2'[e] = c2[e]
      BY <1>0, <3>1 DEF TunnelTyped, Copy
    <3>3. Clean => link[d].end
      <4> SUFFICES ASSUME Clean, link_closed PROVE link[d].end
        BY <3>1
      <4>1. PICK x \in Sides : relay[x] # "running"
        BY <1>0 DEF RelaysEndDone
      <4>2. x = Tunnel!First(d)
        BY <1>1, <4>1, TwoEnds DEF Tunnel!Runs2, Sides
      <4>3. c1[d].st = "done"
        BY <1>0, <4>1, <4>2 DEF RelaysEndDone
      <4> QED
        BY <1>0, <4>3 DEF FirstIsThrough
    <3>4. NothingIsLost(d)'
      BY <1>0, <1>1, <1>2, <1>3, <3>1, <3>2 DEF NothingIsLost
    <3>5. SecondIsThrough(d)'
      BY <1>0, <1>1, <3>1, <3>2, <3>3 DEF SecondIsThrough, Clean
    <3> QED
      BY <1>0, <3>1, <3>2, <3>4, <3>5 DEF TunnelTyped
  <2>3. CASE Tunnel!Write2(d)
    <3>1. /\ link' = link /\ c2' = [c2 EXCEPT ![d].buf = 0] /\ out' = [out EXCEPT ![d] = @ + 1]
          /\ c2[d].buf = 1 /\ outFin' = outFin /\ quiet' \in {0, quiet}
      BY <2>3 DEF Tunnel!Write2, Tunnel!Active
    <3>2. /\ c2' \in [Dirs -> Copy] /\ c2'[d].st = c2[d].st /\ c2'[d].buf = 0
          /\ \A e \in Dirs \ {d} : c2'[e] = c2[e]
      <4> DEFINE a == [c2[d] EXCEPT !.buf = 0]
      <4>1. a \in Copy /\ a.st = c2[d].st /\ a.buf = 0
        BY <1>2 DEF Copy
      <4>2. c2' = [c2 EXCEPT ![d] = a]
        BY <3>1
      <4> HIDE DEF a
      <4> QED
        BY <1>0, <4>1, <4>2 DEF TunnelTyped
    <3>3. /\ out' \in [Dirs -> Nat] /\ out'[d] = out[d] + 1 /\ \A e \in Dirs \ {d} : out'[e] = out[e]
      BY <1>0, <1>2, <3>1 DEF TunnelTyped
    <3>4. NothingIsLost(d)'
      BY <1>0, <1>1, <1>2, <1>3, <3>1, <3>2, <3>3 DEF NothingIsLost
    <3>5. c2[d].st = "copy"
      BY <1>0, <3>1 DEF SecondIsThrough
    <3>6. SecondIsThrough(d)'
      BY <1>0, <3>1, <3>2, <3>5 DEF SecondIsThrough
    <3> QED
      BY <1>0, <3>1, <3>2, <3>3, <3>4, <3>5, <3>6 DEF TunnelTyped
  <2>4. CASE Tunnel!Shut2(d)
    <3>1. /\ link' = link /\ c2' = [c2 EXCEPT ![d].st = "done"]
          /\ outFin' = [outFin EXCEPT ![d] = (Tunnel!Second(d) \notin broken)]
          /\ c2[d] = [st |-> "shut", buf |-> 0] /\ UNCHANGED <<out, quiet>>
      BY <2>4 DEF Tunnel!Shut2
    <3>2. /\ c2' \in [Dirs -> Copy] /\ c2'[d].st = "done" /\ c2'[d].buf = 0
          /\ \A e \in Dirs \ {d} : c2'[e] = c2[e]
      BY <1>0, <3>1 DEF TunnelTyped, Copy
    <3>3. /\ outFin' \in [Dirs -> BOOLEAN] /\ \A e \in Dirs \ {d} : outFin'[e] = outFin[e]
      BY <1>0, <3>1, Zenon DEF TunnelTyped
    <3>4. NothingIsLost(d)'
      BY <1>0, <1>1, <1>2, <1>3, <3>1, <3>2 DEF NothingIsLost
    <3>5. SecondIsThrough(d)'
      BY <1>0, <1>1, <3>1, <3>2 DEF SecondIsThrough, Clean
    <3> QED
      BY <1>0, <3>1, <3>2, <3>3, <3>4, <3>5 DEF TunnelTyped
  <2> QED
    BY <2>1, <2>2, <2>3, <2>4
<1>5. TunnelTyped'
  BY <1>0, <1>1, <1>4 DEF TunnelTyped
<1>6. FirstIsThrough(d)'
  BY <1>0, <1>1, <1>4 DEF FirstIsThrough
<1>7. \/ quiet' = 0 \/ c1["down"].st # "copy" \/ c2["up"].st # "copy"
      \/ (c1'["down"].st = "copy" /\ c2'["up"].st = "copy")
  <2>1. d = "up" => Tunnel!Second(d) = "proxy"
    BY DEF Tunnel!Second
  <2>2. d = "down" => c2'["up"] = c2["up"]
    BY <1>4 DEF Dirs
  <2>3. d = "down" \/ d = "up"
    BY DEF Dirs
  <2>4. CASE d = "up"
    BY <1>1, <1>4, <2>1, <2>4
  <2>5. CASE d = "down"
    BY <1>1, <2>2, <2>5
  <2> QED
    BY <2>3, <2>4, <2>5
<1> QED
  BY <1>1, <1>4, <1>5, <1>6, <1>7, OneDirection DEF DirectionInv

\* A relay ends or a socket breaks: what the directions carry stays where it is.
LEMMA RelayEnds ==
    ASSUME TunnelInv, UNCHANGED <<sent, inbox, fin, c1, c2, link, out, outFin, quiet>>,
           relay' \in [Sides -> {"running", "done", "idle", "failed"}], broken' \subseteq Sides,
           link_closed' \in BOOLEAN, Clean' => Clean, RelaysEndDone',
           relay'["proxy"] = "running" => relay["proxy"] = "running"
    PROVE  TunnelInv'
<1>0. /\ TunnelTyped /\ (\A e \in Dirs : DirectionInv(e)) /\ QuietIsBounded /\ HalfTimer
  BY DEF TunnelInv
<1>1. TunnelTyped'
  BY <1>0 DEF TunnelTyped
<1>2. ASSUME NEW e \in Dirs PROVE DirectionInv(e)'
  <2>1. NothingIsLost(e) /\ FirstIsThrough(e) /\ SecondIsThrough(e)
    BY <1>0 DEF DirectionInv
  <2>2. NothingIsLost(e)' /\ FirstIsThrough(e)'
    BY <2>1 DEF NothingIsLost, FirstIsThrough
  <2>3. SecondIsThrough(e)'
    BY <2>1 DEF SecondIsThrough
  <2> QED
    BY <2>2, <2>3 DEF DirectionInv
<1>3. QuietIsBounded' /\ HalfTimer'
  BY <1>0 DEF QuietIsBounded, HalfTimer, HalfLimit
<1> QED
  BY <1>1, <1>2, <1>3 DEF TunnelInv

LEMMA EndingStep ==
    ASSUME TunnelInv, NEW x \in Sides, Tunnel!RelayDone(x) \/ Tunnel!RelayFails(x) \/ Tunnel!Break(x)
    PROVE  TunnelInv'
<1>0. TunnelTyped /\ RelaysEndDone /\ \A d \in Dirs : FirstIsThrough(d) /\ SecondIsThrough(d)
  BY DEF TunnelInv, DirectionInv
<1>1. CASE Tunnel!Break(x)
  <2>1. /\ UNCHANGED <<sent, inbox, fin, c1, c2, link, out, outFin, quiet, relay, link_closed>>
        /\ broken' = broken \cup {x} /\ ~Clean'
    BY <1>1 DEF Tunnel!Break, Tunnel!ends, Tunnel!receivers, Clean
  <2>2. RelaysEndDone' /\ broken' \subseteq Sides /\ link_closed' \in BOOLEAN
        /\ relay' \in [Sides -> {"running", "done", "idle", "failed"}]
    BY <1>0, <2>1 DEF RelaysEndDone, TunnelTyped
  <2> QED
    BY <2>1, <2>2, RelayEnds
<1>2. ASSUME NEW how \in {"done", "failed"}, relay[x] = "running", Tunnel!EndRelay(x, how),
             Clean => \A d \in Dirs : /\ Tunnel!First(d) = x => c1[d].st = "done"
                                      /\ Tunnel!Second(d) = x => c2[d].st = "done"
      PROVE  TunnelInv'
  <2>1. /\ UNCHANGED <<sent, inbox, fin, c1, c2, link, out, outFin, quiet, broken>>
        /\ relay' = [relay EXCEPT ![x] = how] /\ link_closed' = TRUE
    BY <1>2 DEF Tunnel!EndRelay, Tunnel!ends, Tunnel!receivers
  <2>2. /\ relay' \in [Sides -> {"running", "done", "idle", "failed"}]
        /\ relay'[x] = how /\ \A y \in Sides \ {x} : relay'[y] = relay[y]
    BY <1>0, <2>1 DEF TunnelTyped
  <2>3. Clean' => Clean
    BY <1>2, <2>1, <2>2 DEF Clean, Sides
  <2>4. RelaysEndDone'
    BY <1>0, <1>2, <2>1, <2>2, <2>3 DEF RelaysEndDone
  <2>5. relay'["proxy"] = "running" => relay["proxy"] = "running"
    BY <1>2, <2>2 DEF Sides
  <2>6. broken' \subseteq Sides /\ link_closed' \in BOOLEAN
    BY <1>0, <2>1 DEF TunnelTyped
  <2> QED
    BY <2>1, <2>2, <2>3, <2>4, <2>5, <2>6, RelayEnds
<1>3. CASE Tunnel!RelayDone(x)
  <2>1. \A d \in Dirs : /\ Tunnel!First(d) = x => c1[d].st = "done"
                        /\ Tunnel!Second(d) = x => c2[d].st = "done"
    BY <1>3, TwoEnds DEF Tunnel!RelayDone, Tunnel!Copies
  <2> QED
    BY <1>2, <1>3, <2>1 DEF Tunnel!RelayDone
<1>4. CASE Tunnel!RelayFails(x)
  <2>1. ~Clean
    <3> SUFFICES ASSUME Clean PROVE FALSE
      OBVIOUS
    <3>1. PICK d \in Dirs : Tunnel!First(d) = x /\ (c1[d].buf = 1 \/ c1[d].st = "shut") /\ link_closed
      BY <1>4, TwoEnds DEF Tunnel!RelayFails, Clean
    <3>2. PICK y \in Sides : relay[y] # "running"
      BY <1>0, <3>1 DEF RelaysEndDone
    <3>3. y = Tunnel!Second(d)
      BY <1>4, <3>1, <3>2, TwoEnds DEF Tunnel!RelayFails, Sides
    <3>4. c2[d].st = "done"
      BY <1>0, <3>2, <3>3 DEF RelaysEndDone
    <3>5. c1[d].st = "done"
      BY <1>0, <3>4 DEF SecondIsThrough, FirstIsThrough
    <3> QED
      BY <1>0, <3>1, <3>5 DEF FirstIsThrough
  <2> QED
    BY <1>2, <1>4, <2>1 DEF Tunnel!RelayFails
<1> QED
  BY <1>1, <1>3, <1>4

\* The proxy's relay is half closed when a direction it reads is at its end; its timer then
\* is the shorter of the two that are set.
LEMMA TimerIsSet ==
    ASSUME Tunnel!TunnelConstants
    PROVE  /\ Tunnel!half_closed <=> (c1["down"].st # "copy" \/ c2["up"].st # "copy")
           /\ Tunnel!half_closed => Tunnel!current(Tunnel!half_closed) = HalfLimit
           /\ ~Tunnel!half_closed => Tunnel!current(Tunnel!half_closed) = IDLE
           /\ Tunnel!current(TRUE) = HalfLimit
<1>1. Tunnel!half_closed <=> (c1["down"].st # "copy" \/ c2["up"].st # "copy")
  BY TwoEnds DEF Tunnel!half_closed, Tunnel!Copies, Tunnel!First, Tunnel!Second, Dirs, Tunnel!Dirs
<1>2. /\ Tunnel!half_closed => Tunnel!current(Tunnel!half_closed) = HalfLimit
      /\ ~Tunnel!half_closed => Tunnel!current(Tunnel!half_closed) = IDLE
  BY DEF Tunnel!current, HalfLimit, Tunnel!TunnelConstants
<1>3. Tunnel!current(TRUE) = HalfLimit
  BY DEF Tunnel!current, HalfLimit, Tunnel!TunnelConstants
<1> QED
  BY <1>1, <1>2, <1>3

LEMMA TimerStep ==
    ASSUME Tunnel!TunnelConstants, TunnelInv, Tunnel!IdleFires \/ Tunnel!Tick PROVE TunnelInv'
<1>0. /\ TunnelTyped /\ (\A e \in Dirs : DirectionInv(e)) /\ RelaysEndDone
  BY DEF TunnelInv
<1>1. CASE Tunnel!IdleFires
  <2>1. /\ UNCHANGED <<sent, inbox, fin, c1, c2, link, out, outFin, quiet, broken>>
        /\ relay' = [relay EXCEPT !["proxy"] = "idle"] /\ link_closed' = TRUE
    BY <1>1 DEF Tunnel!IdleFires, Tunnel!EndRelay, Tunnel!ends, Tunnel!receivers
  <2>2. /\ relay' \in [Sides -> {"running", "done", "idle", "failed"}] /\ relay'["proxy"] = "idle"
    BY <1>0, <2>1 DEF TunnelTyped, Sides
  <2>3. ~Clean' /\ RelaysEndDone'
    BY <2>2 DEF Clean, RelaysEndDone
  <2>4. broken' \subseteq Sides /\ link_closed' \in BOOLEAN
    BY <1>0, <2>1 DEF TunnelTyped
  <2> QED
    BY <2>1, <2>2, <2>3, <2>4, RelayEnds
<1>2. CASE Tunnel!Tick
  <2>1. /\ UNCHANGED <<sent, inbox, fin, c1, c2, link, link_closed, out, outFin, relay, broken>>
        /\ quiet' = quiet + 1 /\ quiet < Tunnel!current(Tunnel!half_closed)
    BY <1>2 DEF Tunnel!Tick, Tunnel!ends, Tunnel!receivers
  <2>2. quiet \in Nat /\ TunnelTyped'
    BY <1>0, <2>1 DEF TunnelTyped
  <2>3. \/ (c1["down"].st # "copy" \/ c2["up"].st # "copy") /\ quiet < HalfLimit
        \/ ~(c1["down"].st # "copy" \/ c2["up"].st # "copy") /\ quiet < IDLE
    <3>1. CASE Tunnel!half_closed
      BY <2>1, <3>1, TimerIsSet
    <3>2. CASE ~Tunnel!half_closed
      BY <2>1, <3>2, TimerIsSet
    <3> QED
      BY <3>1, <3>2
  <2>4. QuietIsBounded' /\ HalfTimer'
    BY <2>1, <2>2, <2>3 DEF QuietIsBounded, HalfTimer, HalfLimit, Tunnel!TunnelConstants
  <2>5. ASSUME NEW e \in Dirs PROVE DirectionInv(e)'
    BY <1>0, <2>1 DEF DirectionInv, NothingIsLost, FirstIsThrough, SecondIsThrough, Clean
  <2>6. RelaysEndDone'
    BY <1>0, <2>1 DEF RelaysEndDone, Clean
  <2> QED
    BY <2>2, <2>4, <2>5, <2>6 DEF TunnelInv
<1> QED
  BY <1>1, <1>2

LEMMA TunnelStep ==
    ASSUME Tunnel!TunnelConstants, TunnelInv, [Tunnel!Next]_(Tunnel!vars) PROVE TunnelInv'
<1>1. CASE UNCHANGED Tunnel!vars
  <2>1. UNCHANGED <<sent, inbox, fin, c1, c2, link, link_closed, out, outFin, relay, broken, quiet>>
    BY <1>1 DEF Tunnel!vars
  <2>2. /\ TunnelTyped /\ RelaysEndDone
    BY DEF TunnelInv
  <2>3. RelaysEndDone' /\ (Clean' => Clean)
    BY <2>1, <2>2 DEF RelaysEndDone, Clean
  <2> QED
    BY <2>1, <2>2, <2>3, RelayEnds DEF TunnelTyped
<1>2. CASE Tunnel!Next
  BY <1>2, TwoEnds, EndsStep, FirstStep, SecondStep, EndingStep, TimerStep
     DEF Tunnel!Next, Tunnel!Copying1, Tunnel!Copying2, Tunnel!Ending
<1> QED
  BY <1>1, <1>2

\* The parts of the suite share the tunnel: the invariant is that of the one with timers.
WithTimers == part = "timers" => TunnelInv

\* For any amount of data, any capacity of the framed connection and any timeouts: units and
\* idle time stay within their limits; as long as no socket broke and no timer fired, a
\* receiver that sees the end of file has everything that was sent before the close, whatever
\* the other direction does (response_sink.rs:44-47, copy_bidirectional of both relays); and a
\* half-closed relay is never silent for longer than the half-close timeout.
THEOREM EndOfFileIsHonest ==
    ASSUME Tunnel!TunnelConstants
    PROVE  Spec => []FinIsHonest
<1>1. Init => WithTimers
  BY TunnelInit DEF Init, WithTimers
<1>2. WithTimers /\ [Next]_vars => WithTimers'
  <2> SUFFICES ASSUME WithTimers, [Next]_vars PROVE WithTimers'
    OBVIOUS
  <2>1. part' = part /\ (part = "timers" => [Tunnel!Next]_(Tunnel!vars))
    BY DEF Next, OnlyTunnel, OnlyPlain, vars, timers_vars, Tunnel!vars
  <2> QED
    BY <2>1, TunnelStep DEF WithTimers
<1>3. ASSUME TunnelInv PROVE Tunnel!TypeOK /\ Tunnel!FinIsHonest /\ Tunnel!HalfCloseTimerApplies
  <2>0. /\ TunnelTyped /\ (\A d \in Dirs : DirectionInv(d)) /\ QuietIsBounded /\ HalfTimer
    BY <1>3 DEF TunnelInv
  <2>1. ASSUME NEW d \in Dirs
        PROVE  /\ inbox[d] \in 0..MaxUnits /\ out[d] \in 0..sent[d] /\ link[d].staged + link[d].queued <= LINK_SIZE
               /\ (outFin[d] /\ Clean => fin[d] /\ out[d] = sent[d])
    <3>1. /\ sent[d] \in Nat /\ inbox[d] \in Nat /\ out[d] \in Nat /\ c1[d].buf \in Nat /\ c2[d].buf \in Nat
          /\ link[d].staged \in Nat /\ link[d].queued \in Nat
      BY <2>0, SMTT(60) DEF TunnelTyped, Copy, Link
    <3>2. /\ inbox[d] \in 0..MaxUnits /\ out[d] \in 0..sent[d] /\ link[d].staged + link[d].queued <= LINK_SIZE
      BY <2>0, <3>1 DEF DirectionInv, NothingIsLost, Tunnel!TunnelConstants
    <3>3. ASSUME outFin[d], Clean
          PROVE  /\ fin[d] /\ inbox[d] = 0 /\ c1[d].buf = 0 /\ link[d].staged = 0 /\ link[d].queued = 0
                 /\ c2[d].buf = 0
      BY <2>0, <3>3 DEF DirectionInv, FirstIsThrough, SecondIsThrough
    <3>4. ASSUME outFin[d], Clean PROVE out[d] = sent[d]
      BY <2>0, <3>1, <3>3, <3>4 DEF DirectionInv, NothingIsLost
    <3> QED
      BY <3>2, <3>3, <3>4
  <2>2. Tunnel!TypeOK
    BY <2>0, <2>1, TwoEnds DEF Tunnel!TypeOK, QuietIsBounded
  <2>3. Tunnel!FinIsHonest
    BY <2>1, TwoEnds DEF Tunnel!FinIsHonest, Clean
  <2>4. Tunnel!HalfCloseTimerApplies
    <3> SUFFICES ASSUME relay["proxy"] = "running", Tunnel!half_closed, Tunnel!current(TRUE) # 0
                 PROVE  quiet <= Tunnel!current(TRUE)
      BY DEF Tunnel!HalfCloseTimerApplies
    <3>1. Tunnel!current(TRUE) = HalfLimit /\ (c1["down"].st # "copy" \/ c2["up"].st # "copy")
      BY TimerIsSet
    <3> QED
      BY <2>0, <3>1 DEF HalfTimer
  <2> QED
    BY <2>2, <2>3, <2>4
<1>4. WithTimers => FinIsHonest
  BY <1>3 DEF WithTimers, FinIsHonest
<1> QED
  BY <1>1, <1>2, <1>4, PTL DEF Spec
=============================================================================
