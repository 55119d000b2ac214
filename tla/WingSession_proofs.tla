-------------------------- MODULE WingSession_proofs --------------------------
(***************************************************************************)
(* WingSession's type invariant and StreamsExact: what browsers are sent,   *)
(* for any number of browsers and any output.                               *)
(***************************************************************************)
EXTENDS WingSession, SequenceTheorems, TLAPS

(* The inductive invariant *)

Attaching == {"announce", "connect", "replay", "resend", "activate"}

\* A request of browser g is in the input channel.
Waiting(g) == \E i \in DOMAIN input : input[i].kind # "kill" /\ input[i].g = g

\* Nothing was done for client g yet.
Untouched(g) ==
    /\ stream[g] = "none" /\ pos[g] = -1 /\ out[g] = "none" /\ key[g] = NoKey /\ seen[g] = <<>>
    /\ g \notin viewers /\ g \notin cancelled /\ gcm # g /\ started # g /\ active # g
    /\ \A h \in Clients : key[h] # g

\* Browsers ask once each, with their own key or none.
Asked ==
    /\ \A i \in DOMAIN input :
         /\ input[i].kind # "none"
         /\ input[i].kind # "kill" =>
               input[i].g \in 1..clients /\ input[i].key \in {input[i].g, NoKey}
    /\ \A i, j \in DOMAIN input :
         input[i].kind # "kill" /\ input[j].kind # "kill" /\ input[i].g = input[j].g => i = j

Fresh == \A g \in Clients : g > clients \/ Waiting(g) => Untouched(g)

\* The attach under way is of a client that nothing else serves yet.
Handling ==
    /\ pc \notin Attaching => req = NoReq
    /\ pc \in Attaching =>
         /\ req.kind \in {"attach", "spectate"} /\ req.key \in {req.g, NoKey}
         /\ req.g \in 1..clients /\ ~Waiting(req.g)
         /\ out[req.g] = "none" /\ gcm # req.g /\ active # req.g
         /\ \A h \in Clients : key[h] # req.g
         /\ Controls(req) => gcm = NoKey /\ req.g \notin viewers /\ active \in cancelled
         /\ ~Controls(req) => req.g \in viewers
         /\ pc # "announce" /\ req.kind = "attach" => started = req.g
         /\ req.kind = "spectate" => started # req.g

\* What it has done for that client so far.
Progress ==
    /\ pc \in {"announce", "connect"} =>
         stream[req.g] = "none" /\ pos[req.g] = -1 /\ seen[req.g] = <<>>
    /\ pc = "replay" =>
         req.key = req.g /\ stream[req.g] # "none" /\ pos[req.g] = -1 /\ seen[req.g] = <<>>
    /\ pc = "resend" =>
         /\ req.key = req.g /\ stream[req.g] = "open" /\ seen[req.g] = <<>>
         /\ pos[req.g] = base[req.g] /\ item[req.g] = [lo |-> 1, hi |-> base[req.g]]
    /\ pc = "activate" =>
         /\ req.key = NoKey => pos[req.g] = -1
         /\ pos[req.g] = -1 => seen[req.g] = <<>>
         /\ req.key # NoKey /\ pos[req.g] = -1 => stream[req.g] = "ended"
         /\ pos[req.g] # -1 => pos[req.g] = base[req.g]
         /\ seen[req.g] # <<>> =>
              seen[req.g] = <<[src |-> req.g, lo |-> 1, hi |-> pos[req.g]]>>
         /\ pos[req.g] > 0 /\ (req.g \in viewers \/ started = req.g) => seen[req.g] # <<>>

\* Spectators stand apart; of the others only the active stream is not cancelled.
Apart ==
    /\ started \notin viewers /\ gcm \notin viewers /\ active \notin viewers
    /\ \A v \in viewers : key[v] \in {v, NoKey}
    /\ gcm # NoKey => active = gcm /\ out[gcm] # "none"
    /\ \A h \in Clients \ viewers : out[h] # "none" /\ h # active => h \in cancelled
    /\ gcm = 0 => \A h \in Clients \ viewers : h # 0 => out[h] = "none"

\* What an output goroutine holds is the last thing it received.
Items ==
    \A g \in Clients :
        /\ pos[g] # -1 => stream[g] \in {"open", "ended"}
        /\ out[g] \in {"holds", "send"} =>
             /\ pos[g] = item[g].hi /\ item[g].lo >= 1 /\ item[g].lo <= item[g].hi + 1
        /\ out[g] = "send" => key[g] # NoKey
        /\ out[g] = "exit" => pos[g] = produced /\ egg # "live"

\* A cancelled stream brings nothing newer than the snapshot of the one that
\* replaced it.
Current(c) ==
    \/ c = active
    \/ pc \in Attaching /\ Controls(req) /\ c = req.g
Behind(h, c) ==
    /\ pos[h] <= base[c] /\ base[h] <= base[c]
    /\ limit[h] <= base[c] \/ (egg # "live" /\ base[c] = produced)
Bounded == \A h \in cancelled : limit[h] <= produced \/ egg # "live"
Past ==
    \A c, h \in Clients \ viewers :
        /\ Current(c) /\ h # c /\ out[h] # "none"
        /\ pos[c] # -1 \/ stream[c] = "open"
        => Behind(h, c)

\* The goroutine of stream h is about to send with key c.
Uses(h, c) == h \notin viewers /\ out[h] = "send" /\ key[h] = c

\* A later client's key is in use: that client's replay was sent.
Replayed(c) ==
    /\ pos[c] = -1 => stream[c] = "ended"
    /\ pos[c] # -1 /\ base[c] > 0 /\ started = c => seen[c] # <<>>
Given == \A c \in Clients \ {0} :
    gcm = c \/ (\E h \in Clients : Uses(h, c)) => Replayed(c)

\* Who still sends from another stream with key c has nothing c's replay left out.
Lent == \A h, c \in Clients : Uses(h, c) /\ h # c =>
    c # 0 /\ (pos[c] # -1 => item[h].hi <= base[c])

\* Client c has of its own stream all that stream brought.
Got(c, n) == Reaches(seen[c], c, Len(seen[c]), n)
Gets(c) == key[c] = c /\ (c \in viewers \/ started = c)
Caught(c) ==
    /\ out[c] = "recv" /\ Keyed(c) => Got(c, IF pos[c] = -1 THEN 0 ELSE pos[c])
    /\ out[c] = "holds" /\ Keyed(c) => Got(c, item[c].lo - 1)
    /\ out[c] = "send" /\ Keyed(c) => key[c] = c
    /\ out[c] = "send" /\ Gets(c) => Got(c, item[c].lo - 1)
    /\ out[c] = "exit" /\ Keyed(c) => Got(c, produced)
InStep == \A c \in Clients : Caught(c)

\* What a client has got begins with its replay.
Begins ==
    \A c \in Clients : seen[c] # <<>> =>
        /\ pos[c] = -1 => stream[c] = "ended"
        /\ pos[c] # -1 => seen[c][1].lo = 1

Message == [src : Clients, lo : Nat \ {0}, hi : Nat]
Types ==
    /\ TypeOK
    /\ base \in [Clients -> Int] /\ pos \in [Clients -> Int]
    /\ seen \in [Clients -> Seq(Message)]

IInv ==
    /\ Types /\ Asked /\ Fresh /\ Handling /\ Progress /\ Apart /\ Items
    /\ Bounded /\ Past /\ Given /\ Lent /\ InStep /\ Begins /\ OwnStreamExact

-----------------------------------------------------------------------------
(* Sequences *)

\* What Reaches says of the first messages does not depend on those that follow.
LEMMA ReachesPrefix ==
    ASSUME NEW s \in Seq(Message), NEW m \in Message, NEW c, NEW k \in 0..Len(s), NEW n
    PROVE  Reaches(Append(s, m), c, k, n) <=> Reaches(s, c, k, n)
<1>1. \A i \in 1..k : Append(s, m)[i] = s[i]
  OBVIOUS
<1>2. {i \in 1..k : Append(s, m)[i].src = c} = {i \in 1..k : s[i].src = c}
  BY <1>1
<1> QED  BY <1>1, <1>2 DEF Reaches

\* A message of another stream changes nothing.
LEMMA ReachesOther ==
    ASSUME NEW s \in Seq(Message), NEW m \in Message, NEW c, m.src # c,
           NEW n, Reaches(s, c, Len(s), n)
    PROVE  Reaches(Append(s, m), c, Len(Append(s, m)), n)
<1> DEFINE t == Append(s, m)
<1>1. /\ Len(t) = Len(s) + 1 /\ Len(s) \in Nat /\ t[Len(s) + 1] = m
      /\ \A i \in 1..Len(s) : t[i] = s[i]
  OBVIOUS
<1>2. {i \in 1..Len(t) : t[i].src = c} = {i \in 1..Len(s) : s[i].src = c}
  BY <1>1
<1>3. \A i \in {j \in 1..Len(s) : s[j].src = c} : t[i].hi = s[i].hi
  BY <1>1
<1> QED  BY <1>2, <1>3 DEF Reaches

\* The next message of the stream takes it to its end.
LEMMA ReachesOwn ==
    ASSUME NEW s \in Seq(Message), NEW m \in Message
    PROVE  Reaches(Append(s, m), m.src, Len(Append(s, m)), m.hi)
<1> DEFINE t == Append(s, m)  n == Len(s) + 1
<1>1. Len(t) = n /\ Len(s) \in Nat /\ t[n] = m
  OBVIOUS
<1>2. /\ n \in {i \in 1..Len(t) : t[i].src = m.src} /\ t[n].hi = m.hi
      /\ \A j \in {i \in 1..Len(t) : t[i].src = m.src} : j <= n
  BY <1>1
<1> QED  BY <1>2 DEF Reaches

\* Nothing is reached but the end of the last message.
LEMMA ReachesNone == \A c : Reaches(<<>>, c, 0, 0)
  BY DEF Reaches

\* What the variables are, for use without the rest.
LEMMA Sizes ==
    ASSUME IInv
    PROVE  /\ MaxOutput \in Nat /\ MaxClients \in Nat /\ Clients = 0..MaxClients
           /\ produced \in 0..MaxOutput /\ clients \in 0..MaxClients
  BY WingAssumption DEF IInv, Types, TypeOK, Clients

LEMMA Known ==
    ASSUME IInv
    PROVE  /\ 0 \in Clients /\ Clients \subseteq Int /\ Keys = Clients \union {NoKey} /\ NoKey \notin Clients
           /\ req.g \in Clients /\ req.key \in Keys
           /\ active \in Clients /\ gcm \in Keys /\ started \in Keys
           /\ viewers \subseteq Clients /\ cancelled \subseteq Clients
           /\ stream \in [Clients -> {"none", "asked", "late", "open", "ended"}]
           /\ out \in [Clients -> {"none", "recv", "holds", "send", "exit", "gone"}]
           /\ item \in [Clients -> Item] /\ key \in [Clients -> Keys]
<1>1. 0 \in Clients /\ Clients \subseteq Int /\ Keys = Clients \union {NoKey} /\ NoKey \notin Clients
  BY WingAssumption DEF Clients, NoKey, Keys
<1>2. Types
  BY DEF IInv
<1>3. req.g \in Clients /\ req.key \in Keys
  BY <1>2 DEF Types, TypeOK, Req
<1> QED
  BY <1>1, <1>2, <1>3 DEF Types, TypeOK

LEMMA Numbers ==
    ASSUME IInv
    PROVE  /\ produced \in Nat
           /\ limit \in [Clients -> Int] /\ base \in [Clients -> Int] /\ pos \in [Clients -> Int]
           /\ \A g \in Clients :
                /\ limit[g] \in Int /\ 0 <= limit[g] /\ limit[g] <= MaxOutput + 1
                /\ base[g] \in Int /\ 0 <= base[g] /\ base[g] <= produced
                /\ pos[g] \in Int /\ -1 <= pos[g] /\ pos[g] <= produced
                /\ item[g].lo \in Nat /\ item[g].hi \in Nat
<1>1. Types /\ MaxOutput \in Nat /\ produced \in Nat
  BY Sizes DEF IInv
<1>2. \A g \in Clients : item[g].lo \in Nat /\ item[g].hi \in Nat
  BY <1>1 DEF Types, TypeOK, Item
<1>3. limit \in [Clients -> Int]
  BY <1>1 DEF Types, TypeOK
<1>4. \A g \in Clients : base[g] \in 0..produced /\ pos[g] \in -1..produced /\ limit[g] \in 0..MaxOutput+1
  BY <1>1 DEF Types, TypeOK
<1> QED
  BY <1>1, <1>2, <1>3, <1>4 DEF Types

\* A stream with an output goroutine is not the one an attach is about to serve.
LEMMA Serving ==
    ASSUME IInv, NEW g \in Clients, out[g] # "none"
    PROVE  /\ pc \in Attaching => req.g # g
           /\ ~Waiting(g) /\ ~(g > clients)
  BY DEF IInv, Handling, Fresh, Untouched

\* Nor is a client that has yet to be served.
LEMMA ToCome ==
    ASSUME IInv, pc \in Attaching, NEW h \in Clients, h > clients \/ Waiting(h)
    PROVE  req.g # h
  BY Sizes, Known DEF IInv, Handling

\* Who is not served by a step stays where it was.
LEMMA CaughtStays ==
    ASSUME NEW c \in Clients, Caught(c), Keyed(c)' => Keyed(c), Gets(c)' => Gets(c),
           out'[c] = out[c], pos'[c] = pos[c], item'[c] = item[c], key'[c] = key[c],
           seen'[c] = seen[c], produced' = produced
    PROVE  Caught(c)'
  BY DEF Caught, Got

\* Nor if all it gets is output of another stream.
LEMMA CaughtGrows ==
    ASSUME NEW c \in Clients, Caught(c), Keyed(c)' => Keyed(c), Gets(c)' => Gets(c),
           out'[c] = out[c], pos'[c] = pos[c], item'[c] = item[c], key'[c] = key[c],
           produced' = produced, \A n : Got(c, n) => Reaches(seen'[c], c, Len(seen'[c]), n)
    PROVE  Caught(c)'
  BY DEF Caught, Got

\* A request is taken from the input channel.
LEMMA Taken ==
    ASSUME IInv, input # <<>>, input' = Tail(input), clients' = clients, NEW m, m = Head(input)
    PROVE  /\ m \in Req /\ m.kind # "none" /\ input' \in Seq(Req) /\ Len(input') <= InputCap
           /\ Asked'
           /\ \A h : Waiting(h)' => Waiting(h)
           /\ m.kind # "kill" =>
                /\ m.g \in 1..clients /\ m.key \in {m.g, NoKey}
                /\ Waiting(m.g) /\ ~Waiting(m.g)' /\ Untouched(m.g)
<1>1. input \in Seq(Req) /\ Len(input) <= InputCap /\ InputCap \in Nat /\ Asked /\ Fresh
  BY WingAssumption DEF IInv, Types, TypeOK
<1>2. /\ input' \in Seq(Req) /\ Len(input) \in Nat \ {0} /\ Len(input') = Len(input) - 1
      /\ m = input[1] /\ 1 \in DOMAIN input /\ DOMAIN input' = 1..Len(input)-1
      /\ \A i \in DOMAIN input' : i + 1 \in DOMAIN input /\ input'[i] = input[i + 1]
  BY <1>1
<1>3. m \in Req /\ Len(input') <= InputCap
  BY <1>1, <1>2
<1>4. m.kind # "none" /\ (m.kind # "kill" => m.g \in 1..clients /\ m.key \in {m.g, NoKey})
  BY <1>1, <1>2 DEF Asked
<1>5. Asked'
  <2>1. \A i \in DOMAIN input' :
          /\ input'[i].kind # "none"
          /\ input'[i].kind # "kill" =>
                input'[i].g \in 1..clients /\ input'[i].key \in {input'[i].g, NoKey}
    BY <1>1, <1>2 DEF Asked
  <2>2. ASSUME NEW i \in DOMAIN input', NEW j \in DOMAIN input', input'[i].kind # "kill",
               input'[j].kind # "kill", input'[i].g = input'[j].g
        PROVE  i = j
    <3>1. i + 1 = j + 1
      BY <1>1, <1>2, <2>2 DEF Asked
    <3> QED  BY <3>1, <1>2
  <2> QED  BY <2>1, <2>2 DEF Asked
<1>6. \A h : Waiting(h)' => Waiting(h)
  BY <1>2 DEF Waiting
<1>7. ASSUME m.kind # "kill"  PROVE  Waiting(m.g) /\ ~Waiting(m.g)' /\ Untouched(m.g)
  <2>1. Waiting(m.g)
    BY <1>2, <1>7 DEF Waiting
  <2>2. ASSUME NEW i \in DOMAIN input', input'[i].kind # "kill", input'[i].g = m.g
        PROVE  FALSE
    <3>1. i + 1 = 1
      BY <1>1, <1>2, <1>7, <2>2 DEF Asked
    <3> QED  BY <3>1, <1>2
  <2>3. m.g \in Clients
    BY <1>3 DEF Req
  <2> QED  BY <1>1, <2>1, <2>2, <2>3 DEF Waiting, Fresh
<1> QED  BY <1>2, <1>3, <1>4, <1>5, <1>6, <1>7

\* A request is put into it.
LEMMA Added ==
    ASSUME IInv, Len(input) < InputCap, NEW m \in Req, input' = Append(input, m),
           clients' \in Nat, clients <= clients', m.kind # "none",
           m.kind # "kill" => /\ m.g \in 1..clients' /\ m.key \in {m.g, NoKey}
                              /\ m.g \notin 1..clients
    PROVE  /\ input' \in Seq(Req) /\ Len(input') <= InputCap /\ Asked'
           /\ \A h : Waiting(h)' => Waiting(h) \/ (m.kind # "kill" /\ h = m.g)
<1>1. input \in Seq(Req) /\ InputCap \in Nat /\ Asked /\ clients \in Nat
  BY WingAssumption, Sizes DEF IInv, Types, TypeOK
<1> DEFINE n == Len(input) + 1
<1>2. /\ input' \in Seq(Req) /\ Len(input) \in Nat /\ Len(input') = n /\ n <= InputCap
      /\ DOMAIN input = 1..Len(input) /\ DOMAIN input' = DOMAIN input \union {n}
      /\ n \notin DOMAIN input /\ input'[n] = m
      /\ \A i \in DOMAIN input : input'[i] = input[i]
  BY <1>1
<1> HIDE DEF n
<1>3. 1..clients \subseteq 1..clients'
  BY <1>1
<1>4. \A i \in DOMAIN input' :
        /\ input'[i].kind # "none"
        /\ input'[i].kind # "kill" =>
              input'[i].g \in 1..clients' /\ input'[i].key \in {input'[i].g, NoKey}
  BY <1>1, <1>2, <1>3 DEF Asked
<1>5. ASSUME NEW i \in DOMAIN input', NEW j \in DOMAIN input', input'[i].kind # "kill",
             input'[j].kind # "kill", input'[i].g = input'[j].g
      PROVE  i = j
  BY <1>1, <1>2, <1>5 DEF Asked
<1>6. \A h : Waiting(h)' => Waiting(h) \/ (m.kind # "kill" /\ h = m.g)
  BY <1>2 DEF Waiting
<1> QED  BY <1>2, <1>4, <1>5, <1>6 DEF Asked


LEMMA ProducesInv ==
    ASSUME IInv, Produces
    PROVE  IInv'
<1>1. Types'
<2>1. produced' \in 0..MaxOutput /\ produced' >= produced
  BY Sizes DEF Produces
<2>2. \A g \in Clients : base'[g] \in 0..produced' /\ pos'[g] \in -1..produced'
  BY <2>1, Numbers DEF Produces, strVars
<2> QED
  BY <2>1, <2>2 DEF IInv, Types, TypeOK, Produces, eggVars, inVars, attVars, keyVars, strVars, outVars, cliVars, recvFrame
<1>2. Asked'
  BY Sizes DEF IInv, Asked, Produces, eggVars, inVars, attVars, keyVars, strVars, outVars, cliVars, recvFrame
<1>3. Fresh'
  BY Known DEF IInv, Fresh, Untouched, Waiting, Set, Handling, Attaching, Produces, eggVars, inVars, attVars, keyVars, strVars, outVars, cliVars, recvFrame
<1>4. Handling'
  BY Known DEF IInv, Handling, Attaching, Waiting, Controls, Set, NoReq, Produces, eggVars, inVars, attVars, keyVars, strVars, outVars, cliVars, recvFrame
<1>5. Progress'
  BY Known, Numbers DEF IInv, Progress, Set, Produces, eggVars, inVars, attVars, keyVars, strVars, outVars, cliVars, recvFrame
<1>6. Apart'
  BY Known DEF IInv, Apart, Set, Produces, eggVars, inVars, attVars, keyVars, strVars, outVars, cliVars, recvFrame
<1>7. Items'
  BY Known, Numbers DEF IInv, Items, Set, Produces, eggVars, inVars, attVars, keyVars, strVars, outVars, cliVars, recvFrame
<1>8. Bounded'
<2>1. produced' >= produced /\ produced' \in Nat /\ limit' = limit /\ cancelled' = cancelled /\ egg' = egg
  BY Sizes DEF Produces, keyVars
<2> QED
  BY <2>1, Known, Numbers DEF IInv, Bounded
<1>9. Past'
  BY Known, Numbers DEF IInv, Past, Behind, Current, Attaching, Controls, Set, Produces, eggVars, inVars, attVars, keyVars, strVars, outVars, cliVars, recvFrame
<1>10. Given'
  BY Known, Numbers DEF IInv, Given, Replayed, Uses, Set, Produces, eggVars, inVars, attVars, keyVars, strVars, outVars, cliVars, recvFrame
<1>11. Lent'
  BY Known, Numbers DEF IInv, Lent, Uses, Set, Produces, eggVars, inVars, attVars, keyVars, strVars, outVars, cliVars, recvFrame
<1>12. InStep'
  BY Known, Numbers DEF IInv, InStep, Caught, Got, Gets, Keyed, Set, Items, Produces, eggVars, inVars, attVars, keyVars, strVars, outVars, cliVars, recvFrame
<1>13. Begins'
  BY Known, Numbers DEF IInv, Begins, Set, Produces, eggVars, inVars, attVars, keyVars, strVars, outVars, cliVars, recvFrame
<1>14. OwnStreamExact'
  BY DEF IInv, OwnStreamExact, Produces, eggVars, inVars, attVars, keyVars, strVars, outVars, cliVars, recvFrame
<1> QED  BY <1>1, <1>2, <1>3, <1>4, <1>5, <1>6, <1>7, <1>8, <1>9, <1>10, <1>11, <1>12, <1>13, <1>14 DEF IInv

LEMMA ExitsInv ==
    ASSUME IInv, Exits
    PROVE  IInv'
<1>1. Types'
  BY Sizes DEF IInv, Types, TypeOK, Req, Item, Message, Set, Dead, NoItem, NoReq, Exits, eggVars, inVars, attVars, keyVars, strVars, outVars, cliVars, recvFrame
<1>2. Asked'
  BY Sizes DEF IInv, Asked, Exits, eggVars, inVars, attVars, keyVars, strVars, outVars, cliVars, recvFrame
<1>3. Fresh'
  BY Known DEF IInv, Fresh, Untouched, Waiting, Set, Handling, Attaching, Exits, eggVars, inVars, attVars, keyVars, strVars, outVars, cliVars, recvFrame
<1>4. Handling'
  BY Known DEF IInv, Handling, Attaching, Waiting, Controls, Set, NoReq, Exits, eggVars, inVars, attVars, keyVars, strVars, outVars, cliVars, recvFrame
<1>5. Progress'
  BY Known, Numbers DEF IInv, Progress, Set, Exits, eggVars, inVars, attVars, keyVars, strVars, outVars, cliVars, recvFrame
<1>6. Apart'
  BY Known DEF IInv, Apart, Set, Exits, eggVars, inVars, attVars, keyVars, strVars, outVars, cliVars, recvFrame
<1>7. Items'
  BY Known, Numbers DEF IInv, Items, Set, Exits, eggVars, inVars, attVars, keyVars, strVars, outVars, cliVars, recvFrame
<1>8. Bounded'
  BY Known, Numbers DEF IInv, Bounded, Exits, eggVars, inVars, attVars, keyVars, strVars, outVars, cliVars, recvFrame
<1>9. Past'
  BY Known, Numbers DEF IInv, Past, Behind, Current, Attaching, Controls, Set, Exits, eggVars, inVars, attVars, keyVars, strVars, outVars, cliVars, recvFrame
<1>10. Given'
  BY Known, Numbers DEF IInv, Given, Replayed, Uses, Set, Exits, eggVars, inVars, attVars, keyVars, strVars, outVars, cliVars, recvFrame
<1>11. Lent'
  BY Known, Numbers DEF IInv, Lent, Uses, Set, Exits, eggVars, inVars, attVars, keyVars, strVars, outVars, cliVars, recvFrame
<1>12. InStep'
  BY Known, Numbers DEF IInv, InStep, Caught, Got, Gets, Keyed, Set, Exits, eggVars, inVars, attVars, keyVars, strVars, outVars, cliVars, recvFrame
<1>13. Begins'
  BY Known, Numbers DEF IInv, Begins, Set, Exits, eggVars, inVars, attVars, keyVars, strVars, outVars, cliVars, recvFrame
<1>14. OwnStreamExact'
  BY DEF IInv, OwnStreamExact, Exits, eggVars, inVars, attVars, keyVars, strVars, outVars, cliVars, recvFrame
<1> QED  BY <1>1, <1>2, <1>3, <1>4, <1>5, <1>6, <1>7, <1>8, <1>9, <1>10, <1>11, <1>12, <1>13, <1>14 DEF IInv

LEMMA StopsInv ==
    ASSUME IInv, Stops
    PROVE  IInv'
<1>1. Types'
  BY Sizes DEF IInv, Types, TypeOK, Req, Item, Message, Set, Dead, NoItem, NoReq, Stops, eggVars, inVars, attVars, keyVars, strVars, outVars, cliVars, recvFrame
<1>2. Asked'
  BY Sizes DEF IInv, Asked, Stops, eggVars, inVars, attVars, keyVars, strVars, outVars, cliVars, recvFrame
<1>3. Fresh'
  BY Known DEF IInv, Fresh, Untouched, Waiting, Set, Handling, Attaching, Stops, eggVars, inVars, attVars, keyVars, strVars, outVars, cliVars, recvFrame
<1>4. Handling'
  BY Known DEF IInv, Handling, Attaching, Waiting, Controls, Set, NoReq, Stops, eggVars, inVars, attVars, keyVars, strVars, outVars, cliVars, recvFrame
<1>5. Progress'
  BY Known, Numbers DEF IInv, Progress, Set, Stops, eggVars, inVars, attVars, keyVars, strVars, outVars, cliVars, recvFrame
<1>6. Apart'
  BY Known DEF IInv, Apart, Set, Stops, eggVars, inVars, attVars, keyVars, strVars, outVars, cliVars, recvFrame
<1>7. Items'
  BY Known, Numbers DEF IInv, Items, Set, Stops, eggVars, inVars, attVars, keyVars, strVars, outVars, cliVars, recvFrame
<1>8. Bounded'
  BY Known, Numbers DEF IInv, Bounded, Stops, eggVars, inVars, attVars, keyVars, strVars, outVars, cliVars, recvFrame
<1>9. Past'
  BY Known, Numbers DEF IInv, Past, Behind, Current, Attaching, Controls, Set, Stops, eggVars, inVars, attVars, keyVars, strVars, outVars, cliVars, recvFrame
<1>10. Given'
  BY Known, Numbers DEF IInv, Given, Replayed, Uses, Set, Stops, eggVars, inVars, attVars, keyVars, strVars, outVars, cliVars, recvFrame
<1>11. Lent'
  BY Known, Numbers DEF IInv, Lent, Uses, Set, Stops, eggVars, inVars, attVars, keyVars, strVars, outVars, cliVars, recvFrame
<1>12. InStep'
  BY Known, Numbers DEF IInv, InStep, Caught, Got, Gets, Keyed, Set, Stops, eggVars, inVars, attVars, keyVars, strVars, outVars, cliVars, recvFrame
<1>13. Begins'
  BY Known, Numbers DEF IInv, Begins, Set, Stops, eggVars, inVars, attVars, keyVars, strVars, outVars, cliVars, recvFrame
<1>14. OwnStreamExact'
  BY DEF IInv, OwnStreamExact, Stops, eggVars, inVars, attVars, keyVars, strVars, outVars, cliVars, recvFrame
<1> QED  BY <1>1, <1>2, <1>3, <1>4, <1>5, <1>6, <1>7, <1>8, <1>9, <1>10, <1>11, <1>12, <1>13, <1>14 DEF IInv

LEMMA CrashesInv ==
    ASSUME IInv, Crashes
    PROVE  IInv'
<1>1. Types'
  BY Sizes DEF IInv, Types, TypeOK, Req, Item, Message, Set, Dead, NoItem, NoReq, Crashes, Dead, eggVars, inVars, attVars, keyVars, strVars, outVars, cliVars, recvFrame
<1>2. Asked'
  BY Sizes DEF IInv, Asked, Crashes, Dead, eggVars, inVars, attVars, keyVars, strVars, outVars, cliVars, recvFrame
<1>3. Fresh'
  BY Known DEF IInv, Fresh, Untouched, Waiting, Set, Handling, Attaching, Crashes, Dead, eggVars, inVars, attVars, keyVars, strVars, outVars, cliVars, recvFrame
<1>4. Handling'
  BY Known DEF IInv, Handling, Attaching, Waiting, Controls, Set, NoReq, Crashes, Dead, eggVars, inVars, attVars, keyVars, strVars, outVars, cliVars, recvFrame
<1>5. Progress'
  BY Known, Numbers DEF IInv, Progress, Set, Crashes, Dead, eggVars, inVars, attVars, keyVars, strVars, outVars, cliVars, recvFrame
<1>6. Apart'
  BY Known DEF IInv, Apart, Set, Crashes, Dead, eggVars, inVars, attVars, keyVars, strVars, outVars, cliVars, recvFrame
<1>7. Items'
  BY Known, Numbers DEF IInv, Items, Set, Crashes, Dead, eggVars, inVars, attVars, keyVars, strVars, outVars, cliVars, recvFrame
<1>8. Bounded'
  BY Known, Numbers DEF IInv, Bounded, Crashes, Dead, eggVars, inVars, attVars, keyVars, strVars, outVars, cliVars, recvFrame
<1>9. Past'
  BY Known, Numbers DEF IInv, Past, Behind, Current, Attaching, Controls, Set, Crashes, Dead, eggVars, inVars, attVars, keyVars, strVars, outVars, cliVars, recvFrame
<1>10. Given'
  BY Known, Numbers DEF IInv, Given, Replayed, Uses, Set, Crashes, Dead, eggVars, inVars, attVars, keyVars, strVars, outVars, cliVars, recvFrame
<1>11. Lent'
  BY Known, Numbers DEF IInv, Lent, Uses, Set, Crashes, Dead, eggVars, inVars, attVars, keyVars, strVars, outVars, cliVars, recvFrame
<1>12. InStep'
  BY Known, Numbers DEF IInv, InStep, Caught, Got, Gets, Keyed, Set, Crashes, Dead, eggVars, inVars, attVars, keyVars, strVars, outVars, cliVars, recvFrame
<1>13. Begins'
  BY Known, Numbers DEF IInv, Begins, Set, Crashes, Dead, eggVars, inVars, attVars, keyVars, strVars, outVars, cliVars, recvFrame
<1>14. OwnStreamExact'
  BY DEF IInv, OwnStreamExact, Crashes, Dead, eggVars, inVars, attVars, keyVars, strVars, outVars, cliVars, recvFrame
<1> QED  BY <1>1, <1>2, <1>3, <1>4, <1>5, <1>6, <1>7, <1>8, <1>9, <1>10, <1>11, <1>12, <1>13, <1>14 DEF IInv

LEMMA SnapshotsInv ==
    ASSUME IInv, NEW g \in Clients, Snapshots(g)
    PROVE  IInv'
<1>1. Types'
<2>1. base' \in [Clients -> Int] /\ \A c \in Clients : base'[c] \in 0..produced
  BY Numbers DEF Snapshots, Set
<2> QED
  BY <2>1 DEF IInv, Types, TypeOK, Snapshots, Set, eggVars, inVars, attVars, keyVars, strVars, outVars, cliVars, recvFrame
<1>2. Asked'
  BY Sizes DEF IInv, Asked, Snapshots, Dead, eggVars, inVars, attVars, keyVars, strVars, outVars, cliVars, recvFrame
<1>3. Fresh'
  BY Known DEF IInv, Fresh, Untouched, Waiting, Set, Handling, Attaching, Snapshots, Dead, eggVars, inVars, attVars, keyVars, strVars, outVars, cliVars, recvFrame
<1>4. Handling'
  BY Known DEF IInv, Handling, Attaching, Waiting, Controls, Set, NoReq, Snapshots, Dead, eggVars, inVars, attVars, keyVars, strVars, outVars, cliVars, recvFrame
<1>5. Progress'
  BY Known, Numbers DEF IInv, Progress, Set, Items, Handling, Attaching, Snapshots, Dead, eggVars, inVars, attVars, keyVars, strVars, outVars, cliVars, recvFrame
<1>6. Apart'
  BY Known DEF IInv, Apart, Set, Snapshots, Dead, eggVars, inVars, attVars, keyVars, strVars, outVars, cliVars, recvFrame
<1>7. Items'
  BY Known, Numbers DEF IInv, Items, Set, Snapshots, Dead, eggVars, inVars, attVars, keyVars, strVars, outVars, cliVars, recvFrame
<1>8. Bounded'
  BY Known, Numbers DEF IInv, Bounded, Snapshots, Dead, eggVars, inVars, attVars, keyVars, strVars, outVars, cliVars, recvFrame
<1>9. Past'
<2> SUFFICES ASSUME NEW c \in Clients \ viewers, NEW h \in Clients \ viewers, Current(c), h # c,
                    out[h] # "none", pos[c] # -1 \/ stream'[c] = "open"
             PROVE  Behind(h, c)'
  BY DEF Past, Current, Controls, Snapshots, eggVars, inVars, attVars, keyVars, strVars, outVars, cliVars, recvFrame
<2>1. h \in cancelled /\ h # g
  BY DEF IInv, Apart, Handling, Current, Snapshots
<2>2. /\ pos' = pos /\ limit' = limit /\ egg' = egg /\ produced' = produced /\ base'[h] = base[h]
      /\ base'[c] = IF c = g THEN produced ELSE base[c]
      /\ c # g => stream'[c] = stream[c]
  BY <2>1, Known, Numbers DEF Snapshots, Set, eggVars, keyVars
<2>3. CASE c = g
  BY <2>1, <2>2, <2>3, Numbers DEF IInv, Bounded, Behind
<2>4. CASE c # g
  <3>1. Behind(h, c)
    BY <2>2, <2>4 DEF IInv, Past
  <3> QED  BY <3>1, <2>2, <2>4 DEF Behind
<2> QED  BY <2>3, <2>4
<1>10. Given'
  BY Known, Numbers DEF IInv, Given, Replayed, Uses, Set, Items, Snapshots, Dead, eggVars, inVars, attVars, keyVars, strVars, outVars, cliVars, recvFrame
<1>11. Lent'
  BY Known, Numbers DEF IInv, Lent, Uses, Set, Items, Snapshots, Dead, eggVars, inVars, attVars, keyVars, strVars, outVars, cliVars, recvFrame
<1>12. InStep'
  BY Known, Numbers DEF IInv, InStep, Caught, Got, Gets, Keyed, Set, Snapshots, Dead, eggVars, inVars, attVars, keyVars, strVars, outVars, cliVars, recvFrame
<1>13. Begins'
  BY Known, Numbers DEF IInv, Begins, Set, Snapshots, Dead, eggVars, inVars, attVars, keyVars, strVars, outVars, cliVars, recvFrame
<1>14. OwnStreamExact'
  BY DEF IInv, OwnStreamExact, Snapshots, Dead, eggVars, inVars, attVars, keyVars, strVars, outVars, cliVars, recvFrame
<1> QED  BY <1>1, <1>2, <1>3, <1>4, <1>5, <1>6, <1>7, <1>8, <1>9, <1>10, <1>11, <1>12, <1>13, <1>14 DEF IInv

LEMMA RefusesInv ==
    ASSUME IInv, NEW g \in Clients, Refuses(g)
    PROVE  IInv'
<1>1. Types'
  BY Sizes DEF IInv, Types, TypeOK, Req, Item, Message, Set, Dead, NoItem, NoReq, Refuses, eggVars, inVars, attVars, keyVars, strVars, outVars, cliVars, recvFrame
<1>2. Asked'
  BY Sizes DEF IInv, Asked, Refuses, eggVars, inVars, attVars, keyVars, strVars, outVars, cliVars, recvFrame
<1>3. Fresh'
  BY Known DEF IInv, Fresh, Untouched, Waiting, Set, Handling, Attaching, Refuses, eggVars, inVars, attVars, keyVars, strVars, outVars, cliVars, recvFrame
<1>4. Handling'
  BY Known DEF IInv, Handling, Attaching, Waiting, Controls, Set, NoReq, Refuses, eggVars, inVars, attVars, keyVars, strVars, outVars, cliVars, recvFrame
<1>5. Progress'
  BY Known, Numbers DEF IInv, Progress, Set, Refuses, eggVars, inVars, attVars, keyVars, strVars, outVars, cliVars, recvFrame
<1>6. Apart'
  BY Known DEF IInv, Apart, Set, Refuses, eggVars, inVars, attVars, keyVars, strVars, outVars, cliVars, recvFrame
<1>7. Items'
  BY Known, Numbers DEF IInv, Items, Set, Refuses, eggVars, inVars, attVars, keyVars, strVars, outVars, cliVars, recvFrame
<1>8. Bounded'
  BY Known, Numbers DEF IInv, Bounded, Refuses, eggVars, inVars, attVars, keyVars, strVars, outVars, cliVars, recvFrame
<1>9. Past'
<2>1. \A c, h \in Clients : Behind(h, c) => Behind(h, c)'
  BY Numbers DEF Behind, Refuses, eggVars, inVars, attVars, keyVars, strVars, outVars, cliVars, recvFrame
<2>2. \A c \in Clients : Current(c)' => Current(c)
  BY DEF Current, Controls, Refuses, eggVars, inVars, attVars, keyVars, strVars, outVars, cliVars, recvFrame
<2>3. \A h \in Clients : out'[h] # "none" => out[h] # "none"
  BY Known DEF Refuses, Set, eggVars, inVars, attVars, keyVars, strVars, outVars, cliVars, recvFrame
<2>4. \A c \in Clients : pos'[c] # -1 \/ stream'[c] = "open" => pos[c] # -1 \/ stream[c] = "open"
  BY Known DEF Refuses, Set, eggVars, inVars, attVars, keyVars, strVars, outVars, cliVars, recvFrame
<2>5. viewers' = viewers
  BY DEF Refuses, eggVars, inVars, attVars, keyVars, strVars, outVars, cliVars, recvFrame
<2> QED
  BY <2>1, <2>2, <2>3, <2>4, <2>5 DEF IInv, Past
<1>10. Given'
  BY Known, Numbers DEF IInv, Given, Replayed, Uses, Set, Refuses, eggVars, inVars, attVars, keyVars, strVars, outVars, cliVars, recvFrame
<1>11. Lent'
  BY Known, Numbers DEF IInv, Lent, Uses, Set, Refuses, eggVars, inVars, attVars, keyVars, strVars, outVars, cliVars, recvFrame
<1>12. InStep'
  BY Known, Numbers DEF IInv, InStep, Caught, Got, Gets, Keyed, Set, Refuses, eggVars, inVars, attVars, keyVars, strVars, outVars, cliVars, recvFrame
<1>13. Begins'
  BY Known, Numbers DEF IInv, Begins, Set, Refuses, eggVars, inVars, attVars, keyVars, strVars, outVars, cliVars, recvFrame
<1>14. OwnStreamExact'
  BY DEF IInv, OwnStreamExact, Refuses, eggVars, inVars, attVars, keyVars, strVars, outVars, cliVars, recvFrame
<1> QED  BY <1>1, <1>2, <1>3, <1>4, <1>5, <1>6, <1>7, <1>8, <1>9, <1>10, <1>11, <1>12, <1>13, <1>14 DEF IInv

LEMMA SendKillInv ==
    ASSUME IInv, SendKill
    PROVE  IInv'
<1>1. Types'
<2>1. [kind |-> "kill", g |-> 0, key |-> NoKey] \in Req
  BY Known DEF Req
<2>2. input' \in Seq(Req) /\ Len(input') <= InputCap
  BY <2>1, WingAssumption DEF IInv, Types, TypeOK, SendKill
<2> QED
  BY <2>2 DEF IInv, Types, TypeOK, SendKill, eggVars, inVars, attVars, keyVars, strVars, outVars, cliVars, recvFrame
<1>2. Asked'
  BY Sizes DEF IInv, Asked, SendKill, eggVars, inVars, attVars, keyVars, strVars, outVars, cliVars, recvFrame
<1>3. Fresh'
  BY Known DEF IInv, Fresh, Untouched, Waiting, Set, Handling, Attaching, SendKill, eggVars, inVars, attVars, keyVars, strVars, outVars, cliVars, recvFrame
<1>4. Handling'
  BY Known DEF IInv, Handling, Attaching, Waiting, Controls, Set, NoReq, SendKill, eggVars, inVars, attVars, keyVars, strVars, outVars, cliVars, recvFrame
<1>5. Progress'
  BY Known, Numbers DEF IInv, Progress, Set, SendKill, eggVars, inVars, attVars, keyVars, strVars, outVars, cliVars, recvFrame
<1>6. Apart'
  BY Known DEF IInv, Apart, Set, SendKill, eggVars, inVars, attVars, keyVars, strVars, outVars, cliVars, recvFrame
<1>7. Items'
  BY Known, Numbers DEF IInv, Items, Set, SendKill, eggVars, inVars, attVars, keyVars, strVars, outVars, cliVars, recvFrame
<1>8. Bounded'
  BY Known, Numbers DEF IInv, Bounded, SendKill, eggVars, inVars, attVars, keyVars, strVars, outVars, cliVars, recvFrame
<1>9. Past'
  BY Known, Numbers DEF IInv, Past, Behind, Current, Attaching, Controls, Set, SendKill, eggVars, inVars, attVars, keyVars, strVars, outVars, cliVars, recvFrame
<1>10. Given'
  BY Known, Numbers DEF IInv, Given, Replayed, Uses, Set, SendKill, eggVars, inVars, attVars, keyVars, strVars, outVars, cliVars, recvFrame
<1>11. Lent'
  BY Known, Numbers DEF IInv, Lent, Uses, Set, SendKill, eggVars, inVars, attVars, keyVars, strVars, outVars, cliVars, recvFrame
<1>12. InStep'
  BY Known, Numbers DEF IInv, InStep, Caught, Got, Gets, Keyed, Set, SendKill, eggVars, inVars, attVars, keyVars, strVars, outVars, cliVars, recvFrame
<1>13. Begins'
  BY Known, Numbers DEF IInv, Begins, Set, SendKill, eggVars, inVars, attVars, keyVars, strVars, outVars, cliVars, recvFrame
<1>14. OwnStreamExact'
  BY DEF IInv, OwnStreamExact, SendKill, eggVars, inVars, attVars, keyVars, strVars, outVars, cliVars, recvFrame
<1> QED  BY <1>1, <1>2, <1>3, <1>4, <1>5, <1>6, <1>7, <1>8, <1>9, <1>10, <1>11, <1>12, <1>13, <1>14 DEF IInv

LEMMA ComesInv ==
    ASSUME IInv, NEW kind \in {"attach", "spectate"}, Comes(kind)
    PROVE  IInv'
<1>a. clients' = clients + 1 /\ clients' \in 1..MaxClients /\ clients \in Nat /\ clients' \in Clients
  BY Sizes DEF Comes
<1>b. /\ input' \in Seq(Req) /\ Len(input') <= InputCap /\ Asked'
      /\ \A h : Waiting(h)' => Waiting(h) \/ h = clients'
  <2>1. PICK k \in {clients', NoKey} :
          input' = IF Len(input) < InputCap
                   THEN Append(input, [kind |-> kind, g |-> clients', key |-> k]) ELSE input
    BY DEF Comes
  <2>2. CASE Len(input) < InputCap
    <3>1. PICK m \in Req : m = [kind |-> kind, g |-> clients', key |-> k]
      BY <1>a, <2>1, Known DEF Req
    <3>2. m.kind = kind /\ m.g = clients' /\ m.key = k /\ kind # "kill" /\ kind # "none"
      BY <3>1
    <3>3. input' = Append(input, m) /\ clients' \in Nat /\ clients <= clients'
          /\ m.g \in 1..clients' /\ m.key \in {m.g, NoKey} /\ m.g \notin 1..clients
      BY <1>a, <2>1, <2>2, <3>1, <3>2
    <3> QED  BY <2>2, <3>2, <3>3, Added
  <2>3. CASE ~(Len(input) < InputCap)
    <3>1. input' = input /\ 1..clients \subseteq 1..clients'
      BY <1>a, <2>1, <2>3
    <3> QED  BY <3>1 DEF IInv, Types, TypeOK, Asked, Waiting
  <2> QED  BY <2>2, <2>3
<1>1. Types'
  BY <1>a, <1>b DEF IInv, Types, TypeOK, Comes, eggVars, inVars, attVars, keyVars, strVars, outVars, cliVars, recvFrame
<1>2. Asked'
  BY <1>b
<1>3. Fresh'
<2>1. ASSUME NEW h \in Clients, h > clients' \/ Waiting(h)'  PROVE  Untouched(h)'
  <3>1. h > clients \/ Waiting(h)
    BY <1>a, <1>b, <2>1, Known
  <3>2. Untouched(h)
    BY <3>1 DEF IInv, Fresh
  <3> QED  BY <3>2 DEF Untouched, Comes, eggVars, inVars, attVars, keyVars, strVars, outVars, cliVars, recvFrame
<2> QED  BY <2>1 DEF Fresh
<1>4. Handling'
<2>1. pc \in Attaching => ~Waiting(req.g)' /\ req.g \in 1..clients'
  <3>1. ASSUME pc \in Attaching  PROVE  req.g \in 1..clients /\ ~Waiting(req.g)
    BY <3>1 DEF IInv, Handling
  <3>2. ASSUME pc \in Attaching  PROVE  req.g \in 1..clients' /\ req.g # clients'
    BY <1>a, <3>1, <3>2
  <3>3. req' = req
    BY DEF Comes, attVars
  <3> QED  BY <1>b, <3>1, <3>2, <3>3
<2> QED  BY <2>1 DEF IInv, Handling, Controls, Comes, eggVars, inVars, attVars, keyVars, strVars, outVars, cliVars, recvFrame
<1>5. Progress'
  BY Known, Numbers DEF IInv, Progress, Set, Comes, eggVars, inVars, attVars, keyVars, strVars, outVars, cliVars, recvFrame
<1>6. Apart'
  BY Known DEF IInv, Apart, Set, Comes, eggVars, inVars, attVars, keyVars, strVars, outVars, cliVars, recvFrame
<1>7. Items'
  BY Known, Numbers DEF IInv, Items, Set, Comes, eggVars, inVars, attVars, keyVars, strVars, outVars, cliVars, recvFrame
<1>8. Bounded'
  BY Known, Numbers DEF IInv, Bounded, Comes, eggVars, inVars, attVars, keyVars, strVars, outVars, cliVars, recvFrame
<1>9. Past'
  BY Known, Numbers DEF IInv, Past, Behind, Current, Attaching, Controls, Set, Comes, eggVars, inVars, attVars, keyVars, strVars, outVars, cliVars, recvFrame
<1>10. Given'
  BY Known, Numbers DEF IInv, Given, Replayed, Uses, Set, Comes, eggVars, inVars, attVars, keyVars, strVars, outVars, cliVars, recvFrame
<1>11. Lent'
  BY Known, Numbers DEF IInv, Lent, Uses, Set, Comes, eggVars, inVars, attVars, keyVars, strVars, outVars, cliVars, recvFrame
<1>12. InStep'
  BY Known, Numbers DEF IInv, InStep, Caught, Got, Gets, Keyed, Set, Comes, eggVars, inVars, attVars, keyVars, strVars, outVars, cliVars, recvFrame
<1>13. Begins'
  BY Known, Numbers DEF IInv, Begins, Set, Comes, eggVars, inVars, attVars, keyVars, strVars, outVars, cliVars, recvFrame
<1>14. OwnStreamExact'
  BY DEF IInv, OwnStreamExact, Comes, eggVars, inVars, attVars, keyVars, strVars, outVars, cliVars, recvFrame
<1> QED  BY <1>1, <1>2, <1>3, <1>4, <1>5, <1>6, <1>7, <1>8, <1>9, <1>10, <1>11, <1>12, <1>13, <1>14 DEF IInv

LEMMA TakeAttachInv ==
    ASSUME IInv, TakeAttach
    PROVE  IInv'
<1>z. PICK m : m = Head(input)
  OBVIOUS
<1>a. m = Head(input) /\ input # <<>> /\ input' = Tail(input) /\ clients' = clients
  BY <1>z DEF TakeAttach
<1>b. /\ m \in Req /\ m.kind # "none" /\ input' \in Seq(Req) /\ Len(input') <= InputCap
      /\ Asked' /\ \A h : Waiting(h)' => Waiting(h)
      /\ m.kind # "kill" =>
            /\ m.g \in 1..clients /\ m.key \in {m.g, NoKey}
            /\ Waiting(m.g) /\ ~Waiting(m.g)' /\ Untouched(m.g)
  BY <1>a, Taken
<1>c. m.g \in Clients /\ m.kind \in {"attach", "spectate", "kill"}
  BY <1>b DEF Req
<1>d. m.kind \in {"attach", "spectate"} /\ m.kind # "kill" /\ req' = m /\ pc = "idle" /\ pc' = "announce"
  BY <1>a, <1>c DEF TakeAttach, Controls
<1>1. Types'
<2>1. limit' \in [Clients -> 0..MaxOutput+1]
  <3>1. produced \in 0..MaxOutput+1 /\ produced + 1 \in 0..MaxOutput+1
    BY Sizes
  <3>2. limit \in [Clients -> 0..MaxOutput+1]
    BY DEF IInv, Types, TypeOK
  <3> QED  BY <3>1, <3>2, Known DEF TakeAttach, Buffered, Set
<2>2. cancelled' \subseteq Clients
  BY Known DEF TakeAttach
<2> QED
  BY <1>b, <1>d, <2>1, <2>2, Known DEF IInv, Types, TypeOK, TakeAttach, eggVars, inVars, attVars, keyVars, strVars, outVars, cliVars, recvFrame
<1>2. Asked'
  BY <1>b
<1>3. Fresh'
<2>1. ASSUME NEW h \in Clients, h > clients \/ Waiting(h)'  PROVE  Untouched(h)'
  <3>1. Untouched(h)
    BY <1>b, <2>1 DEF IInv, Fresh
  <3> QED  BY <3>1, Known DEF Untouched, TakeAttach, eggVars, inVars, attVars, keyVars, strVars, outVars, cliVars, recvFrame
<2> QED  BY <2>1 DEF Fresh, TakeAttach
<1>4. Handling'
  BY <1>b, <1>c, <1>d, Known DEF IInv, Handling, Attaching, Controls, Untouched, TakeAttach, eggVars, inVars, attVars, keyVars, strVars, outVars, cliVars, recvFrame
<1>5. Progress'
  BY <1>b, <1>d, Known DEF Progress, Untouched, TakeAttach, eggVars, inVars, attVars, keyVars, strVars, outVars, cliVars, recvFrame
<1>6. Apart'
  BY Known DEF IInv, Apart, Set, TakeAttach, Buffered, eggVars, inVars, attVars, keyVars, strVars, outVars, cliVars, recvFrame
<1>7. Items'
  BY Known, Numbers DEF IInv, Items, Set, TakeAttach, Buffered, eggVars, inVars, attVars, keyVars, strVars, outVars, cliVars, recvFrame
<1>8. Bounded'
<2>1. ASSUME NEW h \in cancelled', egg = "live"  PROVE  limit'[h] <= produced
  BY <2>1, Known, Numbers DEF IInv, Bounded, TakeAttach, Buffered, Set
<2> QED  BY <2>1 DEF Bounded, TakeAttach, eggVars
<1>9. Past'
<2> SUFFICES ASSUME NEW c \in Clients \ viewers, NEW h \in Clients \ viewers, Current(c)', h # c,
                    out[h] # "none", pos[c] # -1 \/ stream[c] = "open"
             PROVE  Behind(h, c)'
  BY DEF Past, TakeAttach, eggVars, inVars, attVars, keyVars, strVars, outVars, cliVars, recvFrame
<2>1. c = active
  <3>1. c = active \/ c = m.g
    BY <1>d DEF Current, TakeAttach
  <3>2. stream[m.g] = "none" /\ pos[m.g] = -1
    BY <1>b, <1>d DEF Untouched
  <3> QED  BY <3>1, <3>2
<2>2. Behind(h, c)
  BY <2>1 DEF IInv, Past, Current
<2>3. limit'[h] = limit[h]
  BY <2>1, Known, Numbers DEF TakeAttach, Buffered, Set
<2> QED  BY <2>2, <2>3 DEF Behind, TakeAttach, eggVars, inVars, attVars, keyVars, strVars, outVars, cliVars, recvFrame
<1>10. Given'
  BY Known, Numbers DEF IInv, Given, Replayed, Uses, Set, TakeAttach, Buffered, eggVars, inVars, attVars, keyVars, strVars, outVars, cliVars, recvFrame
<1>11. Lent'
  BY Known, Numbers DEF IInv, Lent, Uses, Set, TakeAttach, Buffered, eggVars, inVars, attVars, keyVars, strVars, outVars, cliVars, recvFrame
<1>12. InStep'
<2>1. ASSUME NEW c \in Clients  PROVE  Caught(c)'
  <3>1. Caught(c) /\ (Keyed(c)' => Keyed(c)) /\ (Gets(c)' => Gets(c))
    BY Known DEF IInv, InStep, Keyed, Gets, TakeAttach, eggVars, inVars, attVars, keyVars, strVars, outVars, cliVars, recvFrame
  <3> QED  BY <3>1, CaughtStays DEF TakeAttach, eggVars, inVars, attVars, keyVars, strVars, outVars, cliVars, recvFrame
<2> QED  BY <2>1 DEF InStep
<1>13. Begins'
  BY Known, Numbers DEF IInv, Begins, Set, TakeAttach, Buffered, eggVars, inVars, attVars, keyVars, strVars, outVars, cliVars, recvFrame
<1>14. OwnStreamExact'
  BY DEF IInv, OwnStreamExact, TakeAttach, Buffered, eggVars, inVars, attVars, keyVars, strVars, outVars, cliVars, recvFrame
<1> QED  BY <1>1, <1>2, <1>3, <1>4, <1>5, <1>6, <1>7, <1>8, <1>9, <1>10, <1>11, <1>12, <1>13, <1>14 DEF IInv

LEMMA TakeSpectateInv ==
    ASSUME IInv, TakeSpectate
    PROVE  IInv'
<1>z. PICK m : m = Head(input)
  OBVIOUS
<1>a. m = Head(input) /\ input # <<>> /\ input' = Tail(input) /\ clients' = clients
  BY <1>z DEF TakeSpectate
<1>b. /\ m \in Req /\ m.kind # "none" /\ input' \in Seq(Req) /\ Len(input') <= InputCap
      /\ Asked' /\ \A h : Waiting(h)' => Waiting(h)
      /\ m.kind # "kill" =>
            /\ m.g \in 1..clients /\ m.key \in {m.g, NoKey}
            /\ Waiting(m.g) /\ ~Waiting(m.g)' /\ Untouched(m.g)
  BY <1>a, Taken
<1>c. m.g \in Clients /\ m.kind \in {"attach", "spectate", "kill"}
  BY <1>b DEF Req
<1>d. m.kind = "spectate" /\ m.kind # "kill" /\ pc = "idle" /\ ~Controls(m)
  BY <1>a DEF TakeSpectate, Controls
<1>e. \/ pc' = "announce" /\ req' = m /\ viewers' = viewers \union {m.g}
      \/ pc' = pc /\ req' = req /\ viewers' = viewers
  BY <1>a DEF TakeSpectate
<1>1. Types'
  BY <1>b, <1>c, <1>e, Known DEF IInv, Types, TypeOK, TakeSpectate, eggVars, inVars, attVars, keyVars, strVars, outVars, cliVars, recvFrame
<1>2. Asked'
  BY <1>b
<1>3. Fresh'
<2>1. ASSUME NEW h \in Clients, h > clients \/ Waiting(h)'  PROVE  Untouched(h)'
  <3>1. Untouched(h)
    BY <1>b, <2>1 DEF IInv, Fresh
  <3>2. h # m.g
    BY <1>b, <1>c, <1>d, <2>1, Sizes, Known
  <3> QED  BY <1>e, <3>1, <3>2, Known DEF Untouched, TakeSpectate, eggVars, inVars, attVars, keyVars, strVars, outVars, cliVars, recvFrame
<2> QED  BY <2>1 DEF Fresh, TakeSpectate
<1>4. Handling'
<2>1. CASE pc' = "announce" /\ req' = m /\ viewers' = viewers \union {m.g}
  BY <2>1, <1>b, <1>c, <1>d, Known DEF Handling, Attaching, Controls, Untouched, TakeSpectate, eggVars, inVars, attVars, keyVars, strVars, outVars, cliVars, recvFrame
<2>2. CASE pc' = pc /\ req' = req
  BY <2>2, <1>d DEF IInv, Handling, Attaching
<2> QED  BY <1>e, <2>1, <2>2
<1>5. Progress'
<2>1. CASE pc' = "announce" /\ req' = m
  BY <2>1, <1>b, <1>d, Known DEF Progress, Untouched, TakeSpectate, eggVars, inVars, attVars, keyVars, strVars, outVars, cliVars, recvFrame
<2>2. CASE pc' = pc
  BY <2>2, <1>d DEF Progress
<2> QED  BY <1>e, <2>1, <2>2
<1>6. Apart'
<2>1. Untouched(m.g)
  BY <1>b, <1>d
<2>2. key[m.g] = NoKey
  BY <2>1 DEF Untouched
<2> QED  BY <1>c, <1>e, <2>1, <2>2, Known DEF IInv, Apart, Untouched, TakeSpectate, eggVars, inVars, attVars, keyVars, strVars, outVars, cliVars, recvFrame
<1>7. Items'
  BY Known, Numbers DEF IInv, Items, Set, TakeSpectate, eggVars, inVars, attVars, keyVars, strVars, outVars, cliVars, recvFrame
<1>8. Bounded'
  BY Known, Numbers DEF IInv, Bounded, TakeSpectate, eggVars, inVars, attVars, keyVars, strVars, outVars, cliVars, recvFrame
<1>9. Past'
<2> SUFFICES ASSUME NEW c \in Clients \ viewers, NEW h \in Clients \ viewers, Current(c)', h # c,
                    out[h] # "none", pos[c] # -1 \/ stream[c] = "open"
             PROVE  Behind(h, c)'
  BY <1>e DEF Past, TakeSpectate, eggVars, inVars, attVars, keyVars, strVars, outVars, cliVars, recvFrame
<2>1. c = active
  BY <1>d, <1>e DEF Current, Controls, Attaching, TakeSpectate, eggVars, inVars, attVars, keyVars, strVars, outVars, cliVars, recvFrame
<2>2. Behind(h, c)
  BY <2>1 DEF IInv, Past, Current
<2> QED  BY <2>2 DEF Behind, TakeSpectate, eggVars, inVars, attVars, keyVars, strVars, outVars, cliVars, recvFrame
<1>10. Given'
  BY Known, Numbers DEF IInv, Given, Replayed, Uses, Set, TakeSpectate, eggVars, inVars, attVars, keyVars, strVars, outVars, cliVars, recvFrame
<1>11. Lent'
  BY Known, Numbers DEF IInv, Lent, Uses, Set, TakeSpectate, eggVars, inVars, attVars, keyVars, strVars, outVars, cliVars, recvFrame
<1>12. InStep'
<2>1. ASSUME NEW c \in Clients  PROVE  Caught(c)'
  <3>0. Caught(c)
    BY DEF IInv, InStep
  <3>1. CASE c \in viewers \/ c \notin viewers'
    <4>1. c \in viewers' <=> c \in viewers
      BY <1>e, <3>1
    <4> QED  BY <4>1, <3>0, CaughtStays DEF Keyed, Gets, TakeSpectate, eggVars, inVars, attVars, keyVars, strVars, outVars, cliVars, recvFrame
  <3>2. CASE c = m.g
    BY <1>b, <1>d, <3>2 DEF Caught, Untouched, TakeSpectate, eggVars, inVars, attVars, keyVars, strVars, outVars, cliVars, recvFrame
  <3> QED  BY <1>e, <3>1, <3>2
<2> QED  BY <2>1 DEF InStep
<1>13. Begins'
  BY Known, Numbers DEF IInv, Begins, Set, TakeSpectate, eggVars, inVars, attVars, keyVars, strVars, outVars, cliVars, recvFrame
<1>14. OwnStreamExact'
  BY DEF IInv, OwnStreamExact, TakeSpectate, eggVars, inVars, attVars, keyVars, strVars, outVars, cliVars, recvFrame
<1> QED  BY <1>1, <1>2, <1>3, <1>4, <1>5, <1>6, <1>7, <1>8, <1>9, <1>10, <1>11, <1>12, <1>13, <1>14 DEF IInv

LEMMA TakeKillInv ==
    ASSUME IInv, TakeKill
    PROVE  IInv'
<1>z. PICK m : m = Head(input)
  OBVIOUS
<1>a. m = Head(input) /\ input # <<>> /\ input' = Tail(input) /\ clients' = clients
  BY <1>z DEF TakeKill
<1>b. /\ m \in Req /\ m.kind # "none" /\ input' \in Seq(Req) /\ Len(input') <= InputCap
      /\ Asked' /\ \A h : Waiting(h)' => Waiting(h)
      /\ m.kind # "kill" =>
            /\ m.g \in 1..clients /\ m.key \in {m.g, NoKey}
            /\ Waiting(m.g) /\ ~Waiting(m.g)' /\ Untouched(m.g)
  BY <1>a, Taken
<1>c. m.g \in Clients /\ m.kind \in {"attach", "spectate", "kill"}
  BY <1>b DEF Req
<1>1. Types'
  BY <1>b DEF IInv, Types, TypeOK, TakeKill, eggVars, inVars, attVars, keyVars, strVars, outVars, cliVars, recvFrame
<1>2. Asked'
  BY <1>b
<1>3. Fresh'
  BY <1>b DEF IInv, Fresh, Untouched, TakeKill, eggVars, inVars, attVars, keyVars, strVars, outVars, cliVars, recvFrame
<1>4. Handling'
  BY Known DEF IInv, Handling, Attaching, Waiting, Controls, Set, NoReq, TakeKill, eggVars, inVars, attVars, keyVars, strVars, outVars, cliVars, recvFrame
<1>5. Progress'
  BY Known, Numbers DEF IInv, Progress, Set, TakeKill, eggVars, inVars, attVars, keyVars, strVars, outVars, cliVars, recvFrame
<1>6. Apart'
  BY Known DEF IInv, Apart, Set, TakeKill, eggVars, inVars, attVars, keyVars, strVars, outVars, cliVars, recvFrame
<1>7. Items'
  BY Known, Numbers DEF IInv, Items, Set, TakeKill, eggVars, inVars, attVars, keyVars, strVars, outVars, cliVars, recvFrame
<1>8. Bounded'
  BY Known, Numbers DEF IInv, Bounded, TakeKill, eggVars, inVars, attVars, keyVars, strVars, outVars, cliVars, recvFrame
<1>9. Past'
  BY Known, Numbers DEF IInv, Past, Behind, Current, Attaching, Controls, Set, TakeKill, eggVars, inVars, attVars, keyVars, strVars, outVars, cliVars, recvFrame
<1>10. Given'
  BY Known, Numbers DEF IInv, Given, Replayed, Uses, Set, TakeKill, eggVars, inVars, attVars, keyVars, strVars, outVars, cliVars, recvFrame
<1>11. Lent'
  BY Known, Numbers DEF IInv, Lent, Uses, Set, TakeKill, eggVars, inVars, attVars, keyVars, strVars, outVars, cliVars, recvFrame
<1>12. InStep'
  BY Known, Numbers DEF IInv, InStep, Caught, Got, Gets, Keyed, Set, TakeKill, eggVars, inVars, attVars, keyVars, strVars, outVars, cliVars, recvFrame
<1>13. Begins'
  BY Known, Numbers DEF IInv, Begins, Set, TakeKill, eggVars, inVars, attVars, keyVars, strVars, outVars, cliVars, recvFrame
<1>14. OwnStreamExact'
  BY DEF IInv, OwnStreamExact, TakeKill, eggVars, inVars, attVars, keyVars, strVars, outVars, cliVars, recvFrame
<1> QED  BY <1>1, <1>2, <1>3, <1>4, <1>5, <1>6, <1>7, <1>8, <1>9, <1>10, <1>11, <1>12, <1>13, <1>14 DEF IInv

LEMMA AnnounceInv ==
    ASSUME IInv, Announce
    PROVE  IInv'
<1>1. Types'
<2>1. started' \in Keys
  BY Known DEF Announce
<2> QED  BY <2>1 DEF IInv, Types, TypeOK, Announce, eggVars, inVars, attVars, keyVars, strVars, outVars, cliVars, recvFrame
<1>2. Asked'
  BY Sizes DEF IInv, Asked, Announce, eggVars, inVars, attVars, keyVars, strVars, outVars, cliVars, recvFrame
<1>3. Fresh'
  BY ToCome, Known DEF IInv, Fresh, Untouched, Waiting, Attaching, Announce, eggVars, inVars, attVars, keyVars, strVars, outVars, cliVars, recvFrame
<1>4. Handling'
  BY Known DEF IInv, Handling, Attaching, Waiting, Controls, Set, NoReq, Announce, eggVars, inVars, attVars, keyVars, strVars, outVars, cliVars, recvFrame
<1>5. Progress'
  BY Known, Numbers DEF IInv, Progress, Set, Announce, eggVars, inVars, attVars, keyVars, strVars, outVars, cliVars, recvFrame
<1>6. Apart'
<2>1. started' \notin viewers
  BY DEF IInv, Apart, Handling, Attaching, Controls, Announce
<2> QED  BY <2>1 DEF IInv, Apart, Announce, eggVars, inVars, attVars, keyVars, strVars, outVars, cliVars, recvFrame
<1>7. Items'
  BY Known, Numbers DEF IInv, Items, Set, Announce, eggVars, inVars, attVars, keyVars, strVars, outVars, cliVars, recvFrame
<1>8. Bounded'
  BY Known, Numbers DEF IInv, Bounded, Announce, eggVars, inVars, attVars, keyVars, strVars, outVars, cliVars, recvFrame
<1>9. Past'
<2>1. \A c, h \in Clients : Behind(h, c) => Behind(h, c)'
  BY Numbers DEF Behind, Announce, eggVars, inVars, attVars, keyVars, strVars, outVars, cliVars, recvFrame
<2>2. \A c \in Clients : Current(c)' => Current(c)
  BY DEF Current, Controls, Attaching, Announce, eggVars, inVars, attVars, keyVars, strVars, outVars, cliVars, recvFrame
<2>3. \A h \in Clients : out'[h] # "none" => out[h] # "none"
  BY Known DEF Announce, Set, eggVars, inVars, attVars, keyVars, strVars, outVars, cliVars, recvFrame
<2>4. \A c \in Clients : pos'[c] # -1 \/ stream'[c] = "open" => pos[c] # -1 \/ stream[c] = "open"
  BY Known DEF Announce, Set, eggVars, inVars, attVars, keyVars, strVars, outVars, cliVars, recvFrame
<2>5. viewers' = viewers
  BY DEF Announce, eggVars, inVars, attVars, keyVars, strVars, outVars, cliVars, recvFrame
<2> QED
  BY <2>1, <2>2, <2>3, <2>4, <2>5 DEF IInv, Past
<1>10. Given'
<2>1. /\ gcm # req.g /\ \A h \in Clients : key[h] # req.g
      /\ started' = started \/ started' = req.g
  BY DEF IInv, Handling, Attaching, Announce
<2> QED  BY <2>1 DEF IInv, Given, Replayed, Uses, Announce, eggVars, inVars, attVars, keyVars, strVars, outVars, cliVars, recvFrame
<1>11. Lent'
  BY Known, Numbers DEF IInv, Lent, Uses, Set, Announce, eggVars, inVars, attVars, keyVars, strVars, outVars, cliVars, recvFrame
<1>12. InStep'
<2>1. /\ gcm # req.g /\ \A h \in Clients : key[h] # req.g
      /\ started' = started \/ started' = req.g
  BY DEF IInv, Handling, Attaching, Announce
<2>2. ASSUME NEW c \in Clients  PROVE  Caught(c)'
  <3>1. Caught(c) /\ (Keyed(c)' => Keyed(c)) /\ (Gets(c)' => Gets(c))
    BY <2>1 DEF IInv, InStep, Keyed, Gets, Announce, eggVars, inVars, attVars, keyVars, strVars, outVars, cliVars, recvFrame
  <3> QED  BY <3>1, CaughtStays DEF Announce, eggVars, inVars, attVars, keyVars, strVars, outVars, cliVars, recvFrame
<2> QED  BY <2>2 DEF InStep
<1>13. Begins'
  BY Known, Numbers DEF IInv, Begins, Set, Announce, eggVars, inVars, attVars, keyVars, strVars, outVars, cliVars, recvFrame
<1>14. OwnStreamExact'
  BY DEF IInv, OwnStreamExact, Announce, eggVars, inVars, attVars, keyVars, strVars, outVars, cliVars, recvFrame
<1> QED  BY <1>1, <1>2, <1>3, <1>4, <1>5, <1>6, <1>7, <1>8, <1>9, <1>10, <1>11, <1>12, <1>13, <1>14 DEF IInv

LEMMA ConnectInv ==
    ASSUME IInv, Connect
    PROVE  IInv'
<1>z. PICK r \in Clients : r = req.g
  BY Known
<1>h. /\ r \in Clients /\ r >= 1 /\ out[r] = "none" /\ gcm # r /\ active # r
      /\ \A h \in Clients : key[h] # r
      /\ req.key \in {r, NoKey} /\ pc \in Attaching
  BY <1>z, Known, Sizes DEF IInv, Handling, Attaching, Connect
<1>1. Types'
  BY Sizes DEF IInv, Types, TypeOK, Req, Item, Message, Set, Dead, NoItem, NoReq, Connect, Dead, eggVars, inVars, attVars, keyVars, strVars, outVars, cliVars, recvFrame
<1>2. Asked'
  BY Sizes DEF IInv, Asked, Connect, Dead, eggVars, inVars, attVars, keyVars, strVars, outVars, cliVars, recvFrame
<1>3. Fresh'
  BY <1>h, ToCome, Known DEF IInv, Fresh, Untouched, Waiting, Connect, Set, eggVars, inVars, attVars, keyVars, strVars, outVars, cliVars, recvFrame
<1>4. Handling'
  BY Known DEF IInv, Handling, Attaching, Waiting, Controls, Set, NoReq, Connect, Dead, eggVars, inVars, attVars, keyVars, strVars, outVars, cliVars, recvFrame
<1>5. Progress'
  BY <1>h, <1>z, Known DEF IInv, Progress, Connect, Set, eggVars, inVars, attVars, keyVars, strVars, outVars, cliVars, recvFrame
<1>6. Apart'
  BY Known DEF IInv, Apart, Set, Connect, Dead, eggVars, inVars, attVars, keyVars, strVars, outVars, cliVars, recvFrame
<1>7. Items'
  BY <1>h, <1>z, Known DEF IInv, Progress, Items, Connect, Set, eggVars, inVars, attVars, keyVars, strVars, outVars, cliVars, recvFrame
<1>8. Bounded'
  BY Known, Numbers DEF IInv, Bounded, Connect, Dead, eggVars, inVars, attVars, keyVars, strVars, outVars, cliVars, recvFrame
<1>9. Past'
<2>1. \A c, h \in Clients : Behind(h, c) => Behind(h, c)'
  BY Numbers DEF Behind, Connect, eggVars, inVars, attVars, keyVars, strVars, outVars, cliVars, recvFrame
<2>2. \A c \in Clients : Current(c)' => Current(c)
  BY DEF Current, Controls, Attaching, Connect, eggVars, inVars, attVars, keyVars, strVars, outVars, cliVars, recvFrame
<2>3. \A h \in Clients : out'[h] # "none" => out[h] # "none"
  BY Known DEF Connect, Set, eggVars, inVars, attVars, keyVars, strVars, outVars, cliVars, recvFrame
<2>4. \A c \in Clients : pos'[c] # -1 \/ stream'[c] = "open" => pos[c] # -1 \/ stream[c] = "open"
  BY Known DEF Connect, Set, eggVars, inVars, attVars, keyVars, strVars, outVars, cliVars, recvFrame
<2>5. viewers' = viewers
  BY DEF Connect, eggVars, inVars, attVars, keyVars, strVars, outVars, cliVars, recvFrame
<2> QED
  BY <2>1, <2>2, <2>3, <2>4, <2>5 DEF IInv, Past
<1>10. Given'
  BY <1>h, <1>z, Known DEF IInv, Given, Replayed, Uses, Connect, Set, eggVars, inVars, attVars, keyVars, strVars, outVars, cliVars, recvFrame
<1>11. Lent'
  BY Known, Numbers DEF IInv, Lent, Uses, Set, Connect, Dead, eggVars, inVars, attVars, keyVars, strVars, outVars, cliVars, recvFrame
<1>12. InStep'
  BY Known, Numbers DEF IInv, InStep, Caught, Got, Gets, Keyed, Set, Connect, Dead, eggVars, inVars, attVars, keyVars, strVars, outVars, cliVars, recvFrame
<1>13. Begins'
  BY <1>h, <1>z, Known DEF IInv, Progress, Begins, Connect, Set, eggVars, inVars, attVars, keyVars, strVars, outVars, cliVars, recvFrame
<1>14. OwnStreamExact'
  BY DEF IInv, OwnStreamExact, Connect, Dead, eggVars, inVars, attVars, keyVars, strVars, outVars, cliVars, recvFrame
<1> QED  BY <1>1, <1>2, <1>3, <1>4, <1>5, <1>6, <1>7, <1>8, <1>9, <1>10, <1>11, <1>12, <1>13, <1>14 DEF IInv

LEMMA ConnectFailsInv ==
    ASSUME IInv, ConnectFails
    PROVE  IInv'
<1>1. Types'
<2>1. NoReq \in Req
  BY Known DEF Req, NoReq
<2> QED
  BY <2>1 DEF IInv, Types, TypeOK, ConnectFails, eggVars, inVars, attVars, keyVars, strVars, outVars, cliVars, recvFrame
<1>2. Asked'
  BY Sizes DEF IInv, Asked, ConnectFails, eggVars, inVars, attVars, keyVars, strVars, outVars, cliVars, recvFrame
<1>3. Fresh'
  BY Known DEF IInv, Fresh, Untouched, Waiting, Set, Handling, Attaching, ConnectFails, eggVars, inVars, attVars, keyVars, strVars, outVars, cliVars, recvFrame
<1>4. Handling'
  BY Known DEF IInv, Handling, Attaching, Waiting, Controls, Set, NoReq, ConnectFails, eggVars, inVars, attVars, keyVars, strVars, outVars, cliVars, recvFrame
<1>5. Progress'
  BY Known, Numbers DEF IInv, Progress, Set, ConnectFails, eggVars, inVars, attVars, keyVars, strVars, outVars, cliVars, recvFrame
<1>6. Apart'
  BY Known DEF IInv, Apart, Set, ConnectFails, eggVars, inVars, attVars, keyVars, strVars, outVars, cliVars, recvFrame
<1>7. Items'
  BY Known, Numbers DEF IInv, Items, Set, ConnectFails, eggVars, inVars, attVars, keyVars, strVars, outVars, cliVars, recvFrame
<1>8. Bounded'
  BY Known, Numbers DEF IInv, Bounded, ConnectFails, eggVars, inVars, attVars, keyVars, strVars, outVars, cliVars, recvFrame
<1>9. Past'
  BY Known, Numbers DEF IInv, Past, Behind, Current, Attaching, Controls, Set, ConnectFails, eggVars, inVars, attVars, keyVars, strVars, outVars, cliVars, recvFrame
<1>10. Given'
  BY Known, Numbers DEF IInv, Given, Replayed, Uses, Set, ConnectFails, eggVars, inVars, attVars, keyVars, strVars, outVars, cliVars, recvFrame
<1>11. Lent'
  BY Known, Numbers DEF IInv, Lent, Uses, Set, ConnectFails, eggVars, inVars, attVars, keyVars, strVars, outVars, cliVars, recvFrame
<1>12. InStep'
  BY Known, Numbers DEF IInv, InStep, Caught, Got, Gets, Keyed, Set, ConnectFails, eggVars, inVars, attVars, keyVars, strVars, outVars, cliVars, recvFrame
<1>13. Begins'
  BY Known, Numbers DEF IInv, Begins, Set, ConnectFails, eggVars, inVars, attVars, keyVars, strVars, outVars, cliVars, recvFrame
<1>14. OwnStreamExact'
  BY DEF IInv, OwnStreamExact, ConnectFails, eggVars, inVars, attVars, keyVars, strVars, outVars, cliVars, recvFrame
<1> QED  BY <1>1, <1>2, <1>3, <1>4, <1>5, <1>6, <1>7, <1>8, <1>9, <1>10, <1>11, <1>12, <1>13, <1>14 DEF IInv

LEMMA GetReplayInv ==
    ASSUME IInv, GetReplay
    PROVE  IInv'
<1>z. PICK r \in Clients : r = req.g
  BY Known
<1>h. /\ r \in Clients /\ r >= 1 /\ out[r] = "none" /\ gcm # r /\ active # r
      /\ \A h \in Clients : key[h] # r
      /\ req.key \in {r, NoKey} /\ pc \in Attaching
  BY <1>z, Known, Sizes DEF IInv, Handling, Attaching, GetReplay
<1>n. /\ base[r] \in Nat /\ base[r] <= produced /\ pos[r] = -1 /\ stream[r] = "open" /\ seen[r] = <<>>
      /\ req.key = r
      /\ item' = [item EXCEPT ![r] = [lo |-> 1, hi |-> base[r]]] /\ pos' = [pos EXCEPT ![r] = base[r]]
  <2>1. base[r] \in Nat /\ base[r] <= produced
    BY Numbers
  <2>2. pos[r] = -1 /\ seen[r] = <<>> /\ req.key = r /\ stream[r] = "open"
    BY <1>z DEF IInv, Progress, GetReplay, HasOutput
  <2> QED  BY <1>z, <2>1, <2>2 DEF GetReplay, NextItem, Set
<1>1. Types'
<2>1. item' \in [Clients -> Item]
  BY <1>n, Known DEF Item
<2>2. pos' \in [Clients -> Int] /\ \A c \in Clients : pos'[c] \in -1..produced
  BY <1>n, Numbers
<2> QED  BY <2>1, <2>2 DEF IInv, Types, TypeOK, GetReplay, eggVars, inVars, attVars, keyVars, strVars, outVars, cliVars, recvFrame
<1>2. Asked'
  BY Sizes DEF IInv, Asked, GetReplay, HasOutput, NextItem, eggVars, inVars, attVars, keyVars, strVars, outVars, cliVars, recvFrame
<1>3. Fresh'
  BY <1>h, <1>n, <1>z, ToCome, Known, Numbers DEF IInv, Fresh, Untouched, Waiting, GetReplay, eggVars, inVars, attVars, keyVars, strVars, outVars, cliVars, recvFrame
<1>4. Handling'
  BY Known DEF IInv, Handling, Attaching, Waiting, Controls, Set, NoReq, GetReplay, HasOutput, NextItem, eggVars, inVars, attVars, keyVars, strVars, outVars, cliVars, recvFrame
<1>5. Progress'
  BY <1>n, <1>z, Known, Numbers DEF Progress, GetReplay, eggVars, inVars, attVars, keyVars, strVars, outVars, cliVars, recvFrame
<1>6. Apart'
  BY Known DEF IInv, Apart, Set, GetReplay, HasOutput, NextItem, eggVars, inVars, attVars, keyVars, strVars, outVars, cliVars, recvFrame
<1>7. Items'
  BY <1>h, <1>n, <1>z, Known, Numbers DEF IInv, Items, GetReplay, eggVars, inVars, attVars, keyVars, strVars, outVars, cliVars, recvFrame
<1>8. Bounded'
  BY Known, Numbers DEF IInv, Bounded, GetReplay, HasOutput, NextItem, eggVars, inVars, attVars, keyVars, strVars, outVars, cliVars, recvFrame
<1>9. Past'
<2>1. ASSUME NEW c \in Clients \ viewers, NEW h \in Clients \ viewers, Current(c)', h # c,
             out[h] # "none", pos'[c] # -1 \/ stream[c] = "open"
      PROVE  Behind(h, c)'
  <3>1. Current(c)
    BY <2>1, <1>h DEF Current, Controls, Attaching, GetReplay, eggVars, inVars, attVars, keyVars, strVars, outVars, cliVars, recvFrame
  <3>2. pos[c] # -1 \/ stream[c] = "open"
    BY <1>n, <2>1, Numbers
  <3>3. Behind(h, c)
    BY <2>1, <3>1, <3>2 DEF IInv, Past
  <3>4. pos'[h] = pos[h]
    BY <1>h, <1>n, <2>1, Numbers
  <3> QED  BY <3>3, <3>4 DEF Behind, GetReplay, eggVars, inVars, attVars, keyVars, strVars, outVars, cliVars, recvFrame
<2> QED  BY <2>1 DEF Past, GetReplay, eggVars, inVars, attVars, keyVars, strVars, outVars, cliVars, recvFrame
<1>10. Given'
<2>1. \A c \in Clients : c # r => pos'[c] = pos[c]
  BY <1>n, Numbers
<2>2. \A h \in Clients : ~Uses(h, r)
  BY <1>h DEF Uses
<2> QED  BY <1>h, <2>1, <2>2 DEF IInv, Given, Replayed, Uses, GetReplay, eggVars, inVars, attVars, keyVars, strVars, outVars, cliVars, recvFrame
<1>11. Lent'
<2>1. \A c \in Clients : c # r => pos'[c] = pos[c] /\ item'[c] = item[c]
  BY <1>n, Numbers, Known
<2>2. \A h \in Clients : ~Uses(h, r) /\ ~Uses(r, h)
  BY <1>h DEF Uses
<2>3. \A h, c \in Clients : Uses(h, c)' => Uses(h, c)
  BY DEF Uses, GetReplay, eggVars, inVars, attVars, keyVars, strVars, outVars, cliVars, recvFrame
<2>4. base' = base
  BY DEF GetReplay
<2> QED  BY <2>1, <2>2, <2>3, <2>4 DEF IInv, Lent
<1>12. InStep'
<2>1. ASSUME NEW c \in Clients, c # r  PROVE  Caught(c)'
  <3>1. Caught(c) /\ (Keyed(c)' => Keyed(c)) /\ (Gets(c)' => Gets(c))
    BY <1>h, <1>z, <2>1, Known DEF IInv, InStep, Keyed, Gets, GetReplay, eggVars, inVars, attVars, keyVars, strVars, outVars, cliVars, recvFrame
  <3> QED  BY <1>z, <2>1, <3>1, Known, CaughtStays DEF GetReplay, Set, eggVars, inVars, attVars, keyVars, strVars, outVars, cliVars, recvFrame
<2>2. Caught(r)'
  BY <1>h, <1>z DEF Caught, GetReplay, eggVars, inVars, attVars, keyVars, strVars, outVars, cliVars, recvFrame
<2> QED  BY <2>1, <2>2 DEF InStep
<1>13. Begins'
  BY <1>n, Known, Numbers DEF IInv, Begins, GetReplay, eggVars, inVars, attVars, keyVars, strVars, outVars, cliVars, recvFrame
<1>14. OwnStreamExact'
  BY DEF IInv, OwnStreamExact, GetReplay, HasOutput, NextItem, eggVars, inVars, attVars, keyVars, strVars, outVars, cliVars, recvFrame
<1> QED  BY <1>1, <1>2, <1>3, <1>4, <1>5, <1>6, <1>7, <1>8, <1>9, <1>10, <1>11, <1>12, <1>13, <1>14 DEF IInv

LEMMA NoReplayInv ==
    ASSUME IInv, NoReplay
    PROVE  IInv'
<1>1. Types'
  BY Sizes DEF IInv, Types, TypeOK, Req, Item, Message, Set, Dead, NoItem, NoReq, NoReplay, eggVars, inVars, attVars, keyVars, strVars, outVars, cliVars, recvFrame
<1>2. Asked'
  BY Sizes DEF IInv, Asked, NoReplay, eggVars, inVars, attVars, keyVars, strVars, outVars, cliVars, recvFrame
<1>3. Fresh'
  BY ToCome, Known DEF IInv, Fresh, Untouched, Waiting, Handling, Attaching, NoReplay, Set, eggVars, inVars, attVars, keyVars, strVars, outVars, cliVars, recvFrame
<1>4. Handling'
  BY Known DEF IInv, Handling, Attaching, Waiting, Controls, Set, NoReq, NoReplay, eggVars, inVars, attVars, keyVars, strVars, outVars, cliVars, recvFrame
<1>5. Progress'
  BY Known, Numbers DEF IInv, Progress, Set, NoReplay, eggVars, inVars, attVars, keyVars, strVars, outVars, cliVars, recvFrame
<1>6. Apart'
  BY Known DEF IInv, Apart, Set, NoReplay, eggVars, inVars, attVars, keyVars, strVars, outVars, cliVars, recvFrame
<1>7. Items'
  BY Known, Numbers DEF IInv, Items, Set, NoReplay, eggVars, inVars, attVars, keyVars, strVars, outVars, cliVars, recvFrame
<1>8. Bounded'
  BY Known, Numbers DEF IInv, Bounded, NoReplay, eggVars, inVars, attVars, keyVars, strVars, outVars, cliVars, recvFrame
<1>9. Past'
<2>1. \A c, h \in Clients : Behind(h, c) => Behind(h, c)'
  BY Numbers DEF Behind, NoReplay, eggVars, inVars, attVars, keyVars, strVars, outVars, cliVars, recvFrame
<2>2. \A c \in Clients : Current(c)' => Current(c)
  BY DEF Current, Controls, Attaching, NoReplay, eggVars, inVars, attVars, keyVars, strVars, outVars, cliVars, recvFrame
<2>3. \A h \in Clients : out'[h] # "none" => out[h] # "none"
  BY Known DEF NoReplay, Set, eggVars, inVars, attVars, keyVars, strVars, outVars, cliVars, recvFrame
<2>4. \A c \in Clients : pos'[c] # -1 \/ stream'[c] = "open" => pos[c] # -1 \/ stream[c] = "open"
  BY Known DEF NoReplay, Set, eggVars, inVars, attVars, keyVars, strVars, outVars, cliVars, recvFrame
<2>5. viewers' = viewers
  BY DEF NoReplay, eggVars, inVars, attVars, keyVars, strVars, outVars, cliVars, recvFrame
<2> QED
  BY <2>1, <2>2, <2>3, <2>4, <2>5 DEF IInv, Past
<1>10. Given'
  BY Known, Numbers DEF IInv, Given, Replayed, Uses, Set, NoReplay, eggVars, inVars, attVars, keyVars, strVars, outVars, cliVars, recvFrame
<1>11. Lent'
  BY Known, Numbers DEF IInv, Lent, Uses, Set, NoReplay, eggVars, inVars, attVars, keyVars, strVars, outVars, cliVars, recvFrame
<1>12. InStep'
  BY Known, Numbers DEF IInv, InStep, Caught, Got, Gets, Keyed, Set, NoReplay, eggVars, inVars, attVars, keyVars, strVars, outVars, cliVars, recvFrame
<1>13. Begins'
  BY Known, Numbers DEF IInv, Begins, Set, NoReplay, eggVars, inVars, attVars, keyVars, strVars, outVars, cliVars, recvFrame
<1>14. OwnStreamExact'
  BY DEF IInv, OwnStreamExact, NoReplay, eggVars, inVars, attVars, keyVars, strVars, outVars, cliVars, recvFrame
<1> QED  BY <1>1, <1>2, <1>3, <1>4, <1>5, <1>6, <1>7, <1>8, <1>9, <1>10, <1>11, <1>12, <1>13, <1>14 DEF IInv

LEMMA SendReplayInv ==
    ASSUME IInv, SendReplay
    PROVE  IInv'
<1>z. PICK r \in Clients : r = req.g
  BY Known
<1>h. /\ r \in Clients /\ r >= 1 /\ out[r] = "none" /\ gcm # r /\ active # r
      /\ \A h \in Clients : key[h] # r
      /\ req.key \in {r, NoKey} /\ pc \in Attaching
  BY <1>z, Known, Sizes DEF IInv, Handling, Attaching, SendReplay
<1>n. /\ base[r] \in Nat /\ pos[r] = base[r] /\ req.key = r /\ stream[r] = "open" /\ seen[r] = <<>>
      /\ item[r] = [lo |-> 1, hi |-> base[r]] /\ pc = "resend"
  <2>1. base[r] \in Nat
    BY Numbers
  <2> QED  BY <1>z, <2>1 DEF IInv, Progress, SendReplay
<1>m. PICK m : m = [src |-> r, lo |-> 1, hi |-> base[r]]
  OBVIOUS
<1>s. \/ seen' = seen /\ (base[r] = 0 \/ ~(r \in viewers \/ started = r))
      \/ /\ seen' = [seen EXCEPT ![r] = <<m>>] /\ m \in Message
         /\ base[r] > 0 /\ (r \in viewers \/ started = r)
  <2>1. Append(<<>>, m) = <<m>> /\ (base[r] > 0 => m \in Message)
    BY <1>n, <1>m DEF Message
  <2>2. PICK k : k = IF r \in viewers THEN r ELSE started
    OBVIOUS
  <2>3. seen' = IF base[r] < 1 \/ k # r THEN seen ELSE [seen EXCEPT ![k] = Append(@, m)]
    BY <1>z, <1>n, <1>m, <2>2 DEF SendReplay, Deliver
  <2>4. seen' = IF base[r] < 1 \/ k # r THEN seen ELSE [seen EXCEPT ![r] = <<m>>]
    BY <1>n, <2>1, <2>3
  <2> QED  BY <1>n, <2>1, <2>2, <2>4
<1>t. \A c \in Clients : c # r => seen'[c] = seen[c]
  <2>1. seen \in [Clients -> Seq(Message)]
    BY DEF IInv, Types
  <2> QED  BY <1>s, <2>1
<1>r. /\ seen'[r] # <<>> => seen'[r] = <<m>>
      /\ base[r] > 0 /\ (r \in viewers \/ started = r) => seen'[r] = <<m>>
  <2>1. seen \in [Clients -> Seq(Message)]
    BY DEF IInv, Types
  <2> QED  BY <1>n, <1>s, <2>1
<1>f. /\ UNCHANGED <<eggVars, inVars, req, keyVars, strVars, out, key, started, over>>
      /\ item' = [item EXCEPT ![r] = NoItem] /\ pc' = "activate"
  BY <1>z DEF SendReplay, Set
<1>1. Types'
<2>1. item' \in [Clients -> Item] /\ seen' \in [Clients -> Seq(Message)]
  <3>1. NoItem \in Item /\ (m \in Message => <<m>> \in Seq(Message))
    BY DEF NoItem, Item
  <3>2. item' \in [Clients -> Item]
    BY <1>f, <3>1, Known
  <3>3. seen \in [Clients -> Seq(Message)]
    BY DEF IInv, Types
  <3> QED  BY <1>s, <3>1, <3>2, <3>3
<2> QED  BY <1>f, <2>1 DEF IInv, Types, TypeOK, eggVars, inVars, attVars, keyVars, strVars, outVars, cliVars, recvFrame
<1>2. Asked'
  BY Sizes DEF IInv, Asked, SendReplay, Deliver, eggVars, inVars, attVars, keyVars, strVars, outVars, cliVars, recvFrame
<1>3. Fresh'
  BY <1>h, <1>f, <1>t, <1>z, ToCome, Known DEF IInv, Fresh, Untouched, Waiting, eggVars, inVars, attVars, keyVars, strVars, outVars, cliVars, recvFrame
<1>4. Handling'
  BY Known DEF IInv, Handling, Attaching, Waiting, Controls, Set, NoReq, SendReplay, Deliver, eggVars, inVars, attVars, keyVars, strVars, outVars, cliVars, recvFrame
<1>5. Progress'
<2>1. /\ pc' = "activate" /\ req' = req /\ pos' = pos /\ base' = base /\ stream' = stream
      /\ started' = started /\ viewers' = viewers
  BY <1>f DEF strVars, inVars
<2>2. pos[r] # -1 /\ m = [src |-> r, lo |-> 1, hi |-> pos[r]] /\ (pos[r] > 0 <=> base[r] > 0) /\ r # NoKey
  BY <1>n, <1>m, Known
<2>3. <<m>> # <<>>
  OBVIOUS
<2> QED  BY <1>n, <1>r, <1>z, <2>1, <2>2, <2>3 DEF Progress
<1>6. Apart'
  BY Known DEF IInv, Apart, Set, SendReplay, Deliver, eggVars, inVars, attVars, keyVars, strVars, outVars, cliVars, recvFrame
<1>7. Items'
  BY <1>h, <1>f, Known, Numbers DEF IInv, Items, eggVars, inVars, attVars, keyVars, strVars, outVars, cliVars, recvFrame
<1>8. Bounded'
  BY Known, Numbers DEF IInv, Bounded, SendReplay, Deliver, eggVars, inVars, attVars, keyVars, strVars, outVars, cliVars, recvFrame
<1>9. Past'
<2>1. \A c, h \in Clients : Behind(h, c) => Behind(h, c)'
  BY Numbers DEF Behind, SendReplay, eggVars, inVars, attVars, keyVars, strVars, outVars, cliVars, recvFrame
<2>2. \A c \in Clients : Current(c)' => Current(c)
  BY DEF Current, Controls, Attaching, SendReplay, eggVars, inVars, attVars, keyVars, strVars, outVars, cliVars, recvFrame
<2>3. \A h \in Clients : out'[h] # "none" => out[h] # "none"
  BY Known DEF SendReplay, Set, eggVars, inVars, attVars, keyVars, strVars, outVars, cliVars, recvFrame
<2>4. \A c \in Clients : pos'[c] # -1 \/ stream'[c] = "open" => pos[c] # -1 \/ stream[c] = "open"
  BY Known DEF SendReplay, Set, eggVars, inVars, attVars, keyVars, strVars, outVars, cliVars, recvFrame
<2>5. viewers' = viewers
  BY DEF SendReplay, eggVars, inVars, attVars, keyVars, strVars, outVars, cliVars, recvFrame
<2> QED
  BY <2>1, <2>2, <2>3, <2>4, <2>5 DEF IInv, Past
<1>10. Given'
<2>2. \A h \in Clients : ~Uses(h, r)
  BY <1>h DEF Uses
<2> QED  BY <1>h, <1>f, <1>t, <2>2, Known DEF IInv, Given, Replayed, Uses, eggVars, inVars, attVars, keyVars, strVars, outVars, cliVars, recvFrame
<1>11. Lent'
<2>1. \A c \in Clients : c # r => item'[c] = item[c]
  BY <1>f, Known
<2>2. \A h \in Clients : ~Uses(r, h)
  BY <1>h DEF Uses
<2>3. \A h, c \in Clients : Uses(h, c)' => Uses(h, c)
  BY <1>f DEF Uses, eggVars, inVars, attVars, keyVars, strVars, outVars, cliVars, recvFrame
<2>4. base' = base /\ pos' = pos
  BY <1>f DEF strVars
<2> QED  BY <2>1, <2>2, <2>3, <2>4 DEF IInv, Lent
<1>12. InStep'
<2>1. ASSUME NEW c \in Clients, c # r  PROVE  Caught(c)'
  <3>1. Caught(c) /\ (Keyed(c)' => Keyed(c)) /\ (Gets(c)' => Gets(c))
    BY <1>h, <1>z, <2>1, Known DEF IInv, InStep, Keyed, Gets, SendReplay, eggVars, inVars, attVars, keyVars, strVars, outVars, cliVars, recvFrame
  <3> QED  BY <1>z, <1>t, <2>1, <3>1, Known, CaughtStays DEF SendReplay, Set, eggVars, inVars, attVars, keyVars, strVars, outVars, cliVars, recvFrame
<2>2. Caught(r)'
  BY <1>h, <1>z DEF Caught, SendReplay, eggVars, inVars, attVars, keyVars, strVars, outVars, cliVars, recvFrame
<2> QED  BY <2>1, <2>2 DEF InStep
<1>13. Begins'
<2>1. <<m>>[1] = m /\ m.lo = 1
  BY <1>m
<2> QED  BY <1>n, <1>r, <1>t, <1>f, <2>1 DEF IInv, Begins, eggVars, inVars, attVars, keyVars, strVars, outVars, cliVars, recvFrame
<1>14. OwnStreamExact'
<2>1. ASSUME NEW c \in Clients, NEW i \in DOMAIN seen'[c], seen'[c][i].src = c
      PROVE  Reaches(seen'[c], c, i - 1, seen'[c][i].lo - 1)
  <3>1. CASE c # r
    BY <1>t, <2>1, <3>1 DEF IInv, OwnStreamExact
  <3>2. CASE c = r
    <4>1. seen'[r] = <<m>>
      BY <1>n, <1>s, <1>r, <2>1, <3>2
    <4>2. DOMAIN <<m>> = {1} /\ <<m>>[1] = m /\ m.lo - 1 = 0 /\ i = 1 /\ i - 1 = 0
      BY <1>m, <2>1, <3>2, <4>1
    <4>3. Reaches(<<m>>, r, 0, 0)
      BY DEF Reaches
    <4> QED  BY <3>2, <4>1, <4>2, <4>3
  <3> QED  BY <3>1, <3>2
<2> QED  BY <2>1 DEF OwnStreamExact
<1> QED  BY <1>1, <1>2, <1>3, <1>4, <1>5, <1>6, <1>7, <1>8, <1>9, <1>10, <1>11, <1>12, <1>13, <1>14 DEF IInv

LEMMA ActivateInv ==
    ASSUME IInv, Activate
    PROVE  IInv'
<1>z. PICK r \in Clients : r = req.g
  BY Known
<1>h. /\ r \in Clients /\ r >= 1 /\ out[r] = "none" /\ gcm # r /\ active # r
      /\ \A h \in Clients : key[h] # r
      /\ req.key \in {r, NoKey} /\ pc \in Attaching
  BY <1>z, Known, Sizes DEF IInv, Handling, Attaching, Activate
<1>n. /\ pc = "activate" /\ pc' = "idle" /\ req' = NoReq
      /\ out' = [out EXCEPT ![r] = "recv"]
      /\ key' = [key EXCEPT ![r] = IF Controls(req) THEN NoKey ELSE req.key]
      /\ IF Controls(req) THEN gcm' = req.key /\ active' = r ELSE UNCHANGED <<gcm, active>>
      /\ UNCHANGED <<eggVars, inVars, cancelled, limit, strVars, item, cliVars, over>>
  BY <1>z DEF Activate, Set
<1>o. \A c \in Clients : c # r => out'[c] = out[c] /\ key'[c] = key[c]
  BY <1>n, Known
<1>p. out'[r] = "recv" /\ key'[r] = IF Controls(req) THEN NoKey ELSE req.key
  BY <1>n, Known
<1>c. /\ Controls(req) => gcm = NoKey /\ r \notin viewers /\ active \in cancelled
      /\ ~Controls(req) => r \in viewers
  BY <1>z, <1>n DEF IInv, Handling, Attaching
<1>d. NoKey = -1
  BY DEF NoKey
<1>1. Types'
<2>1. NoReq \in Req
  BY Known DEF Req, NoReq
<2>2. out' \in [Clients -> {"none", "recv", "holds", "send", "exit", "gone"}] /\ key' \in [Clients -> Keys]
      /\ gcm' \in Keys /\ active' \in Clients
  BY <1>n, Known
<2> QED  BY <1>n, <2>1, <2>2 DEF IInv, Types, TypeOK, eggVars, inVars, attVars, keyVars, strVars, outVars, cliVars, recvFrame
<1>2. Asked'
  BY Sizes DEF IInv, Asked, Activate, eggVars, inVars, attVars, keyVars, strVars, outVars, cliVars, recvFrame
<1>3. Fresh'
<2>1. ASSUME NEW h \in Clients, h > clients \/ Waiting(h)  PROVE  Untouched(h)'
  <3>1. Untouched(h) /\ h # r
    BY <1>z, <1>h, <2>1, ToCome DEF IInv, Fresh
  <3>2. \A k \in Clients : key'[k] # h
    BY <1>h, <1>o, <1>p, <3>1, Known DEF Untouched
  <3>3. gcm' # h /\ active' # h
    BY <1>h, <1>n, <3>1, Known DEF Untouched
  <3> QED  BY <1>n, <1>o, <3>1, <3>2, <3>3 DEF Untouched, eggVars, inVars, attVars, keyVars, strVars, outVars, cliVars, recvFrame
<2> QED  BY <1>n, <2>1 DEF Fresh, Waiting, inVars
<1>4. Handling'
  BY Known DEF IInv, Handling, Attaching, Waiting, Controls, Set, NoReq, Activate, eggVars, inVars, attVars, keyVars, strVars, outVars, cliVars, recvFrame
<1>5. Progress'
  BY Known, Numbers DEF IInv, Progress, Set, Activate, eggVars, inVars, attVars, keyVars, strVars, outVars, cliVars, recvFrame
<1>6. Apart'
<2>1. started' \notin viewers /\ gcm' \notin viewers /\ active' \notin viewers
  BY <1>h, <1>n, <1>c, Known DEF IInv, Apart, cliVars
<2>2. \A v \in viewers : key'[v] \in {v, NoKey}
  BY <1>h, <1>o, <1>p, <1>c, Known DEF IInv, Apart
<2>3. gcm' # NoKey => active' = gcm' /\ out'[gcm'] # "none"
  BY <1>h, <1>n, <1>o, <1>p, Known DEF IInv, Apart
<2>4. ASSUME NEW h \in Clients \ viewers, out'[h] # "none", h # active'  PROVE  h \in cancelled
  BY <1>h, <1>n, <1>o, <1>c, <2>4, Known DEF IInv, Apart
<2>5. ASSUME gcm' = 0, NEW h \in Clients \ viewers, h # 0  PROVE  out'[h] = "none"
  <3>1. ~Controls(req)
    BY <1>h, <1>n, <1>d, <2>5
  <3> QED  BY <1>n, <1>o, <1>c, <2>5, <3>1, Known DEF IInv, Apart
<2> QED  BY <1>n, <2>1, <2>2, <2>3, <2>4, <2>5 DEF Apart, inVars
<1>7. Items'
  BY Known, Numbers DEF IInv, Items, Set, Activate, eggVars, inVars, attVars, keyVars, strVars, outVars, cliVars, recvFrame
<1>8. Bounded'
  BY Known, Numbers DEF IInv, Bounded, Activate, eggVars, inVars, attVars, keyVars, strVars, outVars, cliVars, recvFrame
<1>9. Past'
<2>1. ASSUME NEW c \in Clients \ viewers, NEW h \in Clients \ viewers, Current(c)', h # c,
             out'[h] # "none", pos[c] # -1 \/ stream[c] = "open"
      PROVE  Behind(h, c)'
  <3>1. c = active'
    BY <1>n, <2>1 DEF Current, Attaching
  <3>2. Current(c)
    BY <1>z, <1>n, <1>h, <3>1 DEF Current
  <3>3. out[h] # "none"
    BY <1>n, <1>o, <1>c, <2>1, <3>1
  <3>4. Behind(h, c)
    BY <2>1, <3>2, <3>3 DEF IInv, Past
  <3> QED  BY <1>n, <3>4 DEF Behind, eggVars, inVars, attVars, keyVars, strVars, outVars, cliVars, recvFrame
<2> QED  BY <1>n, <2>1 DEF Past, eggVars, inVars, attVars, keyVars, strVars, outVars, cliVars, recvFrame
<1>10. Given'
<2>1. \A h, c \in Clients : Uses(h, c)' => Uses(h, c)
  BY <1>n, <1>o, <1>p DEF Uses, inVars
<2>2. ASSUME NEW c \in Clients \ {0}, gcm' = c \/ \E h \in Clients : Uses(h, c)'  PROVE  Replayed(c)'
  <3>1. CASE gcm = c \/ \E h \in Clients : Uses(h, c)
    <4>1. Replayed(c)
      BY <3>1 DEF IInv, Given
    <4> QED  BY <4>1, <1>n DEF Replayed, strVars, cliVars
  <3>2. CASE ~(gcm = c \/ \E h \in Clients : Uses(h, c))
    <4>1. c = r /\ req.key = r /\ Controls(req) /\ r # NoKey
      BY <1>h, <1>n, <2>1, <2>2, <3>2, Known
    <4>2. /\ pos[r] = -1 => stream[r] = "ended"
          /\ pos[r] # -1 => pos[r] = base[r]
          /\ pos[r] > 0 /\ started = r => seen[r] # <<>>
      BY <1>z, <1>n, <4>1 DEF IInv, Progress
    <4>3. Replayed(r)
      BY <4>2 DEF Replayed
    <4> QED  BY <4>1, <4>3, <1>n DEF Replayed, strVars, cliVars
  <3> QED  BY <3>1, <3>2
<2> QED  BY <2>2 DEF Given
<1>11. Lent'
<2>1. \A h, c \in Clients : Uses(h, c)' => Uses(h, c)
  BY <1>n, <1>o, <1>p DEF Uses, inVars
<2> QED  BY <1>n, <2>1 DEF IInv, Lent, strVars
<1>12. InStep'
<2>1. ASSUME NEW c \in Clients, c # r  PROVE  Caught(c)'
  <3>1. Caught(c) /\ (Keyed(c)' => Keyed(c)) /\ (Gets(c)' => Gets(c))
    BY <1>h, <1>n, <1>o, <2>1, Known DEF IInv, InStep, Keyed, Gets, eggVars, inVars, attVars, keyVars, strVars, outVars, cliVars, recvFrame
  <3> QED  BY <1>n, <1>o, <2>1, <3>1, CaughtStays DEF eggVars, inVars, attVars, keyVars, strVars, outVars, cliVars, recvFrame
<2>2. ASSUME Keyed(r)'  PROVE  Got(r, IF pos[r] = -1 THEN 0 ELSE pos[r])
  <3>1. req.key = r /\ r # NoKey /\ (r \in viewers \/ started = r)
    BY <1>h, <1>n, <1>p, <1>c, <2>2, Known DEF Keyed, inVars, cliVars
  <3>2. /\ pos[r] = -1 => seen[r] = <<>>
        /\ pos[r] # -1 => pos[r] = base[r]
        /\ seen[r] # <<>> => seen[r] = <<[src |-> r, lo |-> 1, hi |-> pos[r]]>>
        /\ pos[r] > 0 => seen[r] # <<>>
    BY <1>z, <1>n, <3>1 DEF IInv, Progress
  <3>3. pos[r] \in Int /\ base[r] \in Int /\ 0 <= base[r]
    BY Numbers
  <3>4. PICK n \in Int : n = IF pos[r] = -1 THEN 0 ELSE pos[r]
    BY <3>3
  <3>5. CASE seen[r] = <<>>
    <4>1. n = 0
      BY <3>2, <3>3, <3>4, <3>5
    <4>2. Len(<<>>) = 0
      OBVIOUS
    <4> QED  BY <3>4, <3>5, <4>1, <4>2, ReachesNone DEF Got
  <3>6. CASE seen[r] # <<>>
    <4>1. PICK m : m = [src |-> r, lo |-> 1, hi |-> pos[r]]
      OBVIOUS
    <4>2. seen[r] = <<m>> /\ n = m.hi /\ m.src = r
      BY <3>2, <3>4, <3>6, <4>1
    <4>3. Reaches(<<m>>, r, 1, n)
      <5>1. <<m>>[1] = m /\ {i \in 1..1 : <<m>>[i].src = r} = {1}
        BY <4>2
      <5> QED  BY <4>2, <5>1 DEF Reaches
    <4>4. Len(<<m>>) = 1
      OBVIOUS
    <4> QED  BY <3>4, <4>2, <4>3, <4>4 DEF Got
  <3> QED  BY <3>5, <3>6
<2>3. Caught(r)'
  BY <1>n, <1>p, <2>2 DEF Caught, Got, strVars, cliVars
<2> QED  BY <2>1, <2>3 DEF InStep
<1>13. Begins'
  BY Known, Numbers DEF IInv, Begins, Set, Activate, eggVars, inVars, attVars, keyVars, strVars, outVars, cliVars, recvFrame
<1>14. OwnStreamExact'
  BY DEF IInv, OwnStreamExact, Activate, eggVars, inVars, attVars, keyVars, strVars, outVars, cliVars, recvFrame
<1> QED  BY <1>1, <1>2, <1>3, <1>4, <1>5, <1>6, <1>7, <1>8, <1>9, <1>10, <1>11, <1>12, <1>13, <1>14 DEF IInv

LEMMA RecvInv ==
    ASSUME IInv, NEW g \in Clients, Recv(g)
    PROVE  IInv'
<1>n. /\ out[g] = "recv" /\ stream[g] = "open"
      /\ pos[g] = -1 \/ (pos[g] < produced /\ pos[g] < limit[g])
      /\ pos' = [pos EXCEPT ![g] = IF pos[g] = -1 THEN base[g] ELSE pos[g] + 1]
      /\ item' = [item EXCEPT ![g] = IF pos[g] = -1 THEN [lo |-> 1, hi |-> base[g]]
                                     ELSE [lo |-> pos[g] + 1, hi |-> pos[g] + 1]]
      /\ out' = [out EXCEPT ![g] = "holds"]
      /\ UNCHANGED <<eggVars, inVars, attVars, keyVars, base, key, cliVars, over, stream>>
  BY DEF Recv, HasOutput, NextItem, Set, recvFrame
<1>o. \A c \in Clients : c # g => pos'[c] = pos[c] /\ item'[c] = item[c] /\ out'[c] = out[c]
  BY <1>n, Known, Numbers
<1>p. /\ out'[g] = "holds" /\ pos'[g] = item'[g].hi
      /\ item'[g].lo = (IF pos[g] = -1 THEN 0 ELSE pos[g]) + 1
      /\ pos'[g] = IF pos[g] = -1 THEN base[g] ELSE pos[g] + 1
      /\ pos'[g] \in Int /\ item'[g].lo <= item'[g].hi + 1 /\ item'[g].lo >= 1
      /\ 0 <= pos'[g] /\ pos'[g] <= produced
  <2>1. /\ pos[g] \in Int /\ -1 <= pos[g] /\ base[g] \in Int /\ 0 <= base[g] /\ base[g] <= produced
        /\ produced \in Int
    BY Numbers
  <2>2. CASE pos[g] = -1
    <3>1. pos'[g] = base[g] /\ item'[g] = [lo |-> 1, hi |-> base[g]] /\ out'[g] = "holds"
      BY <1>n, <2>2, Known, Numbers
    <3> QED  BY <2>1, <2>2, <3>1
  <2>3. CASE pos[g] # -1
    <3>1. /\ pos'[g] = pos[g] + 1 /\ item'[g] = [lo |-> pos[g] + 1, hi |-> pos[g] + 1]
          /\ out'[g] = "holds"
      BY <1>n, <2>3, Known, Numbers
    <3> QED  BY <1>n, <2>1, <2>3, <3>1
  <2> QED  BY <2>2, <2>3
<1>g. pos[g] = -1 /\ g # 0 => gcm # g /\ \A h \in Clients : ~Uses(h, g)
  BY <1>n DEF IInv, Given, Replayed
<1>1. Types'
<2>1. item' \in [Clients -> Item]
  <3>1. pos[g] \in Int /\ -1 <= pos[g] /\ base[g] \in Nat
    BY Numbers
  <3>2. (IF pos[g] = -1 THEN [lo |-> 1, hi |-> base[g]]
                        ELSE [lo |-> pos[g] + 1, hi |-> pos[g] + 1]) \in Item
    BY <3>1 DEF Item
  <3> QED  BY <1>n, <3>2, Known
<2>2. pos' \in [Clients -> Int] /\ \A c \in Clients : pos'[c] \in -1..produced
  <3>1. \A c \in Clients : pos'[c] \in -1..produced
    BY <1>o, <1>p, Numbers
  <3>2. (IF pos[g] = -1 THEN base[g] ELSE pos[g] + 1) \in Int
    BY Numbers
  <3> QED  BY <1>n, <3>1, <3>2, Numbers
<2>3. out' \in [Clients -> {"none", "recv", "holds", "send", "exit", "gone"}]
  BY <1>n, Known
<2> QED  BY <1>n, <2>1, <2>2, <2>3 DEF IInv, Types, TypeOK, eggVars, inVars, attVars, keyVars, strVars, outVars, cliVars, recvFrame
<1>2. Asked'
  BY <1>n DEF IInv, Asked, inVars
<1>3. Fresh'
  BY <1>n, <1>o, Serving DEF IInv, Fresh, Untouched, Waiting, eggVars, inVars, attVars, keyVars, strVars, outVars, cliVars, recvFrame
<1>4. Handling'
  BY Known DEF IInv, Handling, Attaching, Waiting, Controls, Set, NoReq, Recv, HasOutput, NextItem, eggVars, inVars, attVars, keyVars, strVars, outVars, cliVars, recvFrame
<1>5. Progress'
<2>1. pc \in Attaching => req.g # g
  BY <1>n, Serving
<2> QED  BY <1>n, <1>o, <2>1, Known DEF IInv, Progress, Attaching, eggVars, inVars, attVars, keyVars, strVars, outVars, cliVars, recvFrame
<1>6. Apart'
  BY Known DEF IInv, Apart, Set, Recv, HasOutput, NextItem, eggVars, inVars, attVars, keyVars, strVars, outVars, cliVars, recvFrame
<1>7. Items'
  BY <1>n, <1>o, <1>p DEF IInv, Items, eggVars, inVars, attVars, keyVars, strVars, outVars, cliVars, recvFrame
<1>8. Bounded'
  BY Known, Numbers DEF IInv, Bounded, Recv, HasOutput, NextItem, eggVars, inVars, attVars, keyVars, strVars, outVars, cliVars, recvFrame
<1>9. Past'
<2>1. ASSUME NEW c \in Clients \ viewers, NEW h \in Clients \ viewers, Current(c), h # c,
             out'[h] # "none", pos'[c] # -1 \/ stream[c] = "open"
      PROVE  Behind(h, c)'
  <3>1. (pos[c] # -1 \/ stream[c] = "open") /\ out[h] # "none"
    BY <1>n, <1>o, <2>1
  <3>2. Behind(h, c)
    BY <2>1, <3>1 DEF IInv, Past
  <3>3. CASE h # g
    BY <1>n, <1>o, <3>2, <3>3 DEF Behind, eggVars, inVars, attVars, keyVars, strVars, outVars, cliVars, recvFrame
  <3>4. CASE h = g
    <4>1. /\ pos[g] <= base[c] /\ base[g] <= base[c]
          /\ limit[g] <= base[c] \/ (egg # "live" /\ base[c] = produced)
      BY <3>2, <3>4 DEF Behind
    <4>2. pos'[g] <= base[c]
      BY <1>n, <1>p, <4>1, Numbers
    <4> QED  BY <1>n, <3>4, <4>1, <4>2 DEF Behind, eggVars, inVars, attVars, keyVars, strVars, outVars, cliVars, recvFrame
  <3> QED  BY <3>3, <3>4
<2>2. \A c : Current(c)' => Current(c)
  BY <1>n DEF Current, Controls, attVars, keyVars
<2> QED  BY <1>n, <2>1, <2>2 DEF Past, eggVars, inVars, attVars, keyVars, strVars, outVars, cliVars, recvFrame
<1>10. Given'
<2>1. \A h, c \in Clients : Uses(h, c)' => Uses(h, c)
  BY <1>n, <1>o, <1>p DEF Uses, inVars
<2>2. ASSUME NEW c \in Clients \ {0}, gcm = c \/ \E h \in Clients : Uses(h, c)'  PROVE  Replayed(c)'
  <3>1. Replayed(c) /\ (c = g => pos[g] # -1)
    BY <1>g, <2>1, <2>2 DEF IInv, Given
  <3>2. pos'[c] = -1 <=> pos[c] = -1
    BY <1>o, <1>p, <3>1
  <3> QED  BY <1>n, <3>1, <3>2 DEF Replayed, eggVars, inVars, attVars, keyVars, strVars, outVars, cliVars, recvFrame
<2> QED  BY <1>n, <2>2 DEF Given, keyVars
<1>11. Lent'
<2>1. ASSUME NEW h \in Clients, NEW c \in Clients, Uses(h, c)', h # c
      PROVE  c # 0 /\ (pos'[c] # -1 => item'[h].hi <= base[c])
  <3>1. Uses(h, c) /\ h # g
    BY <1>n, <1>o, <1>p, <2>1 DEF Uses, inVars
  <3>2. c # 0 /\ (pos[c] # -1 => item[h].hi <= base[c])
    BY <2>1, <3>1 DEF IInv, Lent
  <3>3. pos'[c] # -1 => pos[c] # -1
    BY <1>g, <1>o, <3>1, <3>2
  <3> QED  BY <1>o, <3>1, <3>2, <3>3
<2> QED  BY <1>n, <2>1 DEF Lent
<1>12. InStep'
<2>1. ASSUME NEW c \in Clients, c # g  PROVE  Caught(c)'
  <3>1. Caught(c) /\ (Keyed(c)' => Keyed(c)) /\ (Gets(c)' => Gets(c))
    BY <1>n DEF IInv, InStep, Keyed, Gets, eggVars, inVars, attVars, keyVars, strVars, outVars, cliVars, recvFrame
  <3> QED  BY <1>n, <1>o, <2>1, <3>1, CaughtStays DEF eggVars, inVars, attVars, keyVars, strVars, outVars, cliVars, recvFrame
<2>2. Keyed(g) => Got(g, IF pos[g] = -1 THEN 0 ELSE pos[g])
  BY <1>n DEF IInv, InStep, Caught
<2>3. (IF pos[g] = -1 THEN 0 ELSE pos[g]) = item'[g].lo - 1
  BY <1>p, Numbers
<2>4. Caught(g)'
  <3>1. Keyed(g)' => Keyed(g)
    BY <1>n DEF Keyed, eggVars, inVars, attVars, keyVars, strVars, outVars, cliVars, recvFrame
  <3>2. Keyed(g) => Reaches(seen'[g], g, Len(seen'[g]), item'[g].lo - 1)
    BY <1>n, <2>2, <2>3 DEF Got, cliVars
  <3> QED  BY <1>p, <3>1, <3>2 DEF Caught, Got
<2> QED  BY <2>1, <2>4 DEF InStep
<1>13. Begins'
<2>1. pos[g] = -1 => seen[g] = <<>>
  BY <1>n DEF IInv, Begins
<2>2. ASSUME NEW c \in Clients, seen[c] # <<>>
      PROVE  (pos'[c] = -1 => stream[c] = "ended") /\ (pos'[c] # -1 => seen[c][1].lo = 1)
  BY <1>o, <1>p, <2>1, <2>2 DEF IInv, Begins
<2> QED  BY <1>n, <2>2 DEF Begins, cliVars
<1>14. OwnStreamExact'
  BY DEF IInv, OwnStreamExact, Recv, HasOutput, NextItem, eggVars, inVars, attVars, keyVars, strVars, outVars, cliVars, recvFrame
<1> QED  BY <1>1, <1>2, <1>3, <1>4, <1>5, <1>6, <1>7, <1>8, <1>9, <1>10, <1>11, <1>12, <1>13, <1>14 DEF IInv

LEMMA RecvBreaksInv ==
    ASSUME IInv, NEW g \in Clients, RecvBreaks(g)
    PROVE  IInv'
<1>1. Types'
  BY Sizes DEF IInv, Types, TypeOK, Req, Item, Message, Set, Dead, NoItem, NoReq, RecvBreaks, eggVars, inVars, attVars, keyVars, strVars, outVars, cliVars, recvFrame
<1>2. Asked'
  BY Sizes DEF IInv, Asked, RecvBreaks, eggVars, inVars, attVars, keyVars, strVars, outVars, cliVars, recvFrame
<1>3. Fresh'
  BY Known, Serving DEF IInv, Fresh, Untouched, Waiting, Set, Handling, Attaching, RecvBreaks, eggVars, inVars, attVars, keyVars, strVars, outVars, cliVars, recvFrame
<1>4. Handling'
  BY Known DEF IInv, Handling, Attaching, Waiting, Controls, Set, NoReq, RecvBreaks, eggVars, inVars, attVars, keyVars, strVars, outVars, cliVars, recvFrame
<1>5. Progress'
  BY Known, Numbers, Serving DEF IInv, Progress, Set, Attaching, RecvBreaks, eggVars, inVars, attVars, keyVars, strVars, outVars, cliVars, recvFrame
<1>6. Apart'
  BY Known DEF IInv, Apart, Set, RecvBreaks, eggVars, inVars, attVars, keyVars, strVars, outVars, cliVars, recvFrame
<1>7. Items'
  BY Known, Numbers DEF IInv, Items, Set, RecvBreaks, eggVars, inVars, attVars, keyVars, strVars, outVars, cliVars, recvFrame
<1>8. Bounded'
  BY Known, Numbers DEF IInv, Bounded, RecvBreaks, eggVars, inVars, attVars, keyVars, strVars, outVars, cliVars, recvFrame
<1>9. Past'
<2>1. \A c, h \in Clients : Behind(h, c) => Behind(h, c)'
  BY Numbers DEF Behind, RecvBreaks, eggVars, inVars, attVars, keyVars, strVars, outVars, cliVars, recvFrame
<2>2. \A c \in Clients : Current(c)' => Current(c)
  BY DEF Current, Controls, RecvBreaks, eggVars, inVars, attVars, keyVars, strVars, outVars, cliVars, recvFrame
<2>3. \A h \in Clients : out'[h] # "none" => out[h] # "none"
  BY Known DEF RecvBreaks, Set, eggVars, inVars, attVars, keyVars, strVars, outVars, cliVars, recvFrame
<2>4. \A c \in Clients : pos'[c] # -1 \/ stream'[c] = "open" => pos[c] # -1 \/ stream[c] = "open"
  BY Known DEF RecvBreaks, Set, eggVars, inVars, attVars, keyVars, strVars, outVars, cliVars, recvFrame
<2>5. viewers' = viewers
  BY DEF RecvBreaks, eggVars, inVars, attVars, keyVars, strVars, outVars, cliVars, recvFrame
<2> QED
  BY <2>1, <2>2, <2>3, <2>4, <2>5 DEF IInv, Past
<1>10. Given'
  BY Known, Numbers DEF IInv, Given, Replayed, Uses, Set, RecvBreaks, eggVars, inVars, attVars, keyVars, strVars, outVars, cliVars, recvFrame
<1>11. Lent'
  BY Known, Numbers DEF IInv, Lent, Uses, Set, RecvBreaks, eggVars, inVars, attVars, keyVars, strVars, outVars, cliVars, recvFrame
<1>12. InStep'
  BY Known, Numbers DEF IInv, InStep, Caught, Got, Gets, Keyed, Set, RecvBreaks, eggVars, inVars, attVars, keyVars, strVars, outVars, cliVars, recvFrame
<1>13. Begins'
  BY Known, Numbers DEF IInv, Begins, Set, RecvBreaks, eggVars, inVars, attVars, keyVars, strVars, outVars, cliVars, recvFrame
<1>14. OwnStreamExact'
  BY DEF IInv, OwnStreamExact, RecvBreaks, eggVars, inVars, attVars, keyVars, strVars, outVars, cliVars, recvFrame
<1> QED  BY <1>1, <1>2, <1>3, <1>4, <1>5, <1>6, <1>7, <1>8, <1>9, <1>10, <1>11, <1>12, <1>13, <1>14 DEF IInv

LEMMA RecvExitInv ==
    ASSUME IInv, NEW g \in Clients, RecvExit(g)
    PROVE  IInv'
<1>1. Types'
  BY Sizes DEF IInv, Types, TypeOK, Req, Item, Message, Set, Dead, NoItem, NoReq, RecvExit, ExitComes, eggVars, inVars, attVars, keyVars, strVars, outVars, cliVars, recvFrame
<1>2. Asked'
  BY Sizes DEF IInv, Asked, RecvExit, ExitComes, eggVars, inVars, attVars, keyVars, strVars, outVars, cliVars, recvFrame
<1>3. Fresh'
  BY Known, Serving DEF IInv, Fresh, Untouched, Waiting, Set, Handling, Attaching, RecvExit, ExitComes, eggVars, inVars, attVars, keyVars, strVars, outVars, cliVars, recvFrame
<1>4. Handling'
  BY Known DEF IInv, Handling, Attaching, Waiting, Controls, Set, NoReq, RecvExit, ExitComes, eggVars, inVars, attVars, keyVars, strVars, outVars, cliVars, recvFrame
<1>5. Progress'
  BY Known, Numbers, Serving DEF IInv, Progress, Set, Attaching, RecvExit, ExitComes, eggVars, inVars, attVars, keyVars, strVars, outVars, cliVars, recvFrame
<1>6. Apart'
  BY Known DEF IInv, Apart, Set, RecvExit, ExitComes, eggVars, inVars, attVars, keyVars, strVars, outVars, cliVars, recvFrame
<1>7. Items'
  BY Known, Numbers DEF IInv, Items, Set, RecvExit, ExitComes, eggVars, inVars, attVars, keyVars, strVars, outVars, cliVars, recvFrame
<1>8. Bounded'
  BY Known, Numbers DEF IInv, Bounded, RecvExit, ExitComes, eggVars, inVars, attVars, keyVars, strVars, outVars, cliVars, recvFrame
<1>9. Past'
<2>1. \A c, h \in Clients : Behind(h, c) => Behind(h, c)'
  BY Numbers DEF Behind, RecvExit, ExitComes, eggVars, inVars, attVars, keyVars, strVars, outVars, cliVars, recvFrame
<2>2. \A c \in Clients : Current(c)' => Current(c)
  BY DEF Current, Controls, RecvExit, ExitComes, eggVars, inVars, attVars, keyVars, strVars, outVars, cliVars, recvFrame
<2>3. \A h \in Clients : out'[h] # "none" => out[h] # "none"
  BY Known DEF RecvExit, ExitComes, Set, eggVars, inVars, attVars, keyVars, strVars, outVars, cliVars, recvFrame
<2>4. \A c \in Clients : pos'[c] # -1 \/ stream'[c] = "open" => pos[c] # -1 \/ stream[c] = "open"
  BY Known DEF RecvExit, ExitComes, Set, eggVars, inVars, attVars, keyVars, strVars, outVars, cliVars, recvFrame
<2>5. viewers' = viewers
  BY DEF RecvExit, ExitComes, eggVars, inVars, attVars, keyVars, strVars, outVars, cliVars, recvFrame
<2> QED
  BY <2>1, <2>2, <2>3, <2>4, <2>5 DEF IInv, Past
<1>10. Given'
  BY Known, Numbers DEF IInv, Given, Replayed, Uses, Set, RecvExit, ExitComes, eggVars, inVars, attVars, keyVars, strVars, outVars, cliVars, recvFrame
<1>11. Lent'
  BY Known, Numbers DEF IInv, Lent, Uses, Set, RecvExit, ExitComes, eggVars, inVars, attVars, keyVars, strVars, outVars, cliVars, recvFrame
<1>12. InStep'
<2>1. Keyed(g) => Got(g, produced)
  BY Numbers DEF IInv, InStep, Caught, RecvExit, ExitComes
<2>2. Caught(g)'
  BY <2>1, Known DEF Caught, Got, Keyed, RecvExit, Set, eggVars, inVars, attVars, keyVars, strVars, outVars, cliVars, recvFrame
<2>3. ASSUME NEW c \in Clients, c # g  PROVE  Caught(c)'
  <3>1. Caught(c) /\ (Keyed(c)' => Keyed(c)) /\ (Gets(c)' => Gets(c))
    BY DEF IInv, InStep, Keyed, Gets, RecvExit, eggVars, inVars, attVars, keyVars, strVars, outVars, cliVars, recvFrame
  <3> QED  BY <2>3, <3>1, Known, CaughtStays DEF RecvExit, Set, eggVars, inVars, attVars, keyVars, strVars, outVars, cliVars, recvFrame
<2> QED  BY <2>2, <2>3 DEF InStep
<1>13. Begins'
  BY Known, Numbers DEF IInv, Begins, Set, RecvExit, ExitComes, eggVars, inVars, attVars, keyVars, strVars, outVars, cliVars, recvFrame
<1>14. OwnStreamExact'
  BY DEF IInv, OwnStreamExact, RecvExit, ExitComes, eggVars, inVars, attVars, keyVars, strVars, outVars, cliVars, recvFrame
<1> QED  BY <1>1, <1>2, <1>3, <1>4, <1>5, <1>6, <1>7, <1>8, <1>9, <1>10, <1>11, <1>12, <1>13, <1>14 DEF IInv

LEMMA TakeKeyInv ==
    ASSUME IInv, NEW g \in Clients, TakeKey(g)
    PROVE  IInv'
<1>n. out[g] = "holds" /\ UNCHANGED <<eggVars, inVars, attVars, keyVars, strVars, cliVars, over>>
  BY DEF TakeKey
<1>k. PICK k \in Keys : k = IF g \in viewers THEN key[g] ELSE gcm
  BY Known
<1>s. \/ /\ k = NoKey /\ key' = key
         /\ out' = [out EXCEPT ![g] = "recv"] /\ item' = [item EXCEPT ![g] = NoItem]
      \/ /\ k # NoKey /\ item' = item
         /\ out' = [out EXCEPT ![g] = "send"] /\ key' = [key EXCEPT ![g] = k]
  BY <1>k DEF TakeKey, Set
<1>o. \A c \in Clients : c # g => item'[c] = item[c] /\ out'[c] = out[c] /\ key'[c] = key[c]
  BY <1>s, Known
<1>p. \/ k = NoKey /\ out'[g] = "recv" /\ key'[g] = key[g]
      \/ k # NoKey /\ out'[g] = "send" /\ key'[g] = k /\ item'[g] = item[g]
  BY <1>s, Known
<1>w. g \in viewers => key[g] \in {g, NoKey}
  BY DEF IInv, Apart
<1>1. Types'
<2>1. /\ out' \in [Clients -> {"none", "recv", "holds", "send", "exit", "gone"}]
      /\ item' \in [Clients -> Item] /\ key' \in [Clients -> Keys]
  <3>1. NoItem \in Item
    BY DEF NoItem, Item
  <3> QED  BY <1>s, <3>1, Known
<2> QED  BY <1>n, <2>1 DEF IInv, Types, TypeOK, eggVars, inVars, attVars, keyVars, strVars, outVars, cliVars, recvFrame
<1>2. Asked'
  BY <1>n DEF IInv, Asked, inVars
<1>3. Fresh'
<2>1. ASSUME NEW h \in Clients, h > clients \/ Waiting(h)  PROVE  Untouched(h)'
  <3>1. Untouched(h) /\ h # g
    BY <1>n, <2>1, Serving DEF IInv, Fresh
  <3>2. k # h
    BY <1>k, <3>1 DEF Untouched
  <3>3. \A x \in Clients : key'[x] # h
    BY <1>o, <1>p, <3>1, <3>2 DEF Untouched
  <3> QED  BY <1>n, <1>o, <3>1, <3>3 DEF Untouched, eggVars, inVars, attVars, keyVars, strVars, outVars, cliVars, recvFrame
<2> QED  BY <1>n, <2>1 DEF Fresh, Waiting, inVars
<1>4. Handling'
<2>1. pc \in Attaching => /\ req.g # g /\ out'[req.g] = out[req.g]
                          /\ \A h \in Clients : key'[h] # req.g
  <3>1. ASSUME pc \in Attaching
        PROVE  req.g # g /\ gcm # req.g /\ \A h \in Clients : key[h] # req.g
    BY <1>n, <3>1, Serving DEF IInv, Handling
  <3>2. ASSUME pc \in Attaching  PROVE  k # req.g
    BY <1>k, <3>1, <3>2
  <3> QED  BY <1>o, <1>p, <3>1, <3>2, Known
<2> QED  BY <1>n, <2>1 DEF IInv, Handling, Controls, Waiting, eggVars, inVars, attVars, keyVars, strVars, outVars, cliVars, recvFrame
<1>5. Progress'
<2>1. pc \in Attaching => req.g # g
  BY <1>n, Serving
<2> QED  BY <1>n, <1>o, <2>1, Known DEF IInv, Progress, Attaching, eggVars, inVars, attVars, keyVars, strVars, outVars, cliVars, recvFrame
<1>6. Apart'
<2>1. \A v \in viewers : key'[v] \in {v, NoKey}
  BY <1>k, <1>o, <1>p, <1>w, Known DEF IInv, Apart
<2>2. \A c \in Clients : out'[c] = "none" <=> out[c] = "none"
  BY <1>n, <1>o, <1>p
<2> QED  BY <1>n, <2>1, <2>2, Known DEF IInv, Apart, eggVars, inVars, attVars, keyVars, strVars, outVars, cliVars, recvFrame
<1>7. Items'
  BY <1>n, <1>o, <1>p DEF IInv, Items, eggVars, inVars, attVars, keyVars, strVars, outVars, cliVars, recvFrame
<1>8. Bounded'
  BY Known, Numbers DEF IInv, Bounded, TakeKey, eggVars, inVars, attVars, keyVars, strVars, outVars, cliVars, recvFrame
<1>9. Past'
<2>1. \A c, h \in Clients : Behind(h, c) => Behind(h, c)'
  BY Numbers DEF Behind, TakeKey, eggVars, inVars, attVars, keyVars, strVars, outVars, cliVars, recvFrame
<2>2. \A c \in Clients : Current(c)' => Current(c)
  BY DEF Current, Controls, TakeKey, eggVars, inVars, attVars, keyVars, strVars, outVars, cliVars, recvFrame
<2>3. \A h \in Clients : out'[h] # "none" => out[h] # "none"
  BY Known DEF TakeKey, Set, eggVars, inVars, attVars, keyVars, strVars, outVars, cliVars, recvFrame
<2>4. \A c \in Clients : pos'[c] # -1 \/ stream'[c] = "open" => pos[c] # -1 \/ stream[c] = "open"
  BY Known DEF TakeKey, Set, eggVars, inVars, attVars, keyVars, strVars, outVars, cliVars, recvFrame
<2>5. viewers' = viewers
  BY DEF TakeKey, eggVars, inVars, attVars, keyVars, strVars, outVars, cliVars, recvFrame
<2> QED
  BY <2>1, <2>2, <2>3, <2>4, <2>5 DEF IInv, Past
<1>10. Given'
<2>1. \A h, c \in Clients : Uses(h, c)' => Uses(h, c) \/ gcm = c
  BY <1>n, <1>k, <1>o, <1>p DEF Uses, inVars
<2> QED  BY <1>n, <2>1 DEF IInv, Given, Replayed, eggVars, inVars, attVars, keyVars, strVars, outVars, cliVars, recvFrame
<1>11. Lent'
<2>1. ASSUME NEW h \in Clients, NEW c \in Clients, Uses(h, c)', h # c
      PROVE  c # 0 /\ (pos[c] # -1 => item'[h].hi <= base[c])
  <3>1. CASE h # g
    <4>1. Uses(h, c)
      BY <1>n, <1>o, <2>1, <3>1 DEF Uses, inVars
    <4> QED  BY <1>o, <2>1, <3>1, <4>1 DEF IInv, Lent
  <3>2. CASE h = g
    <4>1. g \notin viewers /\ gcm = c /\ item'[g] = item[g] /\ c # NoKey
      BY <1>n, <1>k, <1>p, <2>1, <3>2, Known DEF Uses, inVars
    <4>2. c # 0 /\ c = active /\ c \notin viewers
      BY <1>n, <2>1, <3>2, <4>1 DEF IInv, Apart
    <4>3. item[g].hi = pos[g]
      BY <1>n DEF IInv, Items
    <4>4. pos[c] # -1 => pos[g] <= base[c]
      BY <1>n, <2>1, <3>2, <4>1, <4>2 DEF IInv, Past, Current, Behind
    <4> QED  BY <3>2, <4>1, <4>2, <4>3, <4>4
  <3> QED  BY <3>1, <3>2
<2> QED  BY <1>n, <2>1 DEF Lent, strVars
<1>12. InStep'
<2>1. ASSUME NEW c \in Clients, c # g  PROVE  Caught(c)'
  <3>1. Caught(c) /\ (Keyed(c)' => Keyed(c)) /\ (Gets(c)' => Gets(c))
    BY <1>n, <1>o, <2>1 DEF IInv, InStep, Keyed, Gets, eggVars, inVars, attVars, keyVars, strVars, outVars, cliVars, recvFrame
  <3> QED  BY <1>n, <1>o, <2>1, <3>1, CaughtStays DEF eggVars, inVars, attVars, keyVars, strVars, outVars, cliVars, recvFrame
<2>2. Keyed(g) => Got(g, item[g].lo - 1)
  BY <1>n DEF IInv, InStep, Caught
<2>3. CASE k = NoKey
  <3>1. ~Keyed(g)'
    BY <1>n, <1>k, <1>p, <2>3, Known DEF Keyed, eggVars, inVars, attVars, keyVars, strVars, outVars, cliVars, recvFrame
  <3> QED  BY <1>p, <2>3, <3>1, <2>1 DEF Caught, InStep
<2>4. CASE k # NoKey
  <3>1. Keyed(g)' => key'[g] = g
    BY <1>n, <1>k, <1>p, <2>4 DEF Keyed, eggVars, inVars, attVars, keyVars, strVars, outVars, cliVars, recvFrame
  <3>2. Gets(g)' => Keyed(g)
    BY <1>n, <1>k, <1>p, <2>4 DEF Keyed, Gets, eggVars, inVars, attVars, keyVars, strVars, outVars, cliVars, recvFrame
  <3>3. Got(g, item[g].lo - 1) => Reaches(seen'[g], g, Len(seen'[g]), item'[g].lo - 1)
    BY <1>n, <1>p, <2>4 DEF Got, cliVars
  <3>4. Caught(g)'
    BY <1>p, <2>2, <2>4, <3>1, <3>2, <3>3 DEF Caught, Got
  <3> QED  BY <2>1, <3>4 DEF InStep
<2> QED  BY <2>3, <2>4
<1>13. Begins'
  BY Known, Numbers DEF IInv, Begins, Set, TakeKey, eggVars, inVars, attVars, keyVars, strVars, outVars, cliVars, recvFrame
<1>14. OwnStreamExact'
  BY DEF IInv, OwnStreamExact, TakeKey, eggVars, inVars, attVars, keyVars, strVars, outVars, cliVars, recvFrame
<1> QED  BY <1>1, <1>2, <1>3, <1>4, <1>5, <1>6, <1>7, <1>8, <1>9, <1>10, <1>11, <1>12, <1>13, <1>14 DEF IInv

LEMMA SendInv ==
    ASSUME IInv, NEW g \in Clients, Send(g)
    PROVE  IInv'
<1>n. /\ out[g] = "send" /\ out' = [out EXCEPT ![g] = "recv"] /\ item' = [item EXCEPT ![g] = NoItem]
      /\ key' = [key EXCEPT ![g] = IF g \in viewers THEN key[g] ELSE NoKey]
      /\ UNCHANGED <<eggVars, inVars, attVars, keyVars, strVars, started, over>>
  BY DEF Send, Set
<1>o. /\ \A c \in Clients : c # g => item'[c] = item[c] /\ out'[c] = out[c] /\ key'[c] = key[c]
      /\ out'[g] = "recv" /\ key'[g] = IF g \in viewers THEN key[g] ELSE NoKey
  BY <1>n, Known
<1>i. /\ pos[g] = item[g].hi /\ item[g].lo >= 1 /\ item[g].lo <= item[g].hi + 1
      /\ item[g].lo \in Nat /\ item[g].hi \in Nat /\ seen \in [Clients -> Seq(Message)]
  BY <1>n, Numbers DEF IInv, Items, Types
<1>m. PICK m : m = [src |-> g, lo |-> item[g].lo, hi |-> item[g].hi]
  OBVIOUS
<1>t. m \in Message /\ m.src = g /\ m.lo = item[g].lo /\ m.hi = item[g].hi
  BY <1>i, <1>m DEF Message
<1>c. PICK r \in Keys : r = key[g]
  BY Known
<1>d. r \in Clients /\ r = key[g]
  BY <1>n, <1>c, Known DEF IInv, Items
<1>s. \/ /\ seen' = [seen EXCEPT ![r] = Append(@, m)]
         /\ item[g].lo <= item[g].hi /\ (IF g \in viewers THEN r = g ELSE r = started)
      \/ /\ seen' = seen
         /\ item[g].hi < item[g].lo \/ ~(IF g \in viewers THEN r = g ELSE r = started)
  <2>1. PICK k : k = IF g \in viewers THEN g ELSE started
    OBVIOUS
  <2>2. seen' = IF item[g].hi < item[g].lo \/ k # r THEN seen ELSE [seen EXCEPT ![k] = Append(@, m)]
    BY <1>m, <1>c, <2>1 DEF Send, Deliver
  <2>3. ~(item[g].hi < item[g].lo) => item[g].lo <= item[g].hi
    BY <1>i
  <2> QED  BY <2>1, <2>2, <2>3
<1>u. \A c \in Clients : seen'[c] = seen[c] \/ (c = r /\ seen'[c] = Append(seen[c], m))
  BY <1>s, <1>i, <1>d
<1>v. started \notin viewers /\ gcm \notin viewers /\ (g \in viewers => r = g)
  BY <1>d, Known DEF IInv, Apart
<1>1. Types'
<2>1. /\ out' \in [Clients -> {"none", "recv", "holds", "send", "exit", "gone"}]
      /\ item' \in [Clients -> Item] /\ key' \in [Clients -> Keys]
  <3>1. NoItem \in Item
    BY DEF NoItem, Item
  <3> QED  BY <1>n, <3>1, Known
<2>2. seen' \in [Clients -> Seq(Message)]
  <3>1. seen[r] \in Seq(Message)
    BY <1>d, <1>i
  <3>2. Append(seen[r], m) \in Seq(Message)
    BY <3>1, <1>t
  <3> QED  BY <1>s, <1>i, <3>2
<2> QED  BY <1>n, <2>1, <2>2 DEF IInv, Types, TypeOK, eggVars, inVars, attVars, keyVars, strVars, outVars, cliVars, recvFrame
<1>2. Asked'
  BY <1>n DEF IInv, Asked, inVars
<1>3. Fresh'
<2>1. ASSUME NEW h \in Clients, h > clients \/ Waiting(h)  PROVE  Untouched(h)'
  <3>1. Untouched(h) /\ h # g
    BY <1>n, <2>1, Serving DEF IInv, Fresh
  <3>2. h # r /\ h # NoKey
    BY <1>d, <3>1, Known DEF Untouched
  <3>3. seen'[h] = seen[h] /\ \A x \in Clients : key'[x] # h
    BY <1>o, <1>u, <3>1, <3>2 DEF Untouched
  <3> QED  BY <1>n, <1>o, <3>1, <3>3 DEF Untouched, eggVars, inVars, attVars, keyVars, strVars, outVars, cliVars, recvFrame
<2> QED  BY <1>n, <2>1 DEF Fresh, Waiting, inVars
<1>4. Handling'
<2>1. pc \in Attaching => /\ req.g # g /\ out'[req.g] = out[req.g]
                          /\ \A h \in Clients : key'[h] # req.g
  <3>1. ASSUME pc \in Attaching
        PROVE  req.g # g /\ \A h \in Clients : key[h] # req.g
    BY <1>n, <3>1, Serving DEF IInv, Handling
  <3> QED  BY <1>o, <3>1, Known
<2> QED  BY <1>n, <2>1 DEF IInv, Handling, Controls, Waiting, eggVars, inVars, attVars, keyVars, strVars, outVars, cliVars, recvFrame
<1>5. Progress'
<2>1. ASSUME pc \in Attaching
      PROVE  item'[req.g] = item[req.g] /\ seen'[req.g] = seen[req.g]
  <3>1. req.g # g /\ key[g] # req.g
    BY <1>n, <2>1, Serving DEF IInv, Handling
  <3> QED  BY <1>o, <1>u, <1>d, <3>1, Known
<2> QED  BY <1>n, <2>1 DEF IInv, Progress, Attaching, eggVars, inVars, attVars, keyVars, strVars, outVars, cliVars, recvFrame
<1>6. Apart'
<2>1. \A v \in viewers : key'[v] \in {v, NoKey}
  BY <1>o, Known DEF IInv, Apart
<2>2. \A c \in Clients : out'[c] = "none" <=> out[c] = "none"
  BY <1>n, <1>o
<2> QED  BY <1>n, <2>1, <2>2, Known DEF IInv, Apart, eggVars, inVars, attVars, keyVars, strVars, outVars, cliVars, recvFrame
<1>7. Items'
  BY <1>n, <1>o DEF IInv, Items, eggVars, inVars, attVars, keyVars, strVars, outVars, cliVars, recvFrame
<1>8. Bounded'
  BY Known, Numbers DEF IInv, Bounded, Send, Deliver, eggVars, inVars, attVars, keyVars, strVars, outVars, cliVars, recvFrame
<1>9. Past'
<2>1. \A c, h \in Clients : Behind(h, c) => Behind(h, c)'
  BY Numbers DEF Behind, Send, eggVars, inVars, attVars, keyVars, strVars, outVars, cliVars, recvFrame
<2>2. \A c \in Clients : Current(c)' => Current(c)
  BY DEF Current, Controls, Send, eggVars, inVars, attVars, keyVars, strVars, outVars, cliVars, recvFrame
<2>3. \A h \in Clients : out'[h] # "none" => out[h] # "none"
  BY Known DEF Send, Set, eggVars, inVars, attVars, keyVars, strVars, outVars, cliVars, recvFrame
<2>4. \A c \in Clients : pos'[c] # -1 \/ stream'[c] = "open" => pos[c] # -1 \/ stream[c] = "open"
  BY Known DEF Send, Set, eggVars, inVars, attVars, keyVars, strVars, outVars, cliVars, recvFrame
<2>5. viewers' = viewers
  BY DEF Send, eggVars, inVars, attVars, keyVars, strVars, outVars, cliVars, recvFrame
<2> QED
  BY <2>1, <2>2, <2>3, <2>4, <2>5 DEF IInv, Past
<1>10. Given'
<2>1. \A h, c \in Clients : Uses(h, c)' => Uses(h, c)
  BY <1>n, <1>o DEF Uses, inVars
<2>2. \A c \in Clients : seen[c] # <<>> => seen'[c] # <<>>
  <3>1. ASSUME NEW c \in Clients, seen'[c] = Append(seen[c], m)  PROVE  seen'[c] # <<>>
    <4>1. PICK s \in Seq(Message) : s = seen[c]
      BY <1>i
    <4>2. Len(Append(s, m)) = Len(s) + 1 /\ Len(s) \in Nat /\ Len(<<>>) = 0
      BY <1>t
    <4>3. Append(s, m) # <<>>
      BY <4>2
    <4> QED  BY <3>1, <4>1, <4>3
  <3> QED  BY <1>u, <3>1
<2> QED  BY <1>n, <2>1, <2>2 DEF IInv, Given, Replayed, eggVars, inVars, attVars, keyVars, strVars, outVars, cliVars, recvFrame
<1>11. Lent'
<2>1. \A h, c \in Clients : Uses(h, c)' => Uses(h, c) /\ h # g
  BY <1>n, <1>o DEF Uses, inVars
<2> QED  BY <1>n, <1>o, <2>1 DEF IInv, Lent, strVars
<1>12. InStep'
<2>1. ASSUME NEW c \in Clients, c # g  PROVE  Caught(c)'
  <3>1. Caught(c) /\ (Keyed(c)' => Keyed(c)) /\ (Gets(c)' => Gets(c))
    BY <1>n, <1>o, <2>1 DEF IInv, InStep, Keyed, Gets, eggVars, inVars, attVars, keyVars, strVars, outVars, cliVars, recvFrame
  <3>2. ASSUME NEW n, Got(c, n)  PROVE  Reaches(seen'[c], c, Len(seen'[c]), n)
    <4>1. CASE seen'[c] = seen[c]
      BY <3>2, <4>1 DEF Got
    <4>2. CASE seen'[c] = Append(seen[c], m)
      BY <1>i, <1>t, <2>1, <3>2, <4>2, ReachesOther DEF Got
    <4> QED  BY <1>u, <4>1, <4>2
  <3> QED  BY <1>n, <1>o, <2>1, <3>1, <3>2, CaughtGrows DEF eggVars, inVars, attVars, keyVars, strVars, outVars, cliVars, recvFrame
<2>2. ASSUME Keyed(g)'  PROVE  Reaches(seen'[g], g, Len(seen'[g]), pos[g])
  <3>1. Keyed(g)
    BY <1>n, <1>o, <2>2 DEF Keyed, eggVars, inVars, attVars, keyVars, strVars, outVars, cliVars, recvFrame
  <3>2. r = g /\ Gets(g) /\ (g \notin viewers => r = started)
    BY <1>n, <1>d, <3>1 DEF IInv, InStep, Caught, Keyed, Gets
  <3>3. Got(g, item[g].lo - 1)
    BY <1>n, <3>2 DEF IInv, InStep, Caught
  <3>4. CASE item[g].lo <= item[g].hi
    <4>1. seen'[g] = Append(seen[g], m)
      BY <1>s, <1>i, <1>d, <3>2, <3>4
    <4> QED  BY <1>i, <1>t, <4>1, ReachesOwn
  <3>5. CASE ~(item[g].lo <= item[g].hi)
    <4>1. seen'[g] = seen[g] /\ item[g].lo - 1 = pos[g]
      BY <1>s, <1>i, <3>5
    <4> QED  BY <3>3, <4>1 DEF Got
  <3> QED  BY <3>4, <3>5
<2>3. pos[g] # -1 /\ pos' = pos
  BY <1>n, <1>i DEF strVars
<2>4. Caught(g)'
  BY <1>o, <2>2, <2>3 DEF Caught, Got
<2> QED  BY <2>1, <2>4 DEF InStep
<1>13. Begins'
<2>1. ASSUME NEW c \in Clients, seen'[c] # <<>>
      PROVE  (pos[c] = -1 => stream[c] = "ended") /\ (pos[c] # -1 => seen'[c][1].lo = 1)
  <3>0. seen[c] \in Seq(Message)
    BY <1>i
  <3>1. CASE seen'[c] = seen[c]
    BY <2>1, <3>1 DEF IInv, Begins
  <3>2. CASE seen[c] # <<>> /\ seen'[c] = Append(seen[c], m)
    <4>1. seen'[c][1] = seen[c][1]
      BY <1>t, <3>0, <3>2
    <4> QED  BY <3>2, <4>1 DEF IInv, Begins
  <3>3. CASE seen[c] = <<>> /\ seen'[c] # seen[c]
    <4>1. /\ c = r /\ seen'[c] = Append(seen[c], m) /\ item[g].lo <= item[g].hi
          /\ IF g \in viewers THEN r = g ELSE r = started
      BY <1>s, <1>u, <3>3
    <4>2. seen'[c][1] = m
      BY <1>t, <3>3, <4>1
    <4>3. CASE c = g
      <5>1. Gets(g)
        BY <1>d, <4>1, <4>3 DEF Gets
      <5>2. Reaches(<<>>, g, 0, item[g].lo - 1)
        <6>1. Got(g, item[g].lo - 1)
          BY <1>n, <5>1 DEF IInv, InStep, Caught
        <6>2. Len(<<>>) = 0
          OBVIOUS
        <6> QED  BY <3>3, <4>3, <6>1, <6>2 DEF Got
      <5>3. item[g].lo - 1 = 0
        BY <5>2 DEF Reaches
      <5> QED  BY <1>i, <1>t, <4>2, <4>3, <5>3
    <4>4. CASE c # g
      <5>1. Uses(g, c) /\ started = c
        BY <1>n, <1>d, <1>v, <4>1, <4>4 DEF Uses
      <5>2. c # 0 /\ (pos[c] # -1 => item[g].hi <= base[c])
        BY <4>4, <5>1 DEF IInv, Lent
      <5>3. Replayed(c)
        BY <5>1, <5>2 DEF IInv, Given
      <5>4. pos[c] # -1 => base[c] > 0
        BY <1>i, <4>1, <5>2, Numbers
      <5> QED  BY <3>3, <5>1, <5>3, <5>4 DEF Replayed
    <4> QED  BY <4>3, <4>4
  <3> QED  BY <1>u, <3>1, <3>2, <3>3
<2> QED  BY <1>n, <2>1 DEF Begins, strVars
<1>14. OwnStreamExact'
<2>1. ASSUME NEW c \in Clients, NEW i \in DOMAIN seen'[c], seen'[c][i].src = c
      PROVE  Reaches(seen'[c], c, i - 1, seen'[c][i].lo - 1)
  <3>0. seen[c] \in Seq(Message)
    BY <1>i
  <3>1. CASE seen'[c] = seen[c]
    BY <2>1, <3>1 DEF IInv, OwnStreamExact
  <3>2. CASE seen'[c] # seen[c]
    <4>1. /\ c = r /\ seen'[c] = Append(seen[c], m) /\ IF g \in viewers THEN r = g ELSE r = started
      BY <1>s, <1>u, <3>2
    <4>2. /\ Len(seen[c]) \in Nat /\ i \in 1..Len(seen[c]) + 1
          /\ seen'[c][Len(seen[c]) + 1] = m
          /\ \A j \in 1..Len(seen[c]) : seen'[c][j] = seen[c][j]
      BY <1>t, <2>1, <3>0, <4>1
    <4>3. CASE i \in 1..Len(seen[c])
      <5>1. Reaches(seen[c], c, i - 1, seen[c][i].lo - 1)
        BY <2>1, <3>0, <4>2, <4>3 DEF IInv, OwnStreamExact
      <5>2. i - 1 \in 0..Len(seen[c]) /\ seen'[c][i] = seen[c][i]
        BY <4>2, <4>3
      <5> QED  BY <1>t, <3>0, <4>1, <5>1, <5>2, ReachesPrefix
    <4>4. CASE i = Len(seen[c]) + 1
      <5>1. c = g /\ Gets(g)
        BY <1>t, <1>d, <2>1, <4>1, <4>2, <4>4 DEF Gets
      <5>2. Reaches(seen[c], c, Len(seen[c]), item[g].lo - 1)
        BY <1>n, <5>1 DEF IInv, InStep, Caught, Got
      <5>3. i - 1 \in 0..Len(seen[c]) /\ i - 1 = Len(seen[c]) /\ seen'[c][i].lo = item[g].lo
        BY <1>t, <4>2, <4>4
      <5> QED  BY <1>t, <3>0, <4>1, <5>2, <5>3, ReachesPrefix
    <4> QED  BY <4>2, <4>3, <4>4
  <3> QED  BY <3>1, <3>2
<2> QED  BY <2>1 DEF OwnStreamExact
<1> QED  BY <1>1, <1>2, <1>3, <1>4, <1>5, <1>6, <1>7, <1>8, <1>9, <1>10, <1>11, <1>12, <1>13, <1>14 DEF IInv

LEMMA ReportExitInv ==
    ASSUME IInv, NEW g \in Clients, ReportExit(g)
    PROVE  IInv'
<1>1. Types'
  BY Sizes DEF IInv, Types, TypeOK, Req, Item, Message, Set, Dead, NoItem, NoReq, ReportExit, eggVars, inVars, attVars, keyVars, strVars, outVars, cliVars, recvFrame
<1>2. Asked'
  BY Sizes DEF IInv, Asked, ReportExit, eggVars, inVars, attVars, keyVars, strVars, outVars, cliVars, recvFrame
<1>3. Fresh'
  BY Known, Serving DEF IInv, Fresh, Untouched, Waiting, Set, Handling, Attaching, ReportExit, eggVars, inVars, attVars, keyVars, strVars, outVars, cliVars, recvFrame
<1>4. Handling'
  BY Known DEF IInv, Handling, Attaching, Waiting, Controls, Set, NoReq, ReportExit, eggVars, inVars, attVars, keyVars, strVars, outVars, cliVars, recvFrame
<1>5. Progress'
  BY Known, Numbers, Serving DEF IInv, Progress, Set, Attaching, ReportExit, eggVars, inVars, attVars, keyVars, strVars, outVars, cliVars, recvFrame
<1>6. Apart'
  BY Known DEF IInv, Apart, Set, ReportExit, eggVars, inVars, attVars, keyVars, strVars, outVars, cliVars, recvFrame
<1>7. Items'
  BY Known, Numbers DEF IInv, Items, Set, ReportExit, eggVars, inVars, attVars, keyVars, strVars, outVars, cliVars, recvFrame
<1>8. Bounded'
  BY Known, Numbers DEF IInv, Bounded, ReportExit, eggVars, inVars, attVars, keyVars, strVars, outVars, cliVars, recvFrame
<1>9. Past'
<2>1. \A c, h \in Clients : Behind(h, c) => Behind(h, c)'
  BY Numbers DEF Behind, ReportExit, eggVars, inVars, attVars, keyVars, strVars, outVars, cliVars, recvFrame
<2>2. \A c \in Clients : Current(c)' => Current(c)
  BY DEF Current, Controls, ReportExit, eggVars, inVars, attVars, keyVars, strVars, outVars, cliVars, recvFrame
<2>3. \A h \in Clients : out'[h] # "none" => out[h] # "none"
  BY Known DEF ReportExit, Set, eggVars, inVars, attVars, keyVars, strVars, outVars, cliVars, recvFrame
<2>4. \A c \in Clients : pos'[c] # -1 \/ stream'[c] = "open" => pos[c] # -1 \/ stream[c] = "open"
  BY Known DEF ReportExit, Set, eggVars, inVars, attVars, keyVars, strVars, outVars, cliVars, recvFrame
<2>5. viewers' = viewers
  BY DEF ReportExit, eggVars, inVars, attVars, keyVars, strVars, outVars, cliVars, recvFrame
<2> QED
  BY <2>1, <2>2, <2>3, <2>4, <2>5 DEF IInv, Past
<1>10. Given'
  BY Known, Numbers DEF IInv, Given, Replayed, Uses, Set, ReportExit, eggVars, inVars, attVars, keyVars, strVars, outVars, cliVars, recvFrame
<1>11. Lent'
  BY Known, Numbers DEF IInv, Lent, Uses, Set, ReportExit, eggVars, inVars, attVars, keyVars, strVars, outVars, cliVars, recvFrame
<1>12. InStep'
  BY Known, Numbers DEF IInv, InStep, Caught, Got, Gets, Keyed, Set, ReportExit, eggVars, inVars, attVars, keyVars, strVars, outVars, cliVars, recvFrame
<1>13. Begins'
  BY Known, Numbers DEF IInv, Begins, Set, ReportExit, eggVars, inVars, attVars, keyVars, strVars, outVars, cliVars, recvFrame
<1>14. OwnStreamExact'
  BY DEF IInv, OwnStreamExact, ReportExit, eggVars, inVars, attVars, keyVars, strVars, outVars, cliVars, recvFrame
<1> QED  BY <1>1, <1>2, <1>3, <1>4, <1>5, <1>6, <1>7, <1>8, <1>9, <1>10, <1>11, <1>12, <1>13, <1>14 DEF IInv

LEMMA StutterInv ==
    ASSUME IInv, UNCHANGED vars
    PROVE  IInv'
<1>1. Types'
  BY Sizes DEF IInv, Types, TypeOK, Req, Item, Message, Set, Dead, NoItem, NoReq, vars, eggVars, inVars, attVars, keyVars, strVars, outVars, cliVars, recvFrame
<1>2. Asked'
  BY Sizes DEF IInv, Asked, vars, eggVars, inVars, attVars, keyVars, strVars, outVars, cliVars, recvFrame
<1>3. Fresh'
  BY Known DEF IInv, Fresh, Untouched, Waiting, Set, Handling, Attaching, vars, eggVars, inVars, attVars, keyVars, strVars, outVars, cliVars, recvFrame
<1>4. Handling'
  BY Known DEF IInv, Handling, Attaching, Waiting, Controls, Set, NoReq, vars, eggVars, inVars, attVars, keyVars, strVars, outVars, cliVars, recvFrame
<1>5. Progress'
  BY Known, Numbers DEF IInv, Progress, Set, vars, eggVars, inVars, attVars, keyVars, strVars, outVars, cliVars, recvFrame
<1>6. Apart'
  BY Known DEF IInv, Apart, Set, vars, eggVars, inVars, attVars, keyVars, strVars, outVars, cliVars, recvFrame
<1>7. Items'
  BY Known, Numbers DEF IInv, Items, Set, vars, eggVars, inVars, attVars, keyVars, strVars, outVars, cliVars, recvFrame
<1>8. Bounded'
  BY Known, Numbers DEF IInv, Bounded, vars, eggVars, inVars, attVars, keyVars, strVars, outVars, cliVars, recvFrame
<1>9. Past'
  BY Known, Numbers DEF IInv, Past, Behind, Current, Attaching, Controls, Set, vars, eggVars, inVars, attVars, keyVars, strVars, outVars, cliVars, recvFrame
<1>10. Given'
  BY Known, Numbers DEF IInv, Given, Replayed, Uses, Set, vars, eggVars, inVars, attVars, keyVars, strVars, outVars, cliVars, recvFrame
<1>11. Lent'
  BY Known, Numbers DEF IInv, Lent, Uses, Set, vars, eggVars, inVars, attVars, keyVars, strVars, outVars, cliVars, recvFrame
<1>12. InStep'
  BY Known, Numbers DEF IInv, InStep, Caught, Got, Gets, Keyed, Set, vars, eggVars, inVars, attVars, keyVars, strVars, outVars, cliVars, recvFrame
<1>13. Begins'
  BY Known, Numbers DEF IInv, Begins, Set, vars, eggVars, inVars, attVars, keyVars, strVars, outVars, cliVars, recvFrame
<1>14. OwnStreamExact'
  BY DEF IInv, OwnStreamExact, vars, eggVars, inVars, attVars, keyVars, strVars, outVars, cliVars, recvFrame
<1> QED  BY <1>1, <1>2, <1>3, <1>4, <1>5, <1>6, <1>7, <1>8, <1>9, <1>10, <1>11, <1>12, <1>13, <1>14 DEF IInv

-----------------------------------------------------------------------------
(* The theorems *)

LEMMA InitInv == Init => IInv
<1> SUFFICES ASSUME Init  PROVE  IInv
  OBVIOUS
<1>1. /\ MaxOutput \in Nat /\ MaxClients \in Nat /\ InputCap \in Nat /\ Clients = 0..MaxClients /\ 0 \in Clients
      /\ Keys = Clients \union {NoKey} /\ NoKey \notin Clients /\ Clients \subseteq Nat
  BY WingAssumption DEF Clients, Keys, NoKey
<1>2. /\ input = <<>> /\ DOMAIN input = {} /\ Len(input) = 0 /\ input \in Seq(Req) /\ \A g : ~Waiting(g)
  BY DEF Init, Waiting
<1>3. NoItem \in Item /\ NoReq \in Req /\ pc = "idle" /\ pc \notin Attaching
  BY <1>1 DEF Init, NoItem, Item, NoReq, Req, Attaching
<1>4. Types
  <2>1. /\ base = [g \in Clients |-> 0] /\ pos = [g \in Clients |-> -1] /\ produced = 0
        /\ base \in [Clients -> Int] /\ pos \in [Clients -> Int]
        /\ \A g \in Clients : base[g] \in 0..produced /\ pos[g] \in -1..produced
    BY DEF Init
  <2>2. limit \in [Clients -> 0..MaxOutput+1]
    BY <1>1 DEF Init
  <2>3. seen \in [Clients -> Seq(Message)]
    BY DEF Init
  <2>4. /\ egg \in {"live", "exiting", "stopping", "gone", "crashed"}
        /\ pc \in {"idle", "announce", "connect", "replay", "resend", "activate", "gone"}
        /\ over \in BOOLEAN
    BY DEF Init
  <2>5. gcm \in Keys /\ started \in Keys
    BY <1>1 DEF Init
  <2>6. produced \in 0..MaxOutput /\ clients \in Clients /\ active \in Clients
    BY <1>1 DEF Init
  <2>7. input \in Seq(Req) /\ Len(input) <= InputCap
    BY <1>1, <1>2
  <2>8. req \in Req /\ cancelled \subseteq Clients /\ viewers \subseteq Clients
    BY <1>3 DEF Init
  <2>9. /\ stream \in [Clients -> {"none", "asked", "late", "open", "ended"}]
        /\ out \in [Clients -> {"none", "recv", "holds", "send", "exit", "gone"}]
    BY DEF Init
  <2>10. item \in [Clients -> Item] /\ key \in [Clients -> Keys]
    BY <1>1, <1>3 DEF Init
  <2> QED  BY <2>1, <2>2, <2>3, <2>4, <2>5, <2>6, <2>7, <2>8, <2>9, <2>10 DEF Types, TypeOK
<1>5. Asked
  BY <1>2 DEF Asked
<1>6. Fresh
  BY <1>1, <1>2 DEF Fresh, Untouched, Init
<1>7. Handling /\ Progress
  BY <1>3 DEF Handling, Progress, Init
<1>8. Apart
  BY <1>1 DEF Apart, Init
<1>9. Items
  BY DEF Items, Init
<1>10. Bounded /\ Past
  BY <1>3 DEF Bounded, Past, Current, Init
<1>11. Given /\ Lent
  <2>1. \A h, c : h \in Clients => ~Uses(h, c)
    BY DEF Uses, Init
  <2>2. gcm = 0 \/ gcm = NoKey
    BY DEF Init
  <2> QED  BY <1>1, <2>1, <2>2 DEF Given, Lent
<1>12. InStep
  <2>1. ASSUME NEW c \in Clients  PROVE  Got(c, 0) /\ pos[c] = -1 /\ out[c] \in {"none", "recv"}
    <3>1. seen[c] = <<>> /\ Len(<<>>) = 0
      BY DEF Init
    <3> QED  BY <3>1, ReachesNone DEF Got, Init
  <2> QED  BY <2>1 DEF InStep, Caught
<1>13. Begins /\ OwnStreamExact
  BY DEF Begins, OwnStreamExact, Init
<1> QED
  BY <1>4, <1>5, <1>6, <1>7, <1>8, <1>9, <1>10, <1>11, <1>12, <1>13 DEF IInv

LEMMA StepInv == IInv /\ [Next]_vars => IInv'
<1> SUFFICES ASSUME IInv, [Next]_vars  PROVE  IInv'
  OBVIOUS
<1>1. CASE Produces \/ Exits \/ Stops \/ Crashes
  BY <1>1, ProducesInv, ExitsInv, StopsInv, CrashesInv
<1>2. CASE Comes("attach") \/ Comes("spectate") \/ SendKill
  BY <1>2, ComesInv, SendKillInv
<1>3. CASE InputStep
  BY <1>3, TakeAttachInv, TakeSpectateInv, TakeKillInv, AnnounceInv, ConnectInv, ConnectFailsInv,
     GetReplayInv, NoReplayInv, SendReplayInv, ActivateInv DEF InputStep
<1>4. ASSUME NEW g \in Clients, EggStep(g)  PROVE  IInv'
  BY <1>4, SnapshotsInv, RefusesInv DEF EggStep
<1>5. ASSUME NEW g \in Clients, OutputStep(g)  PROVE  IInv'
  BY <1>5, RecvInv, RecvBreaksInv, RecvExitInv, TakeKeyInv, SendInv, ReportExitInv DEF OutputStep
<1>6. ASSUME UNCHANGED vars  PROVE  IInv'
  BY <1>6, StutterInv
<1> QED
  BY <1>1, <1>2, <1>3, <1>4, <1>5, <1>6 DEF Next, Finished

\* What IInv says is what the runs check.
LEMMA IInvSays == IInv => TypeOK /\ StreamsExact
<1> SUFFICES ASSUME IInv  PROVE  TypeOK /\ StreamsExact
  OBVIOUS
<1>1. ReplayFirst
  <2>1. ASSUME NEW c \in Clients, pos[c] # -1, seen[c] # <<>>  PROVE  Head(seen[c]).lo = 1
    <3>1. seen[c] \in Seq(Message) /\ seen[c][1].lo = 1
      BY <2>1 DEF IInv, Types, Begins
    <3>2. Head(seen[c]) = seen[c][1]
      BY <2>1, <3>1
    <3> QED  BY <3>1, <3>2
  <2> QED  BY <2>1 DEF ReplayFirst
<1>2. EndIsComplete
  BY DEF IInv, InStep, Caught, Got, EndIsComplete
<1> QED  BY <1>1, <1>2 DEF IInv, Types, StreamsExact

\* The variables keep their types, whatever browsers, egg and goroutines do.
THEOREM TypeCorrect == Spec => []TypeOK
<1>1. IInv /\ [Next]_vars => IInv'
  BY StepInv
<1>2. IInv => TypeOK
  BY IInvSays
<1> QED  BY <1>1, <1>2, InitInv, PTL DEF Spec

\* What a browser is sent after its pty.started begins with its replay, brings
\* of its own stream every chunk once and in order, and is complete when the
\* exit code comes: for any number of browsers that attach, spectate and attach
\* again under each other's hands, and any output (handlePTYSession, wing.go).
THEOREM StreamsAreExact == Spec => []StreamsExact
<1>1. IInv /\ [Next]_vars => IInv'
  BY StepInv
<1>2. IInv => StreamsExact
  BY IInvSays
<1> QED  BY <1>1, <1>2, InitInv, PTL DEF Spec
===============================================================================
