-------------------------- MODULE EnvironmentProofs -------------------------
(***************************************************************************)
(* Proofs about Environment for any number of callers, closers and         *)
(* endpoints and any authentication options.                               *)
(***************************************************************************)
EXTENDS Environment, TLAPS

(* A caller whose connection has been registered.                            *)
Registered == {"opened", "open", "done"} \cup Disconnecting

(* Only registered connections are known to the environment, are about to be *)
(* disconnected by a Finalize, or are being disconnected.                    *)
ConnsRegistered == \A c \in conns : pc[c] \in Registered
TodoRegistered == \A f \in Closers : \A c \in todo[f] : pc[c] \in Registered
VictimRegistered == \A a \in Actors : pc[a] \in Disconnecting => pc[victim[a]] \in Registered

(* An endpoint is dialled with no socket open from the one before.           *)
DialsAfresh == \A c \in Callers : pc[c] = "dial" => \A s \in sockets : s[1] # c

(* Disconnect takes a connection from conns after closing its socket.        *)
ClosedBeforeRemoved ==
    \A a \in Actors : pc[a] = "remove" => \A s \in sockets : s[1] # victim[a]

(* What the server must have accepted, and where it has.                     *)
Wanted == IF auth.mode = "CHALLENGE" \/ (auth.mode = "" /\ auth.key # "none")
          THEN "signature" ELSE "password"
Proven ==
    \A c \in Callers :
        /\ pc[c] = "answer" => Wanted = "signature"
        /\ pc[c] = "dialled" => proof[c] = Wanted

IInv ==
    /\ TypeOK /\ NoSocketLost /\ AuthenticatedAsConfigured
    /\ ConnsRegistered /\ TodoRegistered /\ VictimRegistered
    /\ DialsAfresh /\ ClosedBeforeRemoved /\ Proven

-----------------------------------------------------------------------------
(* Callers and closers are different goroutines, and nobody is none of them. *)
LEMMA Apart ==
    /\ \A c \in Callers : c \in Actors /\ c \notin Closers /\ c # Nobody
    /\ \A f \in Closers : f \in Actors /\ f \notin Callers
BY EnvironmentAssumption DEF Actors, Nobody

LEMMA EndpointRange == Endpoints \in Nat /\ 1 \in 1..Endpoints
<1>1. Endpoints \in Nat \ {0}
  BY EnvironmentAssumption, Zenon
<1> QED BY <1>1

LEMMA InitIInv == Init => IInv
<1> SUFFICES ASSUME Init PROVE IInv
  OBVIOUS
<1>1. TypeOK
  <2>1. connector \in BOOLEAN /\ envClosed \in BOOLEAN /\ panicked \in BOOLEAN
    BY Zenon DEF Init
  <2>2. pc \in [Actors -> CallerPC \cup CloserPC]
    BY DEF Init, CallerPC, CloserPC
  <2>3. \A a \in Actors : pc[a] = "idle"
    BY DEF Init
  <2>4. \A a \in Actors : pc[a] \in CallerPC /\ pc[a] \in CloserPC /\ pc[a] \notin Disconnecting
    BY <2>3 DEF CallerPC, CloserPC, Disconnecting
  <2>5. endpoint \in [Callers -> 1..Endpoints] /\ todo \in [Closers -> SUBSET Callers]
    BY EndpointRange DEF Init
  <2>6. /\ proof \in [Callers -> {"none", "password", "signature"}]
        /\ victim \in [Actors -> Callers \cup {Nobody}]
    BY DEF Init
  <2>7. auth \in AuthConfigs /\ conns = {} /\ closed = {} /\ sockets = {}
    BY DEF Init
  <2> QED BY <2>1, <2>2, <2>4, <2>5, <2>6, <2>7, Apart DEF TypeOK
<1>2. \A a \in Actors : pc[a] = "idle"
  BY DEF Init
<1> QED
  BY <1>1, <1>2, Apart
  DEF IInv, Init, NoSocketLost, AuthenticatedAsConfigured, ConnsRegistered, TodoRegistered,
      VictimRegistered, DialsAfresh, ClosedBeforeRemoved, Proven, Disconnecting

(* A step of an actor that only moves on: nothing but its own place changes, *)
(* and it goes nowhere the invariant asks something for.                     *)
LEMMA MovesOn ==
    ASSUME IInv, NEW a \in Actors, NEW label,
           pc' = [pc EXCEPT ![a] = label],
           a \in Callers => label \in CallerPC,
           a \in Closers => label \in CloserPC,
           label \notin Disconnecting \cup {"dial", "answer", "dialled"},
           a \in Callers /\ pc[a] \in Registered => label \in Registered,
           a \in Callers /\ pc[a] \in Dialling => label \in Dialling,
           UNCHANGED <<auth, conns, endpoint, sockets, proof, todo, victim>>,
           connector' \in BOOLEAN, envClosed' \in BOOLEAN, panicked' \in BOOLEAN,
           closed' \subseteq Callers
    PROVE  IInv'
<1> USE DEF IInv
<1>1. TypeOK'
  BY Apart DEF TypeOK, Actors
<1>2. NoSocketLost'
  BY Apart DEF TypeOK, NoSocketLost
<1>3. AuthenticatedAsConfigured'
  BY DEF AuthenticatedAsConfigured
<1>4. ConnsRegistered' /\ TodoRegistered'
  BY Apart DEF TypeOK, ConnsRegistered, TodoRegistered
<1>5. VictimRegistered'
  BY Apart DEF TypeOK, VictimRegistered
<1>6. DialsAfresh' /\ ClosedBeforeRemoved' /\ Proven'
  BY Apart DEF TypeOK, DialsAfresh, ClosedBeforeRemoved, Proven, Wanted, Disconnecting
<1> QED BY <1>1, <1>2, <1>3, <1>4, <1>5, <1>6

(* An endpoint has failed: the caller goes on with the next one, or gives    *)
(* up, and has no socket left (dialNative).                                  *)
LEMMA EndpointFails ==
    ASSUME IInv, NEW c \in Callers, pc[c] \in Dialling, NextEndpoint(c),
           sockets' \subseteq sockets, \A s \in sockets : s \in sockets' <=> s[1] # c,
           proof' \in [Callers -> {"none", "password", "signature"}],
           \A d \in Callers : d # c => proof'[d] = proof[d],
           UNCHANGED <<auth, connector, envClosed, conns, closed, todo, victim, panicked>>
    PROVE  IInv'
<1> USE DEF IInv
<1>1. PICK label \in {"dial", "error"} : pc' = [pc EXCEPT ![c] = label]
  BY DEF NextEndpoint, Goto
<1>2. /\ endpoint' \in [Callers -> 1..Endpoints]
      /\ \A d \in Callers : d # c => endpoint'[d] = endpoint[d]
  <2>1. endpoint \in [Callers -> 1..Endpoints]
    BY DEF TypeOK
  <2>2. CASE endpoint[c] < Endpoints /\ endpoint' = [endpoint EXCEPT ![c] = @ + 1]
    BY <2>1, <2>2, EndpointRange
  <2>3. CASE UNCHANGED endpoint
    BY <2>1, <2>3
  <2> QED BY <2>2, <2>3 DEF NextEndpoint
<1>3. /\ c \in Actors /\ c \notin conns /\ \A f \in Closers : c \notin todo[f]
      /\ pc[c] \notin Registered /\ pc[c] \notin Disconnecting
  BY Apart DEF ConnsRegistered, TodoRegistered, Registered, Dialling, Disconnecting
<1>4. \A a \in Actors : a # c => pc'[a] = pc[a]
  BY <1>1 DEF TypeOK
<1>5. pc'[c] = label /\ label \in CallerPC /\ label \notin Disconnecting
  BY <1>1, <1>3 DEF TypeOK, CallerPC, Dialling, Disconnecting
<1>6. TypeOK'
  <2>1. pc' \in [Actors -> CallerPC \cup CloserPC]
    BY <1>1, <1>5 DEF TypeOK
  <2>2. /\ \A d \in Callers : pc'[d] \in CallerPC
        /\ \A f \in Closers : pc'[f] \in CloserPC
    BY <1>4, <1>5, Apart DEF TypeOK
  <2>3. \A a \in Actors : pc'[a] \in Disconnecting => victim'[a] # Nobody
    BY <1>4, <1>5 DEF TypeOK
  <2>4. sockets' \subseteq Callers \X (1..Endpoints)
    BY DEF TypeOK
  <2> QED BY <1>2, <2>1, <2>2, <2>3, <2>4 DEF TypeOK
<1>7. NoSocketLost'
  <2> SUFFICES ASSUME NEW s \in sockets'
               PROVE  s[2] = endpoint'[s[1]] /\ (pc'[s[1]] \in Dialling \/ s[1] \in conns')
    BY DEF NoSocketLost
  <2>1. s \in sockets /\ s[1] # c /\ s[1] \in Callers
    BY DEF TypeOK
  <2> QED BY <1>2, <1>4, <2>1, Apart DEF NoSocketLost
<1>8. AuthenticatedAsConfigured'
  BY <1>3 DEF AuthenticatedAsConfigured, TypeOK
<1>9. ConnsRegistered' /\ TodoRegistered'
  BY <1>3, <1>4, Apart DEF ConnsRegistered, TodoRegistered, TypeOK
<1>10. VictimRegistered'
  BY <1>3, <1>4, <1>5, Apart DEF VictimRegistered, TypeOK
<1>11. DialsAfresh' /\ ClosedBeforeRemoved'
  BY <1>4, <1>5, Apart DEF DialsAfresh, ClosedBeforeRemoved, TypeOK, Disconnecting
<1>12. Proven'
  BY <1>4, <1>5, Apart DEF Proven, Wanted
<1> QED BY <1>6, <1>7, <1>8, <1>9, <1>10, <1>11, <1>12

(* Closing the socket of a caller leaves it none, unless it had none anyway. *)
LEMMA OneSocket ==
    ASSUME IInv, NEW c \in Callers, sockets' = sockets \ {Socket(c)}
    PROVE  sockets' \subseteq sockets /\ \A s \in sockets : s \in sockets' <=> s[1] # c
<1>1. ASSUME NEW s \in sockets, s[1] = c PROVE s = Socket(c)
  BY <1>1 DEF IInv, TypeOK, NoSocketLost, Socket
<1>2. Socket(c)[1] = c
  BY DEF Socket
<1> QED BY <1>1, <1>2

(* A caller goes on within the dial.                                         *)
LEMMA DialGoesOn ==
    ASSUME IInv, NEW c \in Callers, NEW label,
           label \in {"dial", "handshake", "connect", "answer", "dialled"},
           pc[c] \in Dialling \cup {"checked"}, Goto(c, label),
           label = "dial" => pc[c] = "checked",
           label = "answer" => Wanted = "signature",
           label = "dialled" => proof'[c] = Wanted,
           sockets' \subseteq sockets \cup {Socket(c)}, sockets \subseteq sockets',
           label = "dial" => sockets' = sockets,
           proof' \in [Callers -> {"none", "password", "signature"}],
           \A d \in Callers : d # c => proof'[d] = proof[d],
           UNCHANGED <<auth, connector, envClosed, conns, endpoint, closed, todo, victim, panicked>>
    PROVE  IInv'
<1> USE DEF IInv
<1>1. /\ c \in Actors /\ c \notin conns /\ \A f \in Closers : c \notin todo[f]
      /\ pc[c] \notin Registered /\ pc[c] \notin Disconnecting
  BY Apart DEF ConnsRegistered, TodoRegistered, Registered, Dialling, Disconnecting
<1>2. /\ \A a \in Actors : a # c => pc'[a] = pc[a]
      /\ pc'[c] = label /\ label \in CallerPC /\ label \in Dialling /\ label \notin Disconnecting
  BY <1>1 DEF TypeOK, Goto, CallerPC, Dialling, Disconnecting
<1>3. TypeOK'
  <2>1. pc' \in [Actors -> CallerPC \cup CloserPC]
    BY <1>2 DEF TypeOK, Goto
  <2>2. /\ \A d \in Callers : pc'[d] \in CallerPC
        /\ \A f \in Closers : pc'[f] \in CloserPC
    BY <1>2, Apart DEF TypeOK
  <2>3. \A a \in Actors : pc'[a] \in Disconnecting => victim'[a] # Nobody
    BY <1>2 DEF TypeOK
  <2>4. sockets' \subseteq Callers \X (1..Endpoints)
    BY DEF TypeOK, Socket
  <2> QED BY <2>1, <2>2, <2>3, <2>4 DEF TypeOK
<1>4. NoSocketLost'
  <2> SUFFICES ASSUME NEW s \in sockets'
               PROVE  s[2] = endpoint[s[1]] /\ (pc'[s[1]] \in Dialling \/ s[1] \in conns)
    BY DEF NoSocketLost
  <2>1. CASE s = Socket(c)
    BY <1>2, <2>1 DEF Socket
  <2>2. CASE s \in sockets
    BY <1>2, <2>2, Apart DEF NoSocketLost, TypeOK
  <2> QED BY <2>1, <2>2
<1>5. AuthenticatedAsConfigured'
  BY <1>1 DEF AuthenticatedAsConfigured, TypeOK
<1>6. ConnsRegistered' /\ TodoRegistered'
  BY <1>1, <1>2, Apart DEF ConnsRegistered, TodoRegistered, TypeOK
<1>7. VictimRegistered'
  BY <1>1, <1>2, Apart DEF VictimRegistered, TypeOK
<1>8. DialsAfresh'
  <2>1. pc[c] = "checked" => \A s \in sockets : s[1] # c
    BY <1>1 DEF NoSocketLost, Dialling
  <2>2. \A s \in sockets' : s \in sockets \/ s[1] = c
    BY DEF Socket
  <2> QED BY <1>2, <2>1, <2>2, Apart DEF DialsAfresh
<1>9. ClosedBeforeRemoved'
  <2> SUFFICES ASSUME NEW a \in Actors, pc'[a] = "remove", NEW s \in sockets', s[1] = victim[a]
               PROVE  FALSE
    BY DEF ClosedBeforeRemoved
  <2>1. a # c /\ pc[a] = "remove"
    BY <1>2 DEF Disconnecting
  <2>2. pc[victim[a]] \in Registered
    BY <2>1 DEF VictimRegistered, Disconnecting
  <2>3. s \in sockets
    BY <1>1, <2>2 DEF Socket
  <2> QED BY <2>1, <2>3 DEF ClosedBeforeRemoved
<1>10. Proven'
  BY <1>2, Apart DEF Proven, Wanted
<1> QED BY <1>3, <1>4, <1>5, <1>6, <1>7, <1>8, <1>9, <1>10

(* A connection is registered, with the proof it was dialled with.           *)
LEMMA RegisterStep ==
    ASSUME IInv, NEW c \in Callers, Register(c)
    PROVE  IInv'
<1> USE DEF IInv
<1>1. /\ c \in Actors /\ pc[c] = "dialled" /\ c \notin conns
      /\ \A f \in Closers : c \notin todo[f]
      /\ \A a \in Actors : pc[a] \in Disconnecting => victim[a] # c
      /\ UNCHANGED <<auth, connector, envClosed, endpoint, proof, closed, todo, victim, panicked>>
  BY Apart
  DEF Register, ConnsRegistered, TodoRegistered, VictimRegistered, Registered, Disconnecting
<1>2. CASE envClosed /\ sockets' = sockets \ {Socket(c)} /\ Goto(c, "error") /\ UNCHANGED conns
  <2>1. sockets' \subseteq sockets /\ \A s \in sockets : s \in sockets' <=> s[1] # c
    BY <1>2, OneSocket
  <2>2. /\ \A a \in Actors : a # c => pc'[a] = pc[a]
        /\ pc'[c] = "error" /\ "error" \in CallerPC
    BY <1>1, <1>2 DEF TypeOK, Goto, CallerPC
  <2>3. TypeOK'
    BY <1>1, <1>2, <2>1, <2>2, Apart DEF TypeOK, Goto, Disconnecting
  <2>4. NoSocketLost'
    BY <1>1, <1>2, <2>1, <2>2, Apart DEF NoSocketLost, TypeOK
  <2>5. AuthenticatedAsConfigured' /\ ConnsRegistered' /\ TodoRegistered'
    BY <1>1, <1>2, <2>2, Apart
    DEF AuthenticatedAsConfigured, ConnsRegistered, TodoRegistered, TypeOK
  <2>6. VictimRegistered'
    BY <1>1, <2>2, Apart DEF VictimRegistered, TypeOK, Disconnecting
  <2>7. DialsAfresh' /\ ClosedBeforeRemoved' /\ Proven'
    BY <1>1, <2>1, <2>2, Apart DEF DialsAfresh, ClosedBeforeRemoved, Proven, Wanted
  <2> QED BY <2>3, <2>4, <2>5, <2>6, <2>7
<1>3. CASE conns' = conns \cup {c} /\ Goto(c, "opened") /\ UNCHANGED sockets
  <2>1. /\ \A a \in Actors : a # c => pc'[a] = pc[a]
        /\ pc'[c] = "opened" /\ "opened" \in CallerPC /\ "opened" \in Registered
    BY <1>1, <1>3 DEF TypeOK, Goto, CallerPC, Registered
  <2>2. TypeOK'
    BY <1>1, <1>3, <2>1, Apart DEF TypeOK, Goto, Disconnecting
  <2>3. NoSocketLost'
    BY <1>1, <1>3, <2>1, Apart DEF NoSocketLost, TypeOK
  <2>4. AuthenticatedAsConfigured'
    BY <1>1, <1>3 DEF AuthenticatedAsConfigured, Proven, Wanted
  <2>5. ConnsRegistered' /\ TodoRegistered'
    BY <1>1, <1>3, <2>1, Apart DEF ConnsRegistered, TodoRegistered, TypeOK
  <2>6. VictimRegistered'
    BY <1>1, <2>1, Apart DEF VictimRegistered, TypeOK, Disconnecting
  <2>7. DialsAfresh' /\ ClosedBeforeRemoved' /\ Proven'
    BY <1>1, <1>3, <2>1, Apart DEF DialsAfresh, ClosedBeforeRemoved, Proven, Wanted
  <2> QED BY <2>2, <2>3, <2>4, <2>5, <2>6, <2>7
<1> QED BY <1>2, <1>3 DEF Register

(* A registered connection is picked for disconnecting.                      *)
LEMMA PickVictim ==
    ASSUME IInv, NEW a \in Actors, NEW c \in Callers, pc[c] \in Registered,
           a \in Callers => pc[a] \in Registered,
           Goto(a, "disconnect"), victim' = [victim EXCEPT ![a] = c],
           todo' \in [Closers -> SUBSET Callers], \A f \in Closers : todo'[f] \subseteq todo[f],
           UNCHANGED <<auth, connector, envClosed, conns, endpoint, sockets, proof, closed, panicked>>
    PROVE  IInv'
<1> USE DEF IInv
<1>1. /\ \A b \in Actors : b # a => pc'[b] = pc[b] /\ victim'[b] = victim[b]
      /\ pc'[a] = "disconnect" /\ victim'[a] = c
      /\ "disconnect" \in CallerPC /\ "disconnect" \in CloserPC /\ "disconnect" \in Registered
  BY DEF TypeOK, Goto, CallerPC, CloserPC, Registered, Disconnecting
<1>2. TypeOK'
  BY <1>1, Apart DEF TypeOK, Goto
<1>3. a \in Callers => pc[a] \notin Dialling
  BY DEF Registered, Dialling, Disconnecting
<1>4. NoSocketLost'
  BY <1>1, <1>3, Apart DEF NoSocketLost, TypeOK
<1>5. AuthenticatedAsConfigured' /\ ConnsRegistered' /\ TodoRegistered'
  BY <1>1, Apart DEF AuthenticatedAsConfigured, ConnsRegistered, TodoRegistered, TypeOK
<1>6. VictimRegistered'
  BY <1>1, Apart DEF VictimRegistered, TypeOK
<1>7. DialsAfresh' /\ Proven'
  BY <1>1, Apart DEF DialsAfresh, Proven, Wanted
<1>8. ClosedBeforeRemoved'
  BY <1>1 DEF ClosedBeforeRemoved
<1> QED BY <1>2, <1>4, <1>5, <1>6, <1>7, <1>8

(* The three steps of Disconnect.                                            *)
LEMMA MarkStep ==
    ASSUME IInv, NEW a \in Actors, DisconnectMark(a)
    PROVE  IInv'
<1> USE DEF IInv
<1>1. /\ pc[a] = "disconnect" /\ victim[a] \in Callers
      /\ UNCHANGED <<auth, connector, envClosed, conns, endpoint, sockets, proof, todo, victim, panicked>>
      /\ closed' \subseteq Callers
  BY DEF DisconnectMark, TypeOK, Disconnecting
<1>2. CASE Goto(a, Returns(a))
  <2>1. /\ a \in Callers => Returns(a) = "done" /\ Returns(a) \in CallerPC
        /\ a \in Closers => Returns(a) = "next" /\ Returns(a) \in CloserPC
    BY Apart DEF Returns, CallerPC, CloserPC
  <2>2. Returns(a) \in {"done", "next"} /\ Returns(a) \notin Disconnecting \cup {"dial", "answer", "dialled"}
    BY DEF Returns, Disconnecting
  <2>3. pc' = [pc EXCEPT ![a] = Returns(a)]
    BY <1>2 DEF Goto
  <2>4. "done" \in Registered /\ pc[a] \notin Dialling
    BY <1>1 DEF Registered, Dialling
  <2>5. connector' \in BOOLEAN /\ envClosed' \in BOOLEAN /\ panicked' \in BOOLEAN
    BY <1>1 DEF TypeOK
  <2> QED BY <1>1, <2>1, <2>2, <2>3, <2>4, <2>5, MovesOn
<1>3. CASE Goto(a, "close")
  <2>1. /\ \A b \in Actors : b # a => pc'[b] = pc[b]
        /\ pc'[a] = "close" /\ pc[a] \in Disconnecting
        /\ "close" \in CallerPC /\ "close" \in CloserPC /\ "close" \in Registered
        /\ pc[a] \notin Dialling
    BY <1>1, <1>3 DEF TypeOK, Goto, CallerPC, CloserPC, Registered, Disconnecting, Dialling
  <2>2. TypeOK'
    BY <1>1, <1>3, <2>1, Apart DEF TypeOK, Goto
  <2>3. NoSocketLost'
    BY <1>1, <2>1, Apart DEF NoSocketLost, TypeOK
  <2>4. AuthenticatedAsConfigured' /\ ConnsRegistered' /\ TodoRegistered'
    BY <1>1, <2>1, Apart DEF AuthenticatedAsConfigured, ConnsRegistered, TodoRegistered, TypeOK
  <2>5. VictimRegistered'
    BY <1>1, <2>1, Apart DEF VictimRegistered, TypeOK
  <2>6. DialsAfresh' /\ ClosedBeforeRemoved' /\ Proven'
    BY <1>1, <2>1, Apart DEF DialsAfresh, ClosedBeforeRemoved, Proven, Wanted
  <2> QED BY <2>2, <2>3, <2>4, <2>5, <2>6
<1> QED BY <1>2, <1>3 DEF DisconnectMark

LEMMA CloseStep ==
    ASSUME IInv, NEW a \in Actors, DisconnectClose(a)
    PROVE  IInv'
<1> USE DEF IInv
<1>1. /\ pc[a] = "close" /\ victim[a] \in Callers /\ Goto(a, "remove")
      /\ UNCHANGED <<auth, connector, envClosed, conns, endpoint, proof, closed, todo, victim, panicked>>
  BY DEF DisconnectClose, TypeOK, Disconnecting
<1>2. sockets' \subseteq sockets /\ \A s \in sockets : s \in sockets' <=> s[1] # victim[a]
  BY <1>1, OneSocket DEF DisconnectClose
<1>3. /\ \A b \in Actors : b # a => pc'[b] = pc[b]
      /\ pc'[a] = "remove" /\ pc[a] \in Disconnecting /\ pc[a] \notin Dialling
      /\ "remove" \in CallerPC /\ "remove" \in CloserPC /\ "remove" \in Registered
  BY <1>1 DEF TypeOK, Goto, CallerPC, CloserPC, Registered, Disconnecting, Dialling
<1>4. TypeOK'
  BY <1>1, <1>2, <1>3, Apart DEF TypeOK, Goto
<1>5. NoSocketLost'
  BY <1>1, <1>2, <1>3, Apart DEF NoSocketLost, TypeOK
<1>6. AuthenticatedAsConfigured' /\ ConnsRegistered' /\ TodoRegistered'
  BY <1>1, <1>3, Apart DEF AuthenticatedAsConfigured, ConnsRegistered, TodoRegistered, TypeOK
<1>7. VictimRegistered'
  BY <1>1, <1>3, Apart DEF VictimRegistered, TypeOK
<1>8. DialsAfresh' /\ ClosedBeforeRemoved' /\ Proven'
  BY <1>1, <1>2, <1>3, Apart DEF DialsAfresh, ClosedBeforeRemoved, Proven, Wanted
<1> QED BY <1>4, <1>5, <1>6, <1>7, <1>8

LEMMA RemoveStep ==
    ASSUME IInv, NEW a \in Actors, DisconnectRemove(a)
    PROVE  IInv'
<1> USE DEF IInv
<1>1. /\ pc[a] = "remove" /\ victim[a] \in Callers /\ Goto(a, Returns(a))
      /\ conns' = conns \ {victim[a]}
      /\ UNCHANGED <<auth, connector, envClosed, endpoint, sockets, proof, closed, todo, victim, panicked>>
  BY DEF DisconnectRemove, TypeOK, Disconnecting
<1>2. /\ \A b \in Actors : b # a => pc'[b] = pc[b]
      /\ pc'[a] = Returns(a) /\ pc[a] \in Disconnecting /\ pc[a] \notin Dialling
      /\ a \in Callers => Returns(a) \in CallerPC /\ Returns(a) \in Registered
      /\ a \in Closers => Returns(a) \in CloserPC
      /\ Returns(a) \notin Disconnecting /\ Returns(a) \in {"next", "done"}
  BY <1>1, Apart
  DEF TypeOK, Goto, Returns, CallerPC, CloserPC, Registered, Disconnecting, Dialling
<1>3. TypeOK'
  BY <1>1, <1>2, Apart DEF TypeOK, Goto, Actors
<1>4. NoSocketLost'
  BY <1>1, <1>2, Apart DEF NoSocketLost, TypeOK, ClosedBeforeRemoved
<1>5. AuthenticatedAsConfigured' /\ ConnsRegistered' /\ TodoRegistered'
  BY <1>1, <1>2, Apart DEF AuthenticatedAsConfigured, ConnsRegistered, TodoRegistered, TypeOK
<1>6. VictimRegistered'
  BY <1>1, <1>2, Apart DEF VictimRegistered, TypeOK
<1>7. DialsAfresh' /\ ClosedBeforeRemoved' /\ Proven'
  BY <1>1, <1>2, Apart DEF DialsAfresh, ClosedBeforeRemoved, Proven, Wanted
<1> QED BY <1>3, <1>4, <1>5, <1>6, <1>7

(* Every step of a caller on its way to a connection.                        *)
LEMMA ConnectingStep ==
    ASSUME IInv, NEW c \in Callers, Connecting(c)
    PROVE  IInv'
<1> USE DEF IInv
<1> c \in Actors /\ c \notin Closers
  BY Apart
<1>1. CASE Check(c)
  <2>1. PICK label \in {"checked", "done"} : pc' = [pc EXCEPT ![c] = label]
    BY <1>1 DEF Check, Goto
  <2>2. /\ label \in CallerPC /\ label \notin Disconnecting \cup {"dial", "answer", "dialled"}
        /\ pc[c] = "idle" /\ pc[c] \notin Registered /\ pc[c] \notin Dialling
    BY <1>1 DEF Check, CallerPC, Disconnecting, Registered, Dialling
  <2>3. /\ UNCHANGED <<auth, connector, envClosed, conns, endpoint, sockets, proof, closed, todo, victim, panicked>>
        /\ connector' \in BOOLEAN /\ envClosed' \in BOOLEAN /\ panicked' \in BOOLEAN
        /\ closed' \subseteq Callers
    BY <1>1 DEF Check, TypeOK
  <2> QED BY <2>1, <2>2, <2>3, MovesOn
<1>2. CASE Enter(c)
  <2>1. /\ pc[c] = "checked"
        /\ UNCHANGED <<auth, connector, envClosed, conns, endpoint, sockets, proof, closed, todo, victim, panicked>>
    BY <1>2 DEF Enter
  <2>2. CASE Goto(c, "dial")
    BY <2>1, <2>2, DialGoesOn DEF TypeOK
  <2>3. CASE Goto(c, "error")
    <3>1. /\ "error" \in CallerPC /\ "error" \notin Disconnecting \cup {"dial", "answer", "dialled"}
          /\ pc[c] \notin Registered /\ pc[c] \notin Dialling
          /\ pc' = [pc EXCEPT ![c] = "error"]
      BY <2>1, <2>3 DEF Goto, CallerPC, Disconnecting, Registered, Dialling
    <3>2. /\ connector' \in BOOLEAN /\ envClosed' \in BOOLEAN /\ panicked' \in BOOLEAN
          /\ closed' \subseteq Callers
      BY <2>1 DEF TypeOK
    <3> QED BY <2>1, <3>1, <3>2, MovesOn
  <2> QED BY <1>2, <2>2, <2>3 DEF Enter
<1>3. CASE Dial(c)
  <2>1. /\ pc[c] = "dial" /\ pc[c] \in Dialling /\ \A s \in sockets : s[1] # c
        /\ UNCHANGED <<auth, connector, envClosed, conns, proof, closed, todo, victim, panicked>>
    BY <1>3 DEF Dial, Dialling, DialsAfresh
  <2>2. CASE sockets' = sockets \cup {Socket(c)} /\ Goto(c, "handshake") /\ UNCHANGED endpoint
    BY <2>1, <2>2, DialGoesOn DEF TypeOK
  <2>3. CASE NextEndpoint(c) /\ UNCHANGED sockets
    BY <2>1, <2>3, EndpointFails DEF TypeOK
  <2> QED BY <1>3, <2>2, <2>3 DEF Dial
<1>4. CASE Handshake(c)
  <2>1. /\ pc[c] = "handshake" /\ pc[c] \in Dialling
        /\ UNCHANGED <<auth, connector, envClosed, conns, proof, closed, todo, victim, panicked>>
    BY <1>4 DEF Handshake, Dialling
  <2>2. CASE Goto(c, "connect") /\ UNCHANGED <<endpoint, sockets>>
    BY <2>1, <2>2, DialGoesOn DEF TypeOK
  <2>3. CASE TryNext(c)
    BY <2>1, <2>3, EndpointFails, OneSocket DEF TypeOK, TryNext
  <2> QED BY <1>4, <2>2, <2>3 DEF Handshake
<1>5. CASE FirstExchange(c)
  <2> DEFINE options == FinalizeAuthConnectOptions(auth)
  <2>1. /\ pc[c] = "connect" /\ pc[c] \in Dialling
        /\ UNCHANGED <<auth, connector, envClosed, conns, closed, todo, victim, panicked>>
    BY <1>5 DEF FirstExchange, Dialling
  <2>2. \E p \in {"none", "password", "signature"} : proof' = [proof EXCEPT ![c] = p]
    BY <1>5 DEF FirstExchange
  <2>3. /\ proof' \in [Callers -> {"none", "password", "signature"}]
        /\ \A d \in Callers : d # c => proof'[d] = proof[d]
    BY <2>2 DEF TypeOK
  <2>4. /\ options.mode = "PASSWORD" => Wanted = "password"
        /\ options.mode = "CHALLENGE" => Wanted = "signature"
    <3>1. auth.mode \in {"", "unknown", "PASSWORD", "CHALLENGE"}
      BY EnvironmentAssumption DEF TypeOK, AuthConfigs, Modes
    <3> QED BY <3>1 DEF FinalizeAuthConnectOptions, NoAuth, Wanted
  <2>5. CASE TryNext(c)
    BY <2>1, <2>3, <2>5, EndpointFails, OneSocket DEF TryNext
  <2>6. CASE /\ proof' = [proof EXCEPT ![c] = "password"] /\ options.mode = "PASSWORD"
             /\ Goto(c, "dialled") /\ UNCHANGED <<endpoint, sockets>>
    <3>1. proof'[c] = Wanted
      BY <2>4, <2>6 DEF TypeOK
    <3> QED BY <2>1, <2>3, <2>6, <3>1, DialGoesOn
  <2>7. CASE options.mode = "CHALLENGE" /\ Goto(c, "answer") /\ UNCHANGED <<endpoint, sockets>>
    BY <2>1, <2>3, <2>4, <2>7, DialGoesOn
  <2> QED BY <1>5, <2>5, <2>6, <2>7 DEF FirstExchange, AfterFirstOk
<1>6. CASE SecondExchange(c)
  <2>1. /\ pc[c] = "answer" /\ pc[c] \in Dialling /\ Wanted = "signature"
        /\ UNCHANGED <<auth, connector, envClosed, conns, closed, todo, victim, panicked>>
    BY <1>6 DEF SecondExchange, Dialling, Proven
  <2>2. CASE /\ proof' = [proof EXCEPT ![c] = "signature"]
             /\ Goto(c, "dialled") /\ UNCHANGED <<endpoint, sockets>>
    <3>1. /\ proof' \in [Callers -> {"none", "password", "signature"}] /\ proof'[c] = Wanted
          /\ \A d \in Callers : d # c => proof'[d] = proof[d]
      BY <2>1, <2>2 DEF TypeOK
    <3> QED BY <2>1, <2>2, <3>1, DialGoesOn
  <2>3. CASE TryNext(c) /\ UNCHANGED proof
    BY <2>1, <2>3, EndpointFails, OneSocket DEF TypeOK, TryNext
  <2> QED BY <1>6, <2>2, <2>3 DEF SecondExchange
<1>7. CASE Register(c)
  BY <1>7, RegisterStep
<1>8. CASE Opened(c)
  <2>1. /\ pc[c] = "opened" /\ pc[c] \in Registered /\ pc[c] \notin Dialling
        /\ UNCHANGED <<auth, connector, envClosed, conns, endpoint, sockets, proof, closed, todo, panicked>>
    BY <1>8 DEF Opened, Registered, Dialling
  <2>2. CASE Goto(c, "open") /\ UNCHANGED victim
    <3>1. /\ "open" \in CallerPC /\ "open" \notin Disconnecting \cup {"dial", "answer", "dialled"}
          /\ "open" \in Registered /\ pc' = [pc EXCEPT ![c] = "open"]
      BY <2>2 DEF Goto, CallerPC, Disconnecting, Registered
    <3>2. /\ connector' \in BOOLEAN /\ envClosed' \in BOOLEAN /\ panicked' \in BOOLEAN
          /\ closed' \subseteq Callers
      BY <2>1 DEF TypeOK
    <3> QED BY <2>1, <2>2, <3>1, <3>2, MovesOn
  <2>3. CASE Goto(c, "disconnect") /\ victim' = [victim EXCEPT ![c] = c]
    BY <2>1, <2>3, PickVictim DEF TypeOK
  <2> QED BY <1>8, <2>2, <2>3 DEF Opened
<1>9. CASE ReturnError(c)
  <2>1. /\ "done" \in CallerPC /\ "done" \notin Disconnecting \cup {"dial", "answer", "dialled"}
        /\ "done" \in Registered /\ pc[c] \notin Dialling /\ pc' = [pc EXCEPT ![c] = "done"]
    BY <1>9 DEF ReturnError, Goto, CallerPC, Disconnecting, Registered, Dialling
  <2>2. /\ connector' \in BOOLEAN /\ envClosed' \in BOOLEAN /\ closed' \subseteq Callers
        /\ UNCHANGED <<auth, conns, endpoint, sockets, proof, todo, victim>>
    BY <1>9 DEF ReturnError, TypeOK
  <2>3. panicked' \in BOOLEAN
    BY <1>9, Zenon DEF ReturnError
  <2> QED BY <2>1, <2>2, <2>3, MovesOn
<1> QED BY <1>1, <1>2, <1>3, <1>4, <1>5, <1>6, <1>7, <1>8, <1>9 DEF Connecting

(* The user closes its connection, or a round trip retires it.               *)
LEMMA UserStep ==
    ASSUME IInv, NEW c \in Callers, CloseConn(c) \/ Break(c)
    PROVE  IInv'
<1> USE DEF IInv
<1> c \in Actors /\ c \notin Closers
  BY Apart
<1>1. CASE CloseConn(c)
  <2>1. /\ pc[c] = "open" /\ pc[c] \in Registered
        /\ Goto(c, "disconnect") /\ victim' = [victim EXCEPT ![c] = c]
        /\ UNCHANGED <<auth, connector, envClosed, conns, endpoint, sockets, proof, closed, todo, panicked>>
    BY <1>1 DEF CloseConn, Registered
  <2> QED BY <2>1, PickVictim DEF TypeOK
<1>2. CASE Break(c)
  <2>1. /\ sockets' \subseteq sockets
        /\ UNCHANGED <<auth, connector, envClosed, conns, pc, endpoint, proof, closed, todo, victim, panicked>>
    BY <1>2 DEF Break
  <2>2. TypeOK'
    BY <2>1 DEF TypeOK
  <2>3. NoSocketLost' /\ DialsAfresh' /\ ClosedBeforeRemoved'
    BY <2>1 DEF NoSocketLost, DialsAfresh, ClosedBeforeRemoved
  <2>4. /\ AuthenticatedAsConfigured' /\ ConnsRegistered' /\ TodoRegistered'
        /\ VictimRegistered' /\ Proven'
    BY <2>1
    DEF AuthenticatedAsConfigured, ConnsRegistered, TodoRegistered, VictimRegistered, Proven, Wanted
  <2> QED BY <2>2, <2>3, <2>4
<1> QED BY <1>1, <1>2

(* Connector.Close and Finalize: the snapshot holds registered connections.  *)
LEMMA CloserStep ==
    ASSUME IInv, NEW f \in Closers, CloseConnector(f) \/ FinalizeStep(f)
    PROVE  IInv'
<1> USE DEF IInv
<1> f \in Actors /\ f \notin Callers
  BY Apart
<1>1. {"finalize", "next", "clear", "done"} \cap (Disconnecting \cup {"dial", "answer", "dialled"}) = {}
  BY DEF Disconnecting
<1>2. {"finalize", "next", "clear", "done"} \subseteq CloserPC
  BY DEF CloserPC
<1>3. ASSUME NEW label \in {"finalize", "next", "clear", "done"}, Goto(f, label),
             UNCHANGED <<auth, conns, endpoint, sockets, proof, todo, victim, closed>>,
             connector' \in BOOLEAN, envClosed' \in BOOLEAN, panicked' \in BOOLEAN
      PROVE  IInv'
  <2>1. label \in CloserPC /\ label \notin Disconnecting \cup {"dial", "answer", "dialled"}
    BY <1>1, <1>2
  <2>2. closed' \subseteq Callers /\ pc' = [pc EXCEPT ![f] = label]
    BY <1>3 DEF TypeOK, Goto
  <2> QED BY <1>3, <2>1, <2>2, MovesOn
<1>4. CASE CloseConnector(f)
  <2>1. \E label \in {"finalize", "done"} : Goto(f, label)
    BY <1>4 DEF CloseConnector
  <2>2. /\ UNCHANGED <<auth, conns, endpoint, sockets, proof, todo, victim, closed>>
        /\ connector' \in BOOLEAN /\ envClosed' \in BOOLEAN /\ panicked' \in BOOLEAN
    BY <1>4 DEF CloseConnector, TypeOK
  <2> QED BY <1>3, <2>1, <2>2
<1>5. CASE Finalize(f) /\ Goto(f, "clear") /\ UNCHANGED <<envClosed, todo>>
  <2>1. /\ UNCHANGED <<auth, conns, endpoint, sockets, proof, todo, victim, closed>>
        /\ connector' \in BOOLEAN /\ envClosed' \in BOOLEAN /\ panicked' \in BOOLEAN
    BY <1>5 DEF Finalize, TypeOK
  <2> QED BY <1>3, <1>5, <2>1
<1>6. CASE Finalize(f) /\ todo' = [todo EXCEPT ![f] = conns] /\ Goto(f, "next")
                       /\ envClosed' = TRUE
  <2>1. /\ UNCHANGED <<auth, connector, conns, endpoint, sockets, proof, closed, victim, panicked>>
        /\ envClosed' \in BOOLEAN
    BY <1>6 DEF Finalize
  <2>2. /\ \A a \in Actors : a # f => pc'[a] = pc[a]
        /\ pc'[f] = "next" /\ "next" \in CloserPC /\ "next" \notin Disconnecting
    BY <1>6 DEF TypeOK, Goto, CloserPC, Disconnecting
  <2>3. TypeOK'
    BY <1>6, <2>1, <2>2, Apart DEF TypeOK, Goto
  <2>4. NoSocketLost' /\ AuthenticatedAsConfigured' /\ ConnsRegistered'
    BY <2>1, <2>2, Apart, ZenonT(40) DEF NoSocketLost, AuthenticatedAsConfigured, ConnsRegistered, TypeOK
  <2>5. TodoRegistered'
    BY <1>6, <2>1, <2>2, Apart DEF TodoRegistered, ConnsRegistered, TypeOK
  <2>6. VictimRegistered'
    BY <2>1, <2>2, Apart DEF VictimRegistered, TypeOK
  <2>7. DialsAfresh' /\ ClosedBeforeRemoved' /\ Proven'
    BY <2>1, <2>2, Apart DEF DialsAfresh, ClosedBeforeRemoved, Proven, Wanted
  <2> QED BY <2>3, <2>4, <2>5, <2>6, <2>7
<1>7. CASE FinalizeNext(f) /\ Goto(f, "clear") /\ UNCHANGED <<todo, victim>>
  <2>1. /\ UNCHANGED <<auth, conns, endpoint, sockets, proof, todo, victim, closed>>
        /\ connector' \in BOOLEAN /\ envClosed' \in BOOLEAN /\ panicked' \in BOOLEAN
    BY <1>7 DEF FinalizeNext, TypeOK
  <2> QED BY <1>3, <1>7, <2>1
<1>8. ASSUME FinalizeNext(f), NEW c \in todo[f],
             todo' = [todo EXCEPT ![f] = @ \ {c}], victim' = [victim EXCEPT ![f] = c],
             Goto(f, "disconnect")
      PROVE  IInv'
  <2>1. UNCHANGED <<auth, connector, envClosed, conns, endpoint, sockets, proof, closed, panicked>>
    BY <1>8 DEF FinalizeNext
  <2>2. /\ c \in Callers /\ pc[c] \in Registered
        /\ todo' \in [Closers -> SUBSET Callers] /\ \A g \in Closers : todo'[g] \subseteq todo[g]
    BY <1>8 DEF TypeOK, TodoRegistered
  <2> QED BY <1>8, <2>1, <2>2, PickVictim
<1>9. CASE ClearHandle(f)
  <2>1. /\ UNCHANGED <<auth, conns, endpoint, sockets, proof, todo, victim, closed>>
        /\ envClosed' \in BOOLEAN /\ panicked' \in BOOLEAN /\ Goto(f, "done")
    BY <1>9 DEF ClearHandle, TypeOK
  <2>2. connector' \in BOOLEAN
    BY <1>9, Zenon DEF ClearHandle
  <2> QED BY <1>3, <2>1, <2>2
<1> QED BY <1>4, <1>5, <1>6, <1>7, <1>8, <1>9 DEF FinalizeStep, Finalize, FinalizeNext

LEMMA NextIInv == IInv /\ [Next]_vars => IInv'
<1> SUFFICES ASSUME IInv, [Next]_vars PROVE IInv'
  OBVIOUS
<1>1. CASE UNCHANGED vars
  <2>1. UNCHANGED <<auth, connector, envClosed, conns, pc, endpoint, sockets, proof, closed,
                    todo, victim, panicked>>
    BY <1>1 DEF vars
  <2>2. TypeOK'
    BY <2>1 DEF IInv, TypeOK
  <2>3. NoSocketLost' /\ DialsAfresh' /\ ClosedBeforeRemoved'
    BY <2>1 DEF IInv, NoSocketLost, DialsAfresh, ClosedBeforeRemoved
  <2>4. /\ AuthenticatedAsConfigured' /\ ConnsRegistered' /\ TodoRegistered'
        /\ VictimRegistered' /\ Proven'
    BY <2>1
    DEF IInv, AuthenticatedAsConfigured, ConnsRegistered, TodoRegistered, VictimRegistered,
        Proven, Wanted
  <2> QED BY <2>2, <2>3, <2>4 DEF IInv
<1>2. ASSUME NEW a \in Actors, DisconnectStep(a) PROVE IInv'
  BY <1>2, MarkStep, CloseStep, RemoveStep DEF DisconnectStep
<1> QED BY <1>1, <1>2, ConnectingStep, UserStep, CloserStep DEF Next

(* The inductive invariant of connecting and disconnecting.                  *)
THEOREM Invariance == Spec => []IInv
BY InitIInv, NextIInv, PTL DEF Spec

(* Places, endpoints and victims stay in their sets.                         *)
THEOREM TypeCorrect == Spec => []TypeOK
<1>1. IInv => TypeOK
  BY DEF IInv
<1> QED BY Invariance, <1>1, PTL

(* However many goroutines connect, fail over between endpoints, disconnect  *)
(* and finalize at once, an open socket belongs to a dial under way or to a  *)
(* connection the environment knows (dialNative, Connect, Disconnect).       *)
THEOREM NoSocketLeaks == Spec => []NoSocketLost
<1>1. IInv => NoSocketLost
  BY DEF IInv
<1> QED BY Invariance, <1>1, PTL

(* Nobody gets a connection whose server has not accepted what the           *)
(* configuration asks for, on whichever endpoint the dial ended              *)
(* (connectProtocol, finalizeAuthConnectOptions).                            *)
THEOREM ProperlyAuthenticated == Spec => []AuthenticatedAsConfigured
<1>1. IInv => AuthenticatedAsConfigured
  BY DEF IInv
<1> QED BY Invariance, <1>1, PTL
=============================================================================
