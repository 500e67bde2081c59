---------------------------- MODULE Environment -----------------------------
(***************************************************************************)
(* Connector and EnvHandle: connections are dialled, authenticated,        *)
(* registered and disconnected by several goroutines while the pool is     *)
(* closed (driver.go Connector; machnet/cli.go EnvHandle, Disconnect;      *)
(* machnet/client.go dialNative, handshake, connectProtocol;               *)
(* machnet/auth.go).                                                       *)
(*                                                                         *)
(* Each caller makes one Connect and owns the connection it gets.  A       *)
(* socket is named by its caller and the endpoint it was dialled to.       *)
(***************************************************************************)
EXTENDS Naturals, FiniteSets

CONSTANTS
    Callers,    \* goroutines that call Connector.Connect
    Closers,    \* goroutines that call Connector.Close
    Endpoints,  \* the host and the alternative servers: 1..Endpoints
    AuthModes, AuthKeys, AuthSchemes  \* configurations tried

Modes == {"PASSWORD", "CHALLENGE"}
Schemes == {"ECDSA", "RSA_PKCS1_V15", "RSA_PSS"}

ASSUME EnvironmentAssumption ==
    /\ Callers \cap Closers = {} /\ "nobody" \notin Callers
    /\ Endpoints \in Nat \ {0}
    /\ AuthModes \subseteq Modes \cup {"", "unknown"}
    /\ AuthKeys \subseteq {"none", "EC", "RSA", "unsupported"}
    /\ AuthSchemes \subseteq Schemes \cup {"", "unknown"}

VARIABLES
    auth,        \* AuthMode, PrivateKey and AuthSigScheme of the configuration
    connector,   \* Connector.handle is not nil
    envClosed,   \* EnvHandle.closed
    conns,       \* EnvHandle.conns
    pc,          \* where every goroutine is
    endpoint,    \* the endpoint a caller is dialling or connected to
    sockets,     \* sockets open at the client
    proof,       \* what the server has accepted of a caller (external)
    closed,      \* ConnHandle.closed
    todo,        \* the connections a Finalize still has to disconnect
    victim,      \* the connection a goroutine is disconnecting
    panicked     \* a nil dereference happened

vars == <<auth, connector, envClosed, conns, pc, endpoint, sockets, proof,
          closed, todo, victim, panicked>>

Actors == Callers \cup Closers
Nobody == "nobody"

Dialling == {"dial", "handshake", "connect", "answer", "dialled"}
Disconnecting == {"disconnect", "close", "remove"}
CallerPC == {"idle", "checked", "opened", "open", "error", "done"}
            \cup Dialling \cup Disconnecting
CloserPC == {"idle", "finalize", "next", "clear", "done"} \cup Disconnecting

AuthConfigs == [mode : AuthModes, key : AuthKeys, scheme : AuthSchemes]

TypeOK ==
    /\ auth \in AuthConfigs
    /\ connector \in BOOLEAN /\ envClosed \in BOOLEAN /\ panicked \in BOOLEAN
    /\ conns \subseteq Callers /\ closed \subseteq Callers
    /\ pc \in [Actors -> CallerPC \cup CloserPC]
    /\ \A c \in Callers : pc[c] \in CallerPC
    /\ \A f \in Closers : pc[f] \in CloserPC
    /\ endpoint \in [Callers -> 1..Endpoints]
    /\ sockets \subseteq Callers \X (1..Endpoints)
    /\ proof \in [Callers -> {"none", "password", "signature"}]
    /\ todo \in [Closers -> SUBSET Callers]
    /\ victim \in [Actors -> Callers \cup {Nobody}]
    /\ \A a \in Actors : pc[a] \in Disconnecting => victim[a] # Nobody

(* OpenConnector and Initialize.                                             *)
Init ==
    /\ auth \in AuthConfigs
    /\ connector = TRUE /\ envClosed = FALSE /\ conns = {}
    /\ pc = [a \in Actors |-> "idle"]
    /\ endpoint = [c \in Callers |-> 1]
    /\ sockets = {} /\ proof = [c \in Callers |-> "none"]
    /\ closed = {} /\ todo = [f \in Closers |-> {}]
    /\ victim = [a \in Actors |-> Nobody] /\ panicked = FALSE

Goto(a, label) == pc' = [pc EXCEPT ![a] = label]

-----------------------------------------------------------------------------
(* Authentication options.                                                   *)

NoAuth == [mode |-> "error", scheme |-> ""]

(* detectAuthSigSchemeFromKey                                                *)
DetectScheme(key) ==
    CASE key = "EC"  -> "ECDSA"
      [] key = "RSA" -> "RSA_PKCS1_V15"
      [] OTHER       -> "error"

(* finalizeAuthConnectOptions with canonicalizeAuthMode and                  *)
(* canonicalizeAuthSigScheme                                                 *)
FinalizeAuthConnectOptions(a) ==
    LET mode == IF a.mode # "" THEN a.mode
                ELSE IF a.key # "none" THEN "CHALLENGE" ELSE "PASSWORD"
        scheme == IF a.scheme = "" THEN DetectScheme(a.key) ELSE a.scheme
    IN  CASE mode = "PASSWORD" -> [mode |-> "PASSWORD", scheme |-> ""]
          [] mode = "CHALLENGE" /\ a.key # "none" /\ scheme \in Schemes
               -> [mode |-> "CHALLENGE", scheme |-> scheme]
          [] OTHER -> NoAuth

(* signAuthNonceWithKey with validateSupportedAuthKey: a key signs under the *)
(* schemes of its algorithm.                                                 *)
CanSign(key, scheme) ==
    \/ key = "EC" /\ scheme = "ECDSA"
    \/ key = "RSA" /\ scheme \in {"RSA_PKCS1_V15", "RSA_PSS"}

-----------------------------------------------------------------------------
(* Connector.Connect and dialNative.                                         *)

Socket(c) == <<c, endpoint[c]>>

(* Connector.Connect tests cn.handle, and reads it again for the call.       *)
Check(c) ==
    /\ pc[c] = "idle"
    /\ Goto(c, IF connector THEN "checked" ELSE "done")
    /\ UNCHANGED <<auth, connector, envClosed, conns, endpoint, sockets, proof,
                   closed, todo, victim, panicked>>

Enter(c) ==
    /\ pc[c] = "checked"
    /\ Goto(c, IF connector THEN "dial" ELSE "error")
    /\ UNCHANGED <<auth, connector, envClosed, conns, endpoint, sockets, proof,
                   closed, todo, victim, panicked>>

(* Mutation: the list of endpoints has no end.                               *)
NextEndpointUnchecked(c) == endpoint' = [endpoint EXCEPT ![c] = @ + 1] /\ Goto(c, "dial")

(* The loop of dialNative goes on with the next endpoint, or gives up.       *)
NextEndpoint(c) ==
    IF endpoint[c] < Endpoints
    THEN endpoint' = [endpoint EXCEPT ![c] = @ + 1] /\ Goto(c, "dial")
    ELSE UNCHANGED endpoint /\ Goto(c, "error")

(* Mutation: the socket of an endpoint that failed is not closed.            *)
TryNextLeaks(c) == NextEndpoint(c) /\ UNCHANGED sockets

TryNext(c) == NextEndpoint(c) /\ sockets' = sockets \ {Socket(c)}

Dial(c) ==
    /\ pc[c] = "dial"
    /\ \/ /\ sockets' = sockets \cup {Socket(c)}
          /\ Goto(c, "handshake") /\ UNCHANGED endpoint
       \/ NextEndpoint(c) /\ UNCHANGED sockets
    /\ UNCHANGED <<auth, connector, envClosed, conns, proof, closed, todo, victim, panicked>>

(* handshake: the server is READY, or it is not, or it does not answer       *)
(* within the connect timeout.                                               *)
Handshake(c) ==
    /\ pc[c] = "handshake"
    /\ \/ Goto(c, "connect") /\ UNCHANGED <<endpoint, sockets>>
       \/ TryNext(c)
    /\ UNCHANGED <<auth, connector, envClosed, conns, proof, closed, todo, victim, panicked>>

(* Mutation: a connection is good once the server has answered OK.           *)
AfterFirstOkAnyMode(c, options) == Goto(c, "dialled") /\ UNCHANGED <<endpoint, sockets>>

(* connectProtocol once the server has accepted the first message: a         *)
(* password is enough, a challenge must carry a valid nonce (see             *)
(* readChallengeFields) and be signed.                                       *)
AfterFirstOk(c, options) ==
    \/ /\ options.mode = "PASSWORD"
       /\ Goto(c, "dialled") /\ UNCHANGED <<endpoint, sockets>>
    \/ /\ options.mode = "CHALLENGE"
       /\ \/ /\ CanSign(auth.key, options.scheme)
             /\ Goto(c, "answer") /\ UNCHANGED <<endpoint, sockets>>
          \/ TryNext(c)

(* connectProtocol, first exchange.  Bad options, a refusal, a broken or     *)
(* missing reply make dialNative try the next endpoint.                      *)
FirstExchange(c) ==
    /\ pc[c] = "connect"
    /\ LET options == FinalizeAuthConnectOptions(auth) IN
       \/ /\ options # NoAuth
          /\ proof' = [proof EXCEPT ![c] = IF options.mode = "PASSWORD" THEN "password" ELSE "none"]
          /\ AfterFirstOk(c, options)
       \/ proof' = [proof EXCEPT ![c] = "none"] /\ TryNext(c)
    /\ UNCHANGED <<auth, connector, envClosed, conns, closed, todo, victim, panicked>>

(* connectProtocol, second exchange: the signature is accepted or not.       *)
SecondExchange(c) ==
    /\ pc[c] = "answer"
    /\ \/ /\ proof' = [proof EXCEPT ![c] = "signature"]
          /\ Goto(c, "dialled") /\ UNCHANGED <<endpoint, sockets>>
       \/ TryNext(c) /\ UNCHANGED proof
    /\ UNCHANGED <<auth, connector, envClosed, conns, closed, todo, victim, panicked>>

(* Mutation: EnvHandle.closed is not looked at after the dial.               *)
RegisterAlways(c) ==
    /\ pc[c] = "dialled"
    /\ conns' = conns \cup {c} /\ Goto(c, "opened") /\ UNCHANGED sockets
    /\ UNCHANGED <<auth, connector, envClosed, endpoint, proof, closed, todo, victim, panicked>>

(* EnvHandle.Connect after the dial.                                         *)
Register(c) ==
    /\ pc[c] = "dialled"
    /\ IF envClosed
       THEN sockets' = sockets \ {Socket(c)} /\ Goto(c, "error") /\ UNCHANGED conns
       ELSE conns' = conns \cup {c} /\ Goto(c, "opened") /\ UNCHANGED sockets
    /\ UNCHANGED <<auth, connector, envClosed, endpoint, proof, closed, todo, victim, panicked>>

(* Connector.Connect selects the configured database; the connection is      *)
(* closed if that fails.                                                     *)
Opened(c) ==
    /\ pc[c] = "opened"
    /\ \/ Goto(c, "open") /\ UNCHANGED victim
       \/ Goto(c, "disconnect") /\ victim' = [victim EXCEPT ![c] = c]
    /\ UNCHANGED <<auth, connector, envClosed, conns, endpoint, sockets, proof,
                   closed, todo, panicked>>

(* Connector.ErrorOf reads the error from cn.handle.                         *)
ReturnError(c) ==
    /\ pc[c] = "error" /\ Goto(c, "done")
    /\ panicked' = (panicked \/ ~connector)
    /\ UNCHANGED <<auth, connector, envClosed, conns, endpoint, sockets, proof,
                   closed, todo, victim>>

-----------------------------------------------------------------------------
(* ConnHandle.Disconnect, by the connection's user or by Finalize.           *)

Returns(a) == IF a \in Closers THEN "next" ELSE "done"

(* The user closes its connection (Conn.Close).                              *)
CloseConn(c) ==
    /\ pc[c] = "open"
    /\ Goto(c, "disconnect") /\ victim' = [victim EXCEPT ![c] = c]
    /\ UNCHANGED <<auth, connector, envClosed, conns, endpoint, sockets, proof,
                   closed, todo, panicked>>

(* Only the first Disconnect of a handle goes on.                            *)
DisconnectMark(a) ==
    /\ pc[a] = "disconnect"
    /\ Goto(a, IF victim[a] \in closed THEN Returns(a) ELSE "close")
    /\ closed' = closed \cup {victim[a]}
    /\ UNCHANGED <<auth, connector, envClosed, conns, endpoint, sockets, proof,
                   todo, victim, panicked>>

DisconnectClose(a) ==
    /\ pc[a] = "close" /\ Goto(a, "remove")
    /\ sockets' = sockets \ {Socket(victim[a])}
    /\ UNCHANGED <<auth, connector, envClosed, conns, endpoint, proof,
                   closed, todo, victim, panicked>>

DisconnectRemove(a) ==
    /\ pc[a] = "remove" /\ Goto(a, Returns(a))
    /\ conns' = conns \ {victim[a]}
    /\ UNCHANGED <<auth, connector, envClosed, endpoint, sockets, proof,
                   closed, todo, victim, panicked>>

(* A round trip of an open connection retires it (markBrokenLocked).         *)
Break(c) ==
    /\ pc[c] = "open" /\ Socket(c) \in sockets
    /\ sockets' = sockets \ {Socket(c)}
    /\ UNCHANGED <<auth, connector, envClosed, conns, pc, endpoint, proof,
                   closed, todo, victim, panicked>>

-----------------------------------------------------------------------------
(* Connector.Close and EnvHandle.Finalize.                                   *)

CloseConnector(f) ==
    /\ pc[f] = "idle"
    /\ Goto(f, IF connector THEN "finalize" ELSE "done")
    /\ UNCHANGED <<auth, connector, envClosed, conns, endpoint, sockets, proof,
                   closed, todo, victim, panicked>>

(* Finalize, under env.mu.  A second Finalize returns at once, and so does   *)
(* one on a handle that has become nil.                                      *)
Finalize(f) ==
    /\ pc[f] = "finalize"
    /\ IF envClosed \/ ~connector
       THEN Goto(f, "clear") /\ UNCHANGED <<envClosed, todo>>
       ELSE /\ envClosed' = TRUE
            /\ todo' = [todo EXCEPT ![f] = conns]
            /\ Goto(f, "next")
    /\ UNCHANGED <<auth, connector, conns, endpoint, sockets, proof,
                   closed, victim, panicked>>

(* It disconnects its snapshot one by one, in the order of a map.            *)
FinalizeNext(f) ==
    /\ pc[f] = "next"
    /\ \/ /\ todo[f] = {} /\ Goto(f, "clear") /\ UNCHANGED <<todo, victim>>
       \/ \E c \in todo[f] :
            /\ todo' = [todo EXCEPT ![f] = @ \ {c}]
            /\ victim' = [victim EXCEPT ![f] = c]
            /\ Goto(f, "disconnect")
    /\ UNCHANGED <<auth, connector, envClosed, conns, endpoint, sockets, proof,
                   closed, panicked>>

(* Connector.Close drops the handle.                                         *)
ClearHandle(f) ==
    /\ pc[f] = "clear" /\ Goto(f, "done") /\ connector' = FALSE
    /\ UNCHANGED <<auth, envClosed, conns, endpoint, sockets, proof,
                   closed, todo, victim, panicked>>

-----------------------------------------------------------------------------
Connecting(c) ==
    \/ Check(c) \/ Enter(c) \/ Dial(c) \/ Handshake(c)
    \/ FirstExchange(c) \/ SecondExchange(c) \/ Register(c) \/ Opened(c) \/ ReturnError(c)

DisconnectStep(a) == DisconnectMark(a) \/ DisconnectClose(a) \/ DisconnectRemove(a)

FinalizeStep(f) == Finalize(f) \/ FinalizeNext(f) \/ ClearHandle(f)

Next ==
    \/ \E c \in Callers : Connecting(c) \/ CloseConn(c) \/ Break(c)
    \/ \E a \in Actors : DisconnectStep(a)
    \/ \E f \in Closers : CloseConnector(f) \/ FinalizeStep(f)

Spec == Init /\ [][Next]_vars

(* Goroutines run, and a dial and the handshake have the connect timeout.    *)
(* Nobody has to call Connect or Close.                                      *)
FairSpec ==
    /\ Spec
    /\ \A c \in Callers :
          WF_vars(Enter(c) \/ Dial(c) \/ Handshake(c) \/ Register(c) \/ ReturnError(c))
    /\ \A a \in Actors : WF_vars(DisconnectMark(a) \/ DisconnectRemove(a))
    /\ \A f \in Closers : WF_vars(FinalizeStep(f))

(* The server answers or drops the connection.  The exchanges of a connect,  *)
(* the USE behind it, and the round trip that keeps nc.close() from its lock *)
(* read without a deadline: the timeout of sendPackets bounds the write.     *)
Answered ==
    /\ \A c \in Callers : WF_vars(FirstExchange(c) \/ SecondExchange(c) \/ Opened(c))
    /\ \A a \in Actors : WF_vars(DisconnectClose(a))

-----------------------------------------------------------------------------
(* Properties.                                                               *)

(* No socket is lost: an open one belongs to the endpoint its caller is      *)
(* dialling, or to a handle that the environment still knows, so that        *)
(* Finalize can find it (dialNative, EnvHandle.Connect, Disconnect).         *)
NoSocketLost ==
    \A s \in sockets :
        /\ s[2] = endpoint[s[1]]
        /\ pc[s[1]] \in Dialling \/ s[1] \in conns

(* A connection an application can use is one whose server accepted what the *)
(* configuration asks for: a signature if there is a key, also when the mode *)
(* was left out, and the password otherwise (connectProtocol,                *)
(* finalizeAuthConnectOptions).                                              *)
AuthenticatedAsConfigured ==
    \A c \in conns :
        proof[c] = IF auth.mode = "CHALLENGE" \/ (auth.mode = "" /\ auth.key # "none")
                   THEN "signature" ELSE "password"

(* Once the pool is closed every socket gets closed and none is opened for   *)
(* good, whoever was dialling, registering or disconnecting at that moment   *)
(* (Finalize against Connect and Disconnect), if the server answers: a       *)
(* silent one keeps a Connect, its socket, or Finalize for ever.             *)
FinalizeSettles == Answered => (envClosed ~> [](sockets = {} /\ conns = {}))

(* A Connect that loses against Close returns an error to its caller, the    *)
(* way Connector.Connect does when it finds cn.handle gone.                  *)
ConnectReturns == ~panicked
=============================================================================
