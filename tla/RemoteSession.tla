---------------------------- MODULE RemoteSession ---------------------------
(***************************************************************************)
(* Connections of the Python client (connection.py) and the server's       *)
(* states behind them (CryptolServer.hs, Main.hs).  A state of the server  *)
(* is never changed: a command names the state it starts from, and its     *)
(* answer names the one it ends in.  A connection remembers its most       *)
(* recent command only.                                                    *)
(*                                                                         *)
(* The libraries under both sides (argo) are external: the client blocks   *)
(* until a command is answered when its answer is needed; the server takes *)
(* requests one by one in any order; it may drop a state when a command    *)
(* has led on from it, and may answer with the same state when the command *)
(* changed nothing.                                                        *)
(***************************************************************************)
EXTENDS CryptolSession

CONSTANTS
  Connections,
  Shared,      \* the server behind a URL; each connection has its own beside it
  NoServer,    \* the server of a connection that is not made yet
  MaxCalls,    \* bound on messages, and so on ids of states
  MaxRestarts  \* bound on restarts of the shared server

ASSUME ServerNames ==
    Shared \notin Connections /\ NoServer \notin Connections /\ NoServer # Shared
ASSUME BoundsAreNat == MaxCalls \in Nat /\ MaxRestarts \in Nat

VARIABLES
  server,   \* the server of a connection
  recent,   \* most_recent_result of a connection, and how that went
  inflight, \* messages that are not yet handled
  states,   \* the states of each server, by id
  calls,    \* the number of messages so far
  restarts,
  known     \* opaque values a script has from a connection since its last load

vars == <<server, recent, inflight, states, calls, restarts, known>>

Servers == Connections \cup {Shared}
Null == 0

\* The attribute is None.
NoResult == [id |-> 0, phase |-> "none", state |-> Null, new |-> Null,
             command |-> <<>>, answer |-> <<>>]

Waiting(c) == recent[c].phase = "sent"

\* state() of an interaction: after an error, the state it started from.
protocol_state_Forgets(c) == IF recent[c].phase = "ok" THEN recent[c].new ELSE Null
protocol_state(c) == IF recent[c].phase = "ok" THEN recent[c].new ELSE recent[c].state

Init ==
    /\ server = [c \in Connections |-> NoServer]
    /\ recent = [c \in Connections |-> NoResult]
    /\ inflight = {}
    /\ states = [s \in Servers |-> [i \in {} |-> Fresh]]
    /\ calls = 0
    /\ restarts = 0
    /\ known = [c \in Connections |-> {}]

(***************************************************************************)
(* The client.                                                             *)
(***************************************************************************)
\* The arguments of connect, and what the environment offers.
Ways == [command : BOOLEAN, url : BOOLEAN, CRYPTOL_SERVER : BOOLEAN,
         CRYPTOL_SERVER_URL : BOOLEAN, onPath : BOOLEAN]

\* A command and a URL together are refused; a process of its own goes
\* before a URL among the arguments and in the environment.
Resolve(w) ==
    CASE w.command /\ w.url -> "ValueError"
      [] w.command -> "own"
      [] ~w.command /\ w.url -> "url"
      [] ~w.command /\ ~w.url /\ w.CRYPTOL_SERVER -> "own"
      [] ~w.command /\ ~w.url /\ ~w.CRYPTOL_SERVER /\ w.CRYPTOL_SERVER_URL -> "url"
      [] OTHER -> IF w.onPath THEN "own" ELSE "ValueError"

Resolved == {Resolve(w) : w \in Ways}

Post_SameId(c, to, method, state, command) ==
    [id |-> calls, from |-> c, to |-> to, method |-> method, state |-> state,
     command |-> command]
Post(c, to, method, state, command) ==
    [id |-> calls + 1, from |-> c, to |-> to, method |-> method, state |-> state,
     command |-> command]

Forget(c) == /\ recent' = [recent EXCEPT ![c] = NoResult]
             /\ known' = [known EXCEPT ![c] = {}]

\* A script makes a connection, with reset_server or not, and forgets the
\* one it had, whose process ends if it had one of its own.
connect(c, to, clear) ==
    /\ clear => calls < MaxCalls
    /\ Forget(c)
    /\ LET s == IF to = "own" THEN c ELSE Shared
           rest == {m \in inflight : m.to # c}
       IN  /\ server' = [server EXCEPT ![c] = s]
           /\ IF clear
              THEN /\ inflight' = rest \cup {Post(c, s, "clearAllStates", Null, <<>>)}
                   /\ calls' = calls + 1
              ELSE inflight' = rest /\ UNCHANGED calls
    /\ states' = [states EXCEPT ![c] = [i \in {} |-> Fresh]]
    /\ UNCHANGED restarts

\* load_module, load_file, extend_search_path, eval, call, check, prove, sat,
\* names, focused_module, check_type: a command starts from protocol_state.
Send(c, command) ==
    /\ server[c] # NoServer /\ ~Waiting(c) /\ calls < MaxCalls
    /\ calls' = calls + 1
    /\ recent' = [recent EXCEPT ![c] =
                    [id |-> calls + 1, phase |-> "sent", state |-> protocol_state(c),
                     new |-> Null, command |-> command, answer |-> <<>>]]
    /\ inflight' = inflight \cup
                     {Post(c, server[c], "command", protocol_state(c), command)}
    /\ UNCHANGED <<server, states, restarts, known>>

\* The notification has the state in it and waits for the answer that tells.
reset_KeepsResult(c) ==
    /\ server[c] # NoServer /\ ~Waiting(c) /\ calls < MaxCalls
    /\ calls' = calls + 1
    /\ inflight' = inflight \cup {Post(c, server[c], "clearState", protocol_state(c), <<>>)}
    /\ known' = [known EXCEPT ![c] = {}]
    /\ UNCHANGED <<server, states, restarts, recent>>
reset(c) ==
    /\ server[c] # NoServer /\ ~Waiting(c) /\ calls < MaxCalls
    /\ calls' = calls + 1
    /\ inflight' = inflight \cup {Post(c, server[c], "clearState", protocol_state(c), <<>>)}
    /\ Forget(c)
    /\ UNCHANGED <<server, states, restarts>>

\* This one waits for nothing; a command may still be on its way.
reset_server(c) ==
    /\ server[c] # NoServer /\ calls < MaxCalls
    /\ calls' = calls + 1
    /\ inflight' = inflight \cup {Post(c, server[c], "clearAllStates", Null, <<>>)}
    /\ Forget(c)
    /\ UNCHANGED <<server, states, restarts>>

(***************************************************************************)
(* The server.                                                             *)
(***************************************************************************)
Without(held, ids) == [i \in DOMAIN held \ ids |-> held[i]]

\* The contents behind an id, if the server has it.
Held(s, id) == IF id = Null THEN {Fresh}
               ELSE {states[s][i] : i \in {id} \cap DOMAIN states[s]}

\* The answer reaches the command it belongs to, which the connection may
\* have forgotten.
Answer(m, phase, new, answer) ==
    IF recent[m.from].id = m.id
    THEN recent' = [recent EXCEPT ![m.from] =
                      [@ EXCEPT !.phase = phase, !.new = new, !.command = <<>>,
                                !.answer = answer]]
    ELSE UNCHANGED recent

Handled(m) == /\ inflight' = inflight \ {m}
              /\ UNCHANGED <<server, calls, restarts>>

\* An exception in a command leaves the states of the server alone, also
\* when names were bound before it; an id that the server does not have is
\* one.
HandleError(m) ==
    /\ m.method = "command"
    /\ Answer(m, "error", Null, <<>>)
    /\ Handled(m)
    /\ UNCHANGED <<states, known>>

HandleCommand(m) ==
    /\ m.method = "command"
    /\ \E s \in Held(m.to, m.state) : \E r \in Results(s, m.command) :
         \E dropped \in {{}, {m.state}},
            new \in {m.id} \cup (IF r.state = s THEN {m.state} ELSE {}) :
           LET held == states[m.to]
               kept == Without(held, IF new = m.id THEN dropped ELSE {})
           IN  /\ states' = [states EXCEPT ![m.to] =
                    IF new = Null THEN held
                    ELSE [i \in DOMAIN kept \cup {new} |->
                            IF i = new THEN r.state ELSE kept[i]]]
               /\ Answer(m, "ok", new, r.answer)
               /\ known' = IF recent[m.from].id = m.id
                           THEN [known EXCEPT ![m.from] =
                                   KnownAfter(@, m.command, r.answer)]
                           ELSE known
    /\ Handled(m)

HandleClearState(m) ==
    /\ m.method = "clearState"
    /\ states' = [states EXCEPT ![m.to] = Without(@, {m.state})]
    /\ Handled(m) /\ UNCHANGED <<recent, known>>

HandleClearAllStates(m) ==
    /\ m.method = "clearAllStates"
    /\ states' = [states EXCEPT ![m.to] = [i \in {} |-> Fresh]]
    /\ Handled(m) /\ UNCHANGED <<recent, known>>

\* The service behind the URL is started again: its states are gone, and
\* the client has an error for what it had on the way.
Restart ==
    /\ restarts < MaxRestarts
    /\ restarts' = restarts + 1
    /\ states' = [states EXCEPT ![Shared] = [i \in {} |-> Fresh]]
    /\ inflight' = {m \in inflight : m.to # Shared}
    /\ recent' = [c \in Connections |->
                    IF server[c] = Shared /\ Waiting(c)
                    THEN [recent[c] EXCEPT !.phase = "error", !.command = <<>>]
                    ELSE recent[c]]
    /\ UNCHANGED <<server, calls, known>>

Handle(c) == \E m \in inflight :
    m.from = c /\ (HandleCommand(m) \/ HandleError(m) \/ HandleClearState(m)
                   \/ HandleClearAllStates(m))

Client(c) ==
    \/ \E to \in Resolved \ {"ValueError"}, clear \in BOOLEAN : connect(c, to, clear)
    \/ \E command \in Tried : Send(c, command)
    \/ reset(c)
    \/ reset_server(c)

Next == Restart \/ \E c \in Connections : Client(c) \/ Handle(c)

Spec == Init /\ [][Next]_vars

(***************************************************************************)
(* Properties.                                                             *)
(***************************************************************************)
\* Types of the variables.
TypeOK ==
    /\ server \in [Connections -> Servers \cup {NoServer}]
    /\ DOMAIN recent = Connections
    /\ \A c \in Connections :
         /\ DOMAIN recent[c] = DOMAIN NoResult
         /\ recent[c].id \in 0 .. calls
         /\ recent[c].phase \in {"none", "sent", "ok", "error"}
         /\ recent[c].state \in 0 .. calls /\ recent[c].new \in 0 .. calls
    /\ \A m \in inflight :
         /\ m.id \in 1 .. calls /\ m.from \in Connections /\ m.to \in Servers
         /\ m.method \in {"command", "clearState", "clearAllStates"}
         /\ m.state \in 0 .. calls
    /\ DOMAIN states = Servers
    /\ \A s \in Servers : DOMAIN states[s] \subseteq 1 .. calls
    /\ calls \in 0 .. MaxCalls /\ restarts \in 0 .. MaxRestarts
    /\ DOMAIN known = Connections

\* A state of the server belongs to one connection at most: no two name the
\* same state, and what is still to be cleared, or was left to a command
\* that its connection has forgotten, is not the state of any connection.  So
\* neither a reset nor a late command takes a state from under a client.
Stale(m) == recent[m.from].id # m.id
StatesPrivate ==
    /\ \A c, d \in Connections :
         c # d /\ protocol_state(c) # Null => protocol_state(c) # protocol_state(d)
    /\ \A m \in inflight :
         m.state # Null /\ (m.method = "clearState" \/ Stale(m))
         => \A c \in Connections : protocol_state(c) # m.state

\* The session of a connection, if it still has one.
SessionOf(c) == Held(server[c], protocol_state(c))

\* An opaque value that a script got from a connection since the last load
\* or reset is still there under its identifier and is still the same value,
\* whatever else was evaluated or failed in between: the identifiers that the
\* server makes up do not hide one another.
OpaqueAlive ==
    \A c \in Connections : \A s \in SessionOf(c) : \A k \in known[c] :
        k.name \in DOMAIN s.names /\ s.names[k.name] = k.value

CallOf(c) == <<recent[c].phase, recent[c].command, recent[c].answer>>
Wiping == {<<m.id, m.to>> : m \in {n \in inflight : n.method = "clearAllStates"}}

Abstract == INSTANCE AbstractSession WITH
    session <- [c \in Connections |-> SessionOf(c)],
    call <- [c \in Connections |-> CallOf(c)],
    wiping <- Wiping

\* Connections that share a server behave as if each had a session of its
\* own; a command acts on it as a whole or not at all; a session is lost only
\* when someone resets its server or the server is started again, and a reset
\* gives a fresh one.
ImplementsSessions == Abstract!Spec
=============================================================================
