------------------------ MODULE RemoteSessionProofs -------------------------
(***************************************************************************)
(* Proofs about RemoteSession: for any number of connections, any bounds,  *)
(* any commands and whatever these do to a session.                        *)
(***************************************************************************)
EXTENDS RemoteSession, FiniteSetTheorems, TLAPS

\* A message that its connection waits for is the command it remembers.
Matched(m) ==
    ~Stale(m) => /\ m.method = "command" /\ recent[m.from].phase = "sent"
                 /\ m.to = server[m.from]
                 /\ m.state = recent[m.from].state
                 /\ m.command = recent[m.from].command

\* Messages have ids of their own, and the id of a message is not yet the id
\* of a state that anyone names.
IdsFresh ==
    /\ \A m, n \in inflight : m.id = n.id => m = n
    /\ \A m, n \in inflight : m.id # n.state
    /\ \A m \in inflight : \A c \in Connections : m.id # protocol_state(c)

ServersFit == \A c \in Connections : server[c] \in {c, Shared, NoServer}

IInv ==
    /\ TypeOK
    /\ \A m \in inflight : Matched(m)
    /\ IdsFresh
    /\ StatesPrivate
    /\ ServersFit

LEMMA InitInv == Init => IInv
  BY ServerNames, BoundsAreNat
  DEF ServerNames, BoundsAreNat, Init, IInv, TypeOK, Matched, IdsFresh, StatesPrivate, ServersFit, Servers, NoResult,
      Null, protocol_state

LEMMA CallsNat == TypeOK => calls \in Nat /\ calls <= MaxCalls /\ MaxCalls \in Nat
<1>1. TypeOK => calls \in 0 .. MaxCalls
  BY DEF TypeOK
<1> QED BY <1>1, BoundsAreNat DEF BoundsAreNat

(***************************************************************************)
(* A connection that forgets its result and posts a notification, or none. *)
(***************************************************************************)
LEMMA ForgetKeeps ==
  ASSUME IInv, NEW c \in Connections, Forget(c), calls' \in 0 .. MaxCalls,
         NEW s \in Servers, NEW method \in {"clearState", "clearAllStates"},
         NEW id \in {Null, protocol_state(c)}, id # Null => ~Waiting(c),
         \/ calls' = calls /\ inflight' \subseteq inflight
         \/ /\ calls' = calls + 1
            /\ inflight' \subseteq inflight \cup {Post(c, s, method, id, <<>>)},
         \A d \in Connections \ {c} : server'[d] = server[d]
  PROVE  /\ \A m \in inflight' : Matched(m)'
         /\ IdsFresh'
         /\ StatesPrivate'
         /\ \A m \in inflight' :
              /\ m.id \in 1 .. calls' /\ m.from \in Connections /\ m.to \in Servers
              /\ m.method \in {"command", "clearState", "clearAllStates"}
              /\ m.state \in 0 .. calls'
<1> DEFINE post == Post(c, s, method, id, <<>>)
<1>0. calls \in Nat
  BY CallsNat DEF IInv
<1>1. \A d \in Connections : protocol_state(d) \in 0 .. calls
  BY DEF IInv, TypeOK, protocol_state
<1>2. /\ post.id = calls + 1 /\ post.from = c /\ post.to = s /\ post.method = method
      /\ post.state = id
  BY DEF Post
<1>3. /\ DOMAIN recent' = Connections
      /\ recent'[c].id = 0 /\ protocol_state(c)' = Null
      /\ \A d \in Connections \ {c} : recent'[d] = recent[d]
      /\ \A d \in Connections \ {c} : protocol_state(d)' = protocol_state(d)
  BY DEF Forget, IInv, TypeOK, NoResult, protocol_state, Null
<1>4. \A m \in inflight' : m \in inflight \/ (m = post /\ calls' = calls + 1)
  OBVIOUS
<1> HIDE DEF post
<1>5. \A m \in inflight :
        /\ m.id \in 1 .. calls /\ m.from \in Connections /\ m.to \in Servers
        /\ m.method \in {"command", "clearState", "clearAllStates"}
        /\ m.state \in 0 .. calls
  BY DEF IInv, TypeOK
<1>6. \A m \in inflight : m.from = c => recent'[m.from].id # m.id
  BY <1>0, <1>3, <1>5
<1>10. \A m \in inflight' :
        /\ m.id \in 1 .. calls' /\ m.from \in Connections /\ m.to \in Servers
        /\ m.method \in {"command", "clearState", "clearAllStates"}
        /\ m.state \in 0 .. calls'
  <2>1. calls' \in {calls, calls + 1} /\ id \in 0 .. calls
    BY <1>0, <1>1 DEF Null
  <2>2. ASSUME NEW m \in inflight, calls' \in {calls, calls + 1}
        PROVE  m.id \in 1 .. calls' /\ m.state \in 0 .. calls'
    BY <1>0, <1>5, <2>2
  <2>3. calls' = calls + 1 => post.id \in 1 .. calls' /\ post.state \in 0 .. calls'
    BY <1>0, <1>2, <2>1
  <2> QED BY <1>2, <1>4, <1>5, <2>1, <2>2, <2>3
<1>7. \A m \in inflight' : Matched(m)'
  <2>1. ASSUME NEW m \in inflight PROVE Matched(m)'
    BY <1>3, <1>5, <1>6 DEF IInv, Matched, Stale
  <2>2. ASSUME NEW m \in inflight', m = post PROVE Matched(m)'
    BY <1>0, <1>2, <1>3, <2>2 DEF Matched, Stale
  <2> QED BY <1>4, <2>1, <2>2
<1>8. IdsFresh'
  <2>1. \A m, n \in inflight' : m.id = n.id => m = n
    BY <1>0, <1>2, <1>4, <1>5 DEF IInv, IdsFresh
  <2>2. \A m, n \in inflight' : m.id # n.state
    <3>1. \A m \in inflight : m.id # id
      BY <1>5 DEF IInv, IdsFresh, Null
    <3> QED BY <1>0, <1>1, <1>2, <1>4, <1>5, <3>1 DEF IInv, IdsFresh, Null
  <2>3. \A m \in inflight' : \A d \in Connections : m.id # protocol_state(d)'
    BY <1>0, <1>1, <1>2, <1>3, <1>4, <1>5 DEF IInv, IdsFresh, Null
  <2> QED BY <2>1, <2>2, <2>3 DEF IdsFresh
<1>9. StatesPrivate'
  <2>1. ASSUME NEW m \in inflight, m.state # Null, NEW d \in Connections,
               m.method = "clearState" \/ Stale(m)'
        PROVE  protocol_state(d)' # m.state
    <3>1. CASE d = c
      BY <1>3, <2>1, <3>1
    <3>2. CASE d # c /\ (m.method = "clearState" \/ Stale(m))
      BY <1>3, <2>1, <3>2 DEF IInv, StatesPrivate
    <3>3. CASE d # c /\ ~Stale(m)
      <4>1. m.from = c
        BY <1>3, <1>5, <2>1, <3>3 DEF IInv, Matched, Stale
      <4>2. m.state = protocol_state(c)
        BY <3>3, <4>1 DEF IInv, Matched, protocol_state
      <4> QED BY <1>3, <2>1, <3>3, <4>2 DEF IInv, StatesPrivate
    <3> QED BY <3>1, <3>2, <3>3
  <2>2. ASSUME post.state # Null, NEW d \in Connections
        PROVE  protocol_state(d)' # post.state
    BY <1>2, <1>3, <2>2 DEF IInv, StatesPrivate
  <2>3. \A d, e \in Connections :
          d # e /\ protocol_state(d)' # Null => protocol_state(d)' # protocol_state(e)'
    BY <1>3 DEF IInv, StatesPrivate
  <2>4. ASSUME NEW m \in inflight', m.state # Null,
               m.method = "clearState" \/ Stale(m)', NEW d \in Connections
        PROVE  protocol_state(d)' # m.state
    BY <1>4, <2>1, <2>2, <2>4
  <2> QED BY <2>3, <2>4 DEF StatesPrivate, Stale, Null
<1> QED BY <1>7, <1>8, <1>9, <1>10

\* The parts of the type invariant that a forgotten result touches.
LEMMA ForgetType ==
  ASSUME TypeOK, NEW c \in Connections, Forget(c), calls' \in {calls, calls + 1}
  PROVE  /\ DOMAIN recent' = Connections
         /\ \A d \in Connections :
              /\ DOMAIN recent'[d] = DOMAIN NoResult
              /\ recent'[d].id \in 0 .. calls'
              /\ recent'[d].phase \in {"none", "sent", "ok", "error"}
              /\ recent'[d].state \in 0 .. calls' /\ recent'[d].new \in 0 .. calls'
         /\ DOMAIN known' = Connections
<1>1. calls \in Nat
  BY CallsNat
<1>2. /\ DOMAIN recent' = Connections /\ recent'[c] = NoResult
      /\ \A d \in Connections \ {c} : recent'[d] = recent[d]
      /\ DOMAIN known' = Connections
  BY DEF Forget, TypeOK
<1>3. ASSUME NEW n \in 0 .. calls PROVE n \in 0 .. calls'
  BY <1>1, <1>3
<1>4. NoResult.id = 0 /\ NoResult.phase = "none" /\ NoResult.state = 0 /\ NoResult.new = 0
  BY DEF NoResult, Null
<1>5. 0 \in 0 .. calls'
  BY <1>1
<1> QED BY <1>2, <1>3, <1>4, <1>5 DEF TypeOK

LEMMA CallsStep ==
  ASSUME TypeOK, calls < MaxCalls, calls' = calls + 1
  PROVE  calls' \in 0 .. MaxCalls
  BY CallsNat

LEMMA StatesStep ==
  ASSUME TypeOK, calls' \in {calls, calls + 1}
  PROVE  \A s \in Servers : DOMAIN states[s] \subseteq 1 .. calls'
<1>1. \A n \in 1 .. calls : n \in 1 .. calls'
  BY CallsNat
<1> QED BY <1>1 DEF TypeOK

LEMMA ResetInv ==
  ASSUME IInv, NEW c \in Connections, reset(c) \/ reset_server(c)
  PROVE  IInv'
<1>1. /\ Forget(c) /\ server[c] # NoServer /\ calls < MaxCalls /\ calls' = calls + 1
      /\ UNCHANGED <<server, states, restarts>>
  BY DEF reset, reset_server
<1>2. /\ calls' \in 0 .. MaxCalls
      /\ server[c] \in Servers
  BY <1>1, CallsStep DEF IInv, TypeOK
<1>3. /\ \A m \in inflight' : Matched(m)'
      /\ IdsFresh'
      /\ StatesPrivate'
      /\ \A m \in inflight' :
           /\ m.id \in 1 .. calls' /\ m.from \in Connections /\ m.to \in Servers
           /\ m.method \in {"command", "clearState", "clearAllStates"}
           /\ m.state \in 0 .. calls'
  <2>1. CASE reset(c)
    <3>1. /\ ~Waiting(c)
          /\ inflight' \subseteq
               inflight \cup {Post(c, server[c], "clearState", protocol_state(c), <<>>)}
      BY <2>1 DEF reset
    <3> QED BY <1>1, <1>2, <3>1, ForgetKeeps
  <2>2. CASE reset_server(c)
    <3>1. inflight' \subseteq
               inflight \cup {Post(c, server[c], "clearAllStates", Null, <<>>)}
      BY <2>2 DEF reset_server
    <3> QED BY <1>1, <1>2, <3>1, ForgetKeeps
  <2> QED BY <2>1, <2>2
<1>4. TypeOK'
  <2>1. \A s \in Servers : DOMAIN states'[s] \subseteq 1 .. calls'
    BY <1>1, StatesStep DEF IInv
  <2> QED BY <1>1, <1>2, <1>3, <2>1, ForgetType DEF IInv, TypeOK
<1>5. ServersFit'
  BY <1>1 DEF IInv, ServersFit
<1> QED BY <1>3, <1>4, <1>5 DEF IInv

LEMMA ConnectInv ==
  ASSUME IInv, NEW c \in Connections, NEW to \in Resolved, NEW clear \in BOOLEAN,
         connect(c, to, clear)
  PROVE  IInv'
<1> DEFINE s == IF to = "own" THEN c ELSE Shared
<1>1. /\ Forget(c)
      /\ server' = [server EXCEPT ![c] = s]
      /\ states' = [states EXCEPT ![c] = [i \in {} |-> Fresh]]
      /\ UNCHANGED restarts
      /\ s \in Servers
  BY DEF connect, Servers
<1>2. \/ calls' = calls /\ inflight' \subseteq inflight
      \/ /\ calls < MaxCalls /\ calls' = calls + 1
         /\ inflight' \subseteq inflight \cup {Post(c, s, "clearAllStates", Null, <<>>)}
  BY DEF connect
<1>3. calls' \in 0 .. MaxCalls
  BY <1>2, CallsStep DEF IInv, TypeOK
<1>4. /\ \A d \in Connections \ {c} : server'[d] = server[d]
      /\ server' \in [Connections -> Servers \cup {NoServer}]
      /\ server'[c] \in {c, Shared}
  BY <1>1 DEF IInv, TypeOK
<1> HIDE DEF s
<1>5. /\ \A m \in inflight' : Matched(m)'
      /\ IdsFresh'
      /\ StatesPrivate'
      /\ \A m \in inflight' :
           /\ m.id \in 1 .. calls' /\ m.from \in Connections /\ m.to \in Servers
           /\ m.method \in {"command", "clearState", "clearAllStates"}
           /\ m.state \in 0 .. calls'
  BY <1>1, <1>2, <1>3, <1>4, ForgetKeeps
<1>6. TypeOK'
  <2>1. calls' \in {calls, calls + 1}
    BY <1>2
  <2>2. DOMAIN states' = Servers /\ \A t \in Servers : DOMAIN states'[t] \subseteq 1 .. calls'
    BY <1>1, <2>1, StatesStep DEF IInv, TypeOK, Servers
  <2> QED BY <1>1, <1>3, <1>4, <1>5, <2>1, <2>2, ForgetType DEF IInv, TypeOK
<1>7. ServersFit'
  BY <1>4 DEF IInv, ServersFit
<1> QED BY <1>5, <1>6, <1>7 DEF IInv

LEMMA SendInv ==
  ASSUME IInv, NEW c \in Connections, NEW command, Send(c, command)
  PROVE  IInv'
<1> DEFINE post == Post(c, server[c], "command", protocol_state(c), command)
<1>1. /\ server[c] # NoServer /\ ~Waiting(c) /\ calls < MaxCalls
      /\ calls' = calls + 1
      /\ inflight' = inflight \cup {post}
      /\ UNCHANGED <<server, states, restarts, known>>
  BY DEF Send
<1>2. calls \in Nat /\ calls' \in 0 .. MaxCalls
  BY <1>1, CallsNat, CallsStep DEF IInv
<1>3. /\ DOMAIN recent' = Connections
      /\ DOMAIN recent'[c] = DOMAIN NoResult
      /\ recent'[c].id = calls + 1 /\ recent'[c].phase = "sent"
      /\ recent'[c].state = protocol_state(c) /\ recent'[c].new = 0
      /\ recent'[c].command = command
      /\ \A d \in Connections \ {c} : recent'[d] = recent[d]
  BY DEF Send, IInv, TypeOK, NoResult, Null
<1>4. /\ post.id = calls + 1 /\ post.from = c /\ post.to = server[c]
      /\ post.method = "command" /\ post.state = protocol_state(c)
      /\ post.command = command
  BY DEF Post
<1>5. \A d \in Connections : protocol_state(d)' = protocol_state(d)
  BY <1>3 DEF protocol_state
<1>6. /\ \A d \in Connections : protocol_state(d) \in 0 .. calls
      /\ \A m \in inflight :
           /\ m.id \in 1 .. calls /\ m.from \in Connections /\ m.to \in Servers
           /\ m.method \in {"command", "clearState", "clearAllStates"}
           /\ m.state \in 0 .. calls
      /\ server[c] \in Servers
  BY <1>1 DEF IInv, TypeOK, protocol_state
<1> HIDE DEF post
<1>7. \A m \in inflight : m.from # c \/ (Stale(m) /\ Stale(m)')
  BY <1>1, <1>2, <1>3, <1>6 DEF IInv, Matched, Stale, Waiting
<1>8. TypeOK'
  <2>1. ASSUME NEW n \in 0 .. calls PROVE n \in 0 .. calls'
    BY <1>1, <1>2
  <2>2. \A s \in Servers : DOMAIN states'[s] \subseteq 1 .. calls'
    BY <1>1, StatesStep DEF IInv
  <2>3. \A d \in Connections :
          /\ DOMAIN recent'[d] = DOMAIN NoResult
          /\ recent'[d].id \in 0 .. calls'
          /\ recent'[d].phase \in {"none", "sent", "ok", "error"}
          /\ recent'[d].state \in 0 .. calls' /\ recent'[d].new \in 0 .. calls'
    <3>1. 0 \in 0 .. calls' /\ calls + 1 \in 0 .. calls'
      BY <1>1, <1>2
    <3> QED BY <1>3, <1>6, <2>1, <3>1 DEF IInv, TypeOK
  <2>4. \A m \in inflight' :
          /\ m.id \in 1 .. calls' /\ m.from \in Connections /\ m.to \in Servers
          /\ m.method \in {"command", "clearState", "clearAllStates"}
          /\ m.state \in 0 .. calls'
    <3>1. \A n \in 1 .. calls : n \in 1 .. calls'
      BY <1>1, <1>2
    <3>2. calls + 1 \in 1 .. calls'
      BY <1>1, <1>2
    <3> QED BY <1>1, <1>4, <1>6, <2>1, <3>1, <3>2
  <2> QED BY <1>1, <1>2, <1>3, <2>2, <2>3, <2>4 DEF IInv, TypeOK
<1>9. \A m \in inflight' : Matched(m)'
  <2>1. ASSUME NEW m \in inflight PROVE Matched(m)'
    BY <1>1, <1>3, <1>6, <1>7 DEF IInv, Matched, Stale
  <2>2. ASSUME NEW m \in inflight', m = post PROVE Matched(m)'
    BY <1>1, <1>3, <1>4, <2>2 DEF Matched, Stale
  <2> QED BY <1>1, <2>1, <2>2
<1>10. IdsFresh'
  <2>1. \A m, n \in inflight' : m.id = n.id => m = n
    BY <1>1, <1>2, <1>4, <1>6 DEF IInv, IdsFresh
  <2>2. \A m, n \in inflight' : m.id # n.state
    BY <1>1, <1>2, <1>4, <1>6 DEF IInv, IdsFresh
  <2>3. \A m \in inflight' : \A d \in Connections : m.id # protocol_state(d)'
    BY <1>1, <1>2, <1>4, <1>5, <1>6 DEF IInv, IdsFresh
  <2> QED BY <2>1, <2>2, <2>3 DEF IdsFresh
<1>11. StatesPrivate'
  <2>1. \A d, e \in Connections :
          d # e /\ protocol_state(d)' # Null => protocol_state(d)' # protocol_state(e)'
    BY <1>5 DEF IInv, StatesPrivate
  <2>2. ASSUME NEW m \in inflight', m.state # Null,
               m.method = "clearState" \/ Stale(m)', NEW d \in Connections
        PROVE  protocol_state(d)' # m.state
    <3>1. CASE m = post
      BY <1>3, <1>4, <2>2, <3>1 DEF Stale
    <3>2. CASE m \in inflight
      BY <1>3, <1>5, <1>6, <1>7, <2>2, <3>2 DEF IInv, StatesPrivate, Stale
    <3> QED BY <1>1, <3>1, <3>2
  <2> QED BY <2>1, <2>2 DEF StatesPrivate, Stale, Null
<1>12. ServersFit'
  BY <1>1 DEF IInv, ServersFit
<1> QED BY <1>8, <1>9, <1>10, <1>11, <1>12 DEF IInv

(***************************************************************************)
(* A message that is handled: what an answer does to its connection, and   *)
(* that fewer messages and no new names leave everything else as it is.    *)
(***************************************************************************)
LEMMA AnswerEffect ==
  ASSUME IInv, NEW m \in inflight, NEW phase \in {"ok", "error"}, NEW new, NEW answer,
         Answer(m, phase, new, answer)
  PROVE  /\ DOMAIN recent' = Connections
         /\ \A c \in Connections :
              IF c = m.from /\ ~Stale(m)
              THEN /\ DOMAIN recent'[c] = DOMAIN NoResult
                   /\ recent'[c].id = recent[c].id /\ recent'[c].phase = phase
                   /\ recent'[c].state = m.state /\ recent'[c].new = new
                   /\ recent'[c].command = <<>> /\ recent'[c].answer = answer
                   /\ protocol_state(c) = m.state
                   /\ protocol_state(c)' = IF phase = "ok" THEN new ELSE m.state
              ELSE recent'[c] = recent[c] /\ protocol_state(c)' = protocol_state(c)
<1>1. DOMAIN recent = Connections /\ m.from \in Connections
      /\ \A c \in Connections : DOMAIN recent[c] = DOMAIN NoResult
  BY DEF IInv, TypeOK
<1>2. {"phase", "new", "command", "answer"} \subseteq DOMAIN NoResult
  BY DEF NoResult
<1>3. CASE Stale(m)
  BY <1>1, <1>3 DEF Answer, Stale, protocol_state
<1>4. CASE ~Stale(m)
  <2>1. Matched(m)
    BY DEF IInv
  <2>2. recent' = [recent EXCEPT ![m.from] =
                     [@ EXCEPT !.phase = phase, !.new = new, !.command = <<>>,
                               !.answer = answer]]
    BY <1>4 DEF Answer, Stale
  <2> QED BY <1>1, <1>2, <1>4, <2>1, <2>2 DEF Matched, protocol_state
<1> QED BY <1>3, <1>4

LEMMA HandledKeeps ==
  ASSUME IInv, NEW m \in inflight, inflight' = inflight \ {m}, UNCHANGED <<server, calls>>,
         NEW new, NEW phase \in {"ok", "error"}, NEW answer,
         phase = "ok" => new \in {m.id, m.state},
         Answer(m, phase, new, answer) \/ UNCHANGED recent
  PROVE  /\ \A n \in inflight' : Matched(n)'
         /\ IdsFresh'
         /\ StatesPrivate'
         /\ ServersFit'
<1>1. m.from \in Connections /\ \A n \in inflight : n.from \in Connections
  BY DEF IInv, TypeOK
<1>2. \A c \in Connections :
        \/ recent'[c] = recent[c] /\ protocol_state(c)' = protocol_state(c)
        \/ /\ c = m.from /\ ~Stale(m) /\ protocol_state(c) = m.state
           /\ recent'[c].id = recent[c].id
           /\ protocol_state(c)' \in {m.id, m.state}
  BY AnswerEffect DEF protocol_state
<1>3. \A n \in inflight' : Stale(n)' <=> Stale(n)
  BY <1>1, <1>2 DEF Stale
<1>4. \A n \in inflight' : ~Stale(n) => n.from # m.from \/ Stale(m)
  BY DEF Stale, IInv, IdsFresh
<1>5. \A n \in inflight' : Matched(n)'
  BY <1>1, <1>2, <1>3, <1>4 DEF IInv, Matched
<1>6. IdsFresh'
  BY <1>2 DEF IInv, IdsFresh
<1>7. StatesPrivate'
  <2>1. ASSUME NEW d \in Connections, NEW e \in Connections, d # e,
               protocol_state(d)' # Null
        PROVE  protocol_state(d)' # protocol_state(e)'
    BY <1>2, <2>1 DEF IInv, IdsFresh, StatesPrivate
  <2>2. ASSUME NEW n \in inflight', n.state # Null,
               n.method = "clearState" \/ Stale(n)', NEW d \in Connections
        PROVE  protocol_state(d)' # n.state
    BY <1>2, <1>3, <2>2 DEF IInv, IdsFresh, StatesPrivate
  <2> QED BY <2>1, <2>2 DEF StatesPrivate, Stale, Null
<1>8. ServersFit'
  BY DEF IInv, ServersFit
<1> QED BY <1>5, <1>6, <1>7, <1>8

\* The type invariant after a message is handled.
LEMMA HandledType ==
  ASSUME IInv, NEW m \in inflight, inflight' = inflight \ {m},
         UNCHANGED <<server, calls, restarts>>,
         NEW new \in {Null, m.id, m.state}, NEW phase \in {"ok", "error"}, NEW answer,
         Answer(m, phase, new, answer) \/ UNCHANGED recent,
         DOMAIN known' = Connections, DOMAIN states' = Servers,
         \A s \in Servers : DOMAIN states'[s] \subseteq DOMAIN states[s] \cup ({m.id, m.state} \ {Null})
  PROVE  TypeOK'
<1>1. calls \in Nat
  BY CallsNat DEF IInv
<1>2. m.id \in 1 .. calls /\ m.state \in 0 .. calls
  BY DEF IInv, TypeOK
<1>3. new \in 0 .. calls /\ m.id \in 0 .. calls /\ {m.id, m.state} \ {Null} \subseteq 1 .. calls
  BY <1>1, <1>2 DEF Null
<1>4. \A s \in Servers : DOMAIN states'[s] \subseteq 1 .. calls'
  BY <1>2, <1>3 DEF IInv, TypeOK
<1>5. /\ DOMAIN recent' = Connections
      /\ \A c \in Connections :
           /\ DOMAIN recent'[c] = DOMAIN NoResult
           /\ recent'[c].id \in 0 .. calls
           /\ recent'[c].phase \in {"none", "sent", "ok", "error"}
           /\ recent'[c].state \in 0 .. calls /\ recent'[c].new \in 0 .. calls
  <2>1. CASE UNCHANGED recent
    BY <2>1 DEF IInv, TypeOK
  <2>2. CASE Answer(m, phase, new, answer)
    <3>1. /\ DOMAIN recent' = Connections
          /\ \A c \in Connections :
               \/ recent'[c] = recent[c]
               \/ /\ DOMAIN recent'[c] = DOMAIN NoResult
                  /\ recent'[c].id = recent[c].id /\ recent'[c].phase = phase
                  /\ recent'[c].state = m.state /\ recent'[c].new = new
      BY <2>2, AnswerEffect
    <3> QED BY <1>2, <1>3, <3>1 DEF IInv, TypeOK
  <2> QED BY <2>1, <2>2
<1> QED BY <1>4, <1>5 DEF IInv, TypeOK

LEMMA CommandInv ==
  ASSUME IInv, NEW m \in inflight, HandleCommand(m)
  PROVE  IInv'
<1>1. /\ m.method = "command" /\ inflight' = inflight \ {m}
      /\ UNCHANGED <<server, calls, restarts>>
  BY DEF HandleCommand, Handled
<1> DEFINE Kept(dropped, new) == Without(states[m.to], IF new = m.id THEN dropped ELSE {})
           After(dropped, new, content) ==
             IF new = Null THEN states[m.to]
             ELSE [i \in DOMAIN Kept(dropped, new) \cup {new} |->
                     IF i = new THEN content ELSE Kept(dropped, new)[i]]
<1>a. PICK s \in Held(m.to, m.state) : \E r \in Results(s, m.command) :
         \E dropped \in {{}, {m.state}},
            new \in {m.id} \cup (IF r.state = s THEN {m.state} ELSE {}) :
              /\ states' = [states EXCEPT ![m.to] = After(dropped, new, r.state)]
              /\ Answer(m, "ok", new, r.answer)
              /\ known' = IF recent[m.from].id = m.id
                          THEN [known EXCEPT ![m.from] = KnownAfter(@, m.command, r.answer)]
                          ELSE known
  BY DEF HandleCommand
<1>b. PICK r \in Results(s, m.command) :
         \E dropped \in {{}, {m.state}},
            new \in {m.id} \cup (IF r.state = s THEN {m.state} ELSE {}) :
              /\ states' = [states EXCEPT ![m.to] = After(dropped, new, r.state)]
              /\ Answer(m, "ok", new, r.answer)
              /\ known' = IF recent[m.from].id = m.id
                          THEN [known EXCEPT ![m.from] = KnownAfter(@, m.command, r.answer)]
                          ELSE known
  BY <1>a
<1>2. PICK dropped \in {{}, {m.state}},
           new \in {m.id} \cup (IF r.state = s THEN {m.state} ELSE {}) :
              /\ states' = [states EXCEPT ![m.to] = After(dropped, new, r.state)]
              /\ Answer(m, "ok", new, r.answer)
              /\ known' = IF recent[m.from].id = m.id
                          THEN [known EXCEPT ![m.from] = KnownAfter(@, m.command, r.answer)]
                          ELSE known
  BY <1>b
<1> HIDE DEF After
<1>3. new \in {m.id, m.state} /\ Answer(m, "ok", new, r.answer)
  BY <1>2
<1>4. TypeOK'
  <2>1. DOMAIN known' = Connections
    BY <1>2 DEF IInv, TypeOK
  <2>2. DOMAIN states' = Servers
    BY <1>2 DEF IInv, TypeOK
  <2>3. \A t \in Servers :
          DOMAIN states'[t] \subseteq DOMAIN states[t] \cup ({m.id, m.state} \ {Null})
    <3>1. m.to \in Servers /\ DOMAIN states = Servers /\ m.id # Null
      BY DEF IInv, TypeOK, Null
    <3>2. DOMAIN Kept(dropped, new) \subseteq DOMAIN states[m.to]
      BY DEF Without
    <3> HIDE DEF Kept
    <3>3. DOMAIN After(dropped, new, r.state)
            \subseteq DOMAIN states[m.to] \cup ({m.id, m.state} \ {Null})
      BY <1>3, <3>2 DEF After
    <3>4. states' = [states EXCEPT ![m.to] = After(dropped, new, r.state)]
      BY <1>2
    <3> QED BY <3>1, <3>3, <3>4
  <2> QED BY <1>1, <1>3, <2>1, <2>2, <2>3, HandledType
<1> QED BY <1>1, <1>3, <1>4, HandledKeeps DEF IInv

LEMMA OtherMessagesInv ==
  ASSUME IInv, NEW m \in inflight,
         HandleError(m) \/ HandleClearState(m) \/ HandleClearAllStates(m)
  PROVE  IInv'
<1>1. /\ inflight' = inflight \ {m}
      /\ UNCHANGED <<server, calls, restarts, known>>
  BY DEF HandleError, HandleClearState, HandleClearAllStates, Handled
<1>2. Answer(m, "error", Null, <<>>) \/ UNCHANGED recent
  BY DEF HandleError, HandleClearState, HandleClearAllStates
<1>3. /\ DOMAIN states' = Servers
      /\ \A s \in Servers : DOMAIN states'[s] \subseteq DOMAIN states[s]
  <2>1. CASE HandleError(m)
    BY <2>1 DEF HandleError, IInv, TypeOK
  <2>2. CASE HandleClearState(m)
    BY <2>2 DEF HandleClearState, Without, IInv, TypeOK
  <2>3. CASE HandleClearAllStates(m)
    BY <2>3 DEF HandleClearAllStates, IInv, TypeOK
  <2> QED BY <2>1, <2>2, <2>3
<1>4. TypeOK'
  <2>1. DOMAIN known' = Connections
    BY <1>1 DEF IInv, TypeOK
  <2> QED BY <1>1, <1>2, <1>3, <2>1, HandledType
<1> QED BY <1>1, <1>2, <1>4, HandledKeeps DEF IInv

LEMMA RestartInv == ASSUME IInv, Restart PROVE IInv'
<1>1. /\ restarts \in 0 .. MaxRestarts /\ restarts' \in 0 .. MaxRestarts
  <2>1. restarts \in 0 .. MaxRestarts
    BY DEF IInv, TypeOK
  <2>2. restarts < MaxRestarts /\ restarts' = restarts + 1
    BY DEF Restart
  <2>3. MaxRestarts \in Nat
    BY BoundsAreNat DEF BoundsAreNat
  <2> QED BY <2>1, <2>2, <2>3
<1>2. /\ inflight' \subseteq inflight
      /\ UNCHANGED <<server, calls, known>>
      /\ \A m \in inflight' : m.to # Shared
  BY DEF Restart
<1>3. /\ DOMAIN recent' = Connections
      /\ \A c \in Connections :
           /\ DOMAIN recent'[c] = DOMAIN NoResult
           /\ recent'[c].id = recent[c].id /\ recent'[c].state = recent[c].state
           /\ recent'[c].new = recent[c].new
           /\ \/ recent'[c] = recent[c]
              \/ /\ recent'[c].phase = "error" /\ recent[c].phase = "sent"
                 /\ server[c] = Shared
  <2>1. {"phase", "command"} \subseteq DOMAIN NoResult
    BY DEF NoResult
  <2>2. recent' = [c \in Connections |->
                     IF server[c] = Shared /\ Waiting(c)
                     THEN [recent[c] EXCEPT !.phase = "error", !.command = <<>>]
                     ELSE recent[c]]
    BY DEF Restart
  <2>3. \A c \in Connections : DOMAIN recent[c] = DOMAIN NoResult
    BY DEF IInv, TypeOK
  <2>4. ASSUME NEW c \in Connections, server[c] = Shared, Waiting(c)
        PROVE  /\ recent'[c] = [recent[c] EXCEPT !.phase = "error", !.command = <<>>]
               /\ recent[c].phase = "sent"
    BY <2>2, <2>4 DEF Waiting
  <2>5. ASSUME NEW c \in Connections, ~(server[c] = Shared /\ Waiting(c))
        PROVE  recent'[c] = recent[c]
    BY <2>2, <2>5
  <2>6. /\ DOMAIN NoResult = {"id", "phase", "state", "new", "command", "answer"}
        /\ DOMAIN recent' = Connections
    BY <2>2 DEF NoResult
  <2>7. ASSUME NEW c \in Connections, server[c] = Shared, Waiting(c)
        PROVE  /\ DOMAIN recent'[c] = DOMAIN NoResult
               /\ recent'[c].id = recent[c].id /\ recent'[c].state = recent[c].state
               /\ recent'[c].new = recent[c].new
               /\ recent'[c].phase = "error"
    <3>1. PICK r : r = recent[c]
      OBVIOUS
    <3>2. /\ DOMAIN r = {"id", "phase", "state", "new", "command", "answer"}
          /\ recent'[c] = [r EXCEPT !.phase = "error", !.command = <<>>]
      BY <2>3, <2>4, <2>6, <2>7, <3>1
    <3> QED BY <2>6, <3>1, <3>2
  <2>8. ASSUME NEW c \in Connections
        PROVE  /\ DOMAIN recent'[c] = DOMAIN NoResult
               /\ recent'[c].id = recent[c].id /\ recent'[c].state = recent[c].state
               /\ recent'[c].new = recent[c].new
               /\ \/ recent'[c] = recent[c]
                  \/ /\ recent'[c].phase = "error" /\ recent[c].phase = "sent"
                     /\ server[c] = Shared
    <3>1. CASE server[c] = Shared /\ Waiting(c)
      BY <2>4, <2>7, <3>1
    <3>2. CASE ~(server[c] = Shared /\ Waiting(c))
      BY <2>3, <2>5, <3>2
    <3> QED BY <3>1, <3>2
  <2> QED BY <2>6, <2>8
<1>4. \A c \in Connections : protocol_state(c)' = protocol_state(c)
  BY <1>3 DEF protocol_state
<1>5. \A m \in inflight : m.from \in Connections
  BY DEF IInv, TypeOK
<1>6. \A m \in inflight' : Stale(m)' <=> Stale(m)
  BY <1>2, <1>3, <1>5 DEF Stale
<1>7. TypeOK'
  <2>1. DOMAIN states' = Servers /\ \A s \in Servers : DOMAIN states'[s] \subseteq 1 .. calls'
    BY <1>2 DEF Restart, IInv, TypeOK
  <2>2. \A c \in Connections : recent'[c].phase \in {"none", "sent", "ok", "error"}
    BY <1>3 DEF IInv, TypeOK
  <2>3. \A m \in inflight' :
          /\ m.id \in 1 .. calls' /\ m.from \in Connections /\ m.to \in Servers
          /\ m.method \in {"command", "clearState", "clearAllStates"}
          /\ m.state \in 0 .. calls'
    BY <1>2 DEF IInv, TypeOK
  <2>4. \A c \in Connections :
          /\ recent'[c].id \in 0 .. calls'
          /\ recent'[c].state \in 0 .. calls' /\ recent'[c].new \in 0 .. calls'
    BY <1>2, <1>3 DEF IInv, TypeOK
  <2>5. /\ server' \in [Connections -> Servers \cup {NoServer}]
        /\ calls' \in 0 .. MaxCalls /\ DOMAIN known' = Connections
    BY <1>2 DEF IInv, TypeOK
  <2> QED BY <1>1, <1>3, <2>1, <2>2, <2>3, <2>4, <2>5 DEF TypeOK
<1>8. \A m \in inflight' : Matched(m)'
  BY <1>2, <1>3, <1>5, <1>6 DEF IInv, Matched
<1>9. IdsFresh'
  BY <1>2, <1>4 DEF IInv, IdsFresh
<1>10. StatesPrivate'
  BY <1>2, <1>4, <1>5, <1>6 DEF IInv, StatesPrivate, Stale, Null
<1>11. ServersFit'
  BY <1>2 DEF IInv, ServersFit
<1> QED BY <1>7, <1>8, <1>9, <1>10, <1>11 DEF IInv

LEMMA NextInv == IInv /\ [Next]_vars => IInv'
<1> SUFFICES ASSUME IInv, [Next]_vars PROVE IInv'
  OBVIOUS
<1>1. CASE Restart
  BY <1>1, RestartInv
<1>2. ASSUME NEW c \in Connections, Client(c) PROVE IInv'
  <2>1. ASSUME NEW to \in Resolved \ {"ValueError"}, NEW clear \in BOOLEAN,
               connect(c, to, clear)
        PROVE  IInv'
    BY <2>1, ConnectInv
  <2>2. ASSUME NEW command \in Tried, Send(c, command) PROVE IInv'
    BY <2>2, SendInv
  <2>3. CASE reset(c) \/ reset_server(c)
    BY <2>3, ResetInv
  <2> QED BY <1>2, <2>1, <2>2, <2>3 DEF Client
<1>3. ASSUME NEW c \in Connections, Handle(c) PROVE IInv'
  <2>1. PICK m \in inflight :
          HandleCommand(m) \/ HandleError(m) \/ HandleClearState(m)
          \/ HandleClearAllStates(m)
    BY <1>3 DEF Handle
  <2> QED BY <2>1, CommandInv, OtherMessagesInv
<1>4. CASE UNCHANGED vars
  BY <1>4 DEF vars, IInv, TypeOK, Matched, IdsFresh, StatesPrivate, ServersFit, Stale,
              protocol_state
<1> QED BY <1>1, <1>2, <1>3, <1>4 DEF Next

LEMMA Invariance == Spec => []IInv
  BY InitInv, NextInv, PTL DEF Spec

\* The ids of states, the messages and what connections remember have their
\* types, for any number of connections (connection.py, CryptolServer.hs).
THEOREM TypeCorrect == Spec => []TypeOK
<1>1. IInv => TypeOK
  BY DEF IInv
<1> QED BY <1>1, Invariance, PTL

\* No two connections ever name the same state of a server, and no reset and
\* no late command takes a state that a connection still names
\* (connection.py:258-263, ClearState.hs).
THEOREM NeverShared == Spec => []StatesPrivate
<1>1. IInv => StatesPrivate
  BY DEF IInv
<1> QED BY <1>1, Invariance, PTL

(***************************************************************************)
(* The refinement.  It needs two more facts: only the connection that owns *)
(* a process has messages on their way to it, and a connection that waits  *)
(* for an answer has none yet.                                             *)
(***************************************************************************)
OwnProcess == \A m \in inflight : m.to # Shared => server[m.to] = m.to
NoAnswerYet == \A c \in Connections : Waiting(c) => recent[c].answer = <<>>

LEMMA OwnNext == IInv /\ OwnProcess /\ [Next]_vars => OwnProcess'
<1> SUFFICES ASSUME IInv, OwnProcess, [Next]_vars PROVE OwnProcess'
  OBVIOUS
<1>0. /\ \A m \in inflight : m.to \in Connections \cup {Shared}
      /\ DOMAIN server = Connections
  BY DEF IInv, TypeOK, Servers
<1>1. CASE Restart \/ UNCHANGED vars
  BY <1>1 DEF Restart, OwnProcess, vars
<1>2. ASSUME NEW c \in Connections, NEW to, NEW clear, connect(c, to, clear)
      PROVE  OwnProcess'
  BY <1>0, <1>2 DEF connect, Post, OwnProcess
<1>3. ASSUME NEW c \in Connections, NEW command,
             Send(c, command) \/ reset(c) \/ reset_server(c)
      PROVE  OwnProcess'
  BY <1>0, <1>3 DEF Send, reset, reset_server, Post, OwnProcess, IInv, ServersFit
<1>4. ASSUME NEW m \in inflight,
             HandleCommand(m) \/ HandleError(m) \/ HandleClearState(m)
             \/ HandleClearAllStates(m)
      PROVE  OwnProcess'
  BY <1>4 DEF HandleCommand, HandleError, HandleClearState, HandleClearAllStates,
              Handled, OwnProcess
<1> QED BY <1>1, <1>2, <1>3, <1>4 DEF Next, Client, Handle

LEMMA NoAnswerNext == IInv /\ NoAnswerYet /\ [Next]_vars => NoAnswerYet'
<1> SUFFICES ASSUME IInv, NoAnswerYet, [Next]_vars PROVE NoAnswerYet'
  OBVIOUS
<1>0. DOMAIN recent = Connections
  BY DEF IInv, TypeOK
<1>1. CASE Restart \/ UNCHANGED vars
  <2>1. CASE Restart
    <3>1. ASSUME NEW c \in Connections, Waiting(c)' PROVE recent'[c] = recent[c]
      <4>1. PICK r : r = [recent[c] EXCEPT !.phase = "error", !.command = <<>>]
        OBVIOUS
      <4>2. DOMAIN recent[c] = {"id", "phase", "state", "new", "command", "answer"}
        BY DEF IInv, TypeOK, NoResult
      <4>3. r.phase = "error"
        BY <4>1, <4>2
      <4> QED BY <2>1, <3>1, <4>1, <4>3 DEF Restart, Waiting
    <3> QED BY <3>1 DEF NoAnswerYet, Waiting
  <2> QED BY <1>1, <2>1 DEF vars, NoAnswerYet, Waiting
<1>2. ASSUME NEW c \in Connections, Forget(c) PROVE NoAnswerYet'
  BY <1>0, <1>2 DEF Forget, NoResult, NoAnswerYet, Waiting
<1>3. ASSUME NEW c \in Connections, NEW command, Send(c, command)
      PROVE  NoAnswerYet'
  BY <1>0, <1>3 DEF Send, NoAnswerYet, Waiting
<1>4. ASSUME NEW m \in inflight,
             \/ UNCHANGED recent
             \/ \E phase \in {"ok", "error"} : \E new, answer : Answer(m, phase, new, answer)
      PROVE  NoAnswerYet'
  <2>1. CASE UNCHANGED recent
    BY <2>1 DEF NoAnswerYet, Waiting
  <2>2. ASSUME NEW phase \in {"ok", "error"}, NEW new, NEW answer,
               Answer(m, phase, new, answer)
        PROVE  NoAnswerYet'
    BY <2>2, AnswerEffect DEF NoAnswerYet, Waiting
  <2> QED BY <1>4, <2>1, <2>2
<1>5. ASSUME NEW m \in inflight,
             HandleCommand(m) \/ HandleError(m) \/ HandleClearState(m)
             \/ HandleClearAllStates(m)
      PROVE  NoAnswerYet'
  BY <1>4, <1>5 DEF HandleCommand, HandleError, HandleClearState, HandleClearAllStates
<1> QED BY <1>1, <1>2, <1>3, <1>5
        DEF Next, Client, Handle, connect, reset, reset_server

JInv == IInv /\ OwnProcess /\ NoAnswerYet

LEMMA JInvInit == Init => JInv
  BY InitInv DEF Init, JInv, OwnProcess, NoAnswerYet, NoResult, Waiting

LEMMA JInvNext == JInv /\ [Next]_vars => JInv'
  BY NextInv, OwnNext, NoAnswerNext DEF JInv

Sessions == [c \in Connections |-> SessionOf(c)]
LastCalls == [c \in Connections |-> CallOf(c)]

LEMMA InitRefines == Init => Abstract!Init
<1> SUFFICES ASSUME Init PROVE Abstract!Init
  OBVIOUS
<1>1. \A c \in Connections : recent[c] = NoResult /\ protocol_state(c) = Null
  BY DEF Init, protocol_state, NoResult
<1>2. Sessions = [c \in Connections |-> {Fresh}]
  BY <1>1 DEF SessionOf, Held, Sessions
<1>3. LastCalls = [c \in Connections |-> <<"none", <<>>, <<>>>>]
  BY <1>1 DEF CallOf, LastCalls, NoResult
<1>4. Wiping = {}
  BY DEF Init, Wiping
<1> QED BY <1>2, <1>3, <1>4 DEF Init, Abstract!Init, Abstract!NoCall, Sessions, LastCalls

\* A connection keeps its session when it keeps its server and its state and
\* the server keeps that state as it was.
LEMMA SessionKept ==
  ASSUME NEW c \in Connections, server'[c] = server[c],
         protocol_state(c)' = protocol_state(c),
         \/ protocol_state(c) = Null
         \/ states'[server[c]] = states[server[c]]
         \/ /\ protocol_state(c) \in DOMAIN states'[server[c]]
               <=> protocol_state(c) \in DOMAIN states[server[c]]
            /\ protocol_state(c) \in DOMAIN states[server[c]]
               => states'[server[c]][protocol_state(c)] = states[server[c]][protocol_state(c)]
  PROVE  SessionOf(c)' = SessionOf(c)
<1> PICK p : p = protocol_state(c)
  OBVIOUS
<1> PICK s : s = server[c]
  OBVIOUS
<1>1. SessionOf(c) = IF p = Null THEN {Fresh} ELSE {states[s][i] : i \in {p} \cap DOMAIN states[s]}
  BY DEF SessionOf, Held
<1>2. SessionOf(c)' = IF p = Null THEN {Fresh} ELSE {states'[s][i] : i \in {p} \cap DOMAIN states'[s]}
  BY DEF SessionOf, Held, Null
<1> QED BY <1>1, <1>2

LEMMA SendRefines ==
  ASSUME JInv, NEW c \in Connections, NEW command \in Tried, Send(c, command)
  PROVE  Abstract!Call(c)
<1>1. /\ server[c] # NoServer /\ recent[c].phase # "sent"
      /\ UNCHANGED <<server, states, restarts>>
      /\ inflight' = inflight \cup {Post(c, server[c], "command", protocol_state(c), command)}
      /\ recent' = [recent EXCEPT ![c] =
                     [id |-> calls + 1, phase |-> "sent", state |-> protocol_state(c),
                      new |-> Null, command |-> command, answer |-> <<>>]]
  BY DEF Send, Waiting
<1>2. DOMAIN recent = Connections
  BY DEF JInv, IInv, TypeOK
<1>3. \A d \in Connections : protocol_state(d)' = protocol_state(d)
  BY <1>1, <1>2 DEF protocol_state
<1>4. Sessions' = Sessions
  BY <1>1, <1>3, SessionKept DEF Sessions
<1>5. LastCalls' = [LastCalls EXCEPT ![c] = <<"sent", command, <<>>>>]
  BY <1>1, <1>2 DEF LastCalls, CallOf
<1>6. Wiping' = Wiping
  BY <1>1 DEF Wiping, Post
<1> QED BY <1>1, <1>4, <1>5, <1>6
        DEF Abstract!Call, Sessions, LastCalls, CallOf

\* A connection that forgets has a fresh session; the others keep theirs.
LEMMA ForgetRefines ==
  ASSUME JInv, NEW c \in Connections, Forget(c),
         \A d \in Connections \ {c} : /\ server'[d] = server[d]
                                      /\ states'[server[d]] = states[server[d]]
  PROVE  Abstract!New(c)
<1>1. DOMAIN recent = Connections
  BY DEF JInv, IInv, TypeOK
<1>2. /\ protocol_state(c)' = Null /\ CallOf(c)' = <<"none", <<>>, <<>>>>
      /\ \A d \in Connections \ {c} :
           protocol_state(d)' = protocol_state(d) /\ CallOf(d)' = CallOf(d)
  BY <1>1 DEF Forget, NoResult, protocol_state, CallOf
<1>3. SessionOf(c)' = {Fresh}
  BY <1>2 DEF SessionOf, Held, Null
<1>4. \A d \in Connections \ {c} : SessionOf(d)' = SessionOf(d)
  BY <1>2, SessionKept
<1>5. /\ Sessions' = [Sessions EXCEPT ![c] = {Fresh}]
      /\ LastCalls' = [LastCalls EXCEPT ![c] = <<"none", <<>>, <<>>>>]
  BY <1>2, <1>3, <1>4 DEF Sessions, LastCalls
<1> QED BY <1>5 DEF Abstract!New, Abstract!NoCall, Sessions, LastCalls

LEMMA ResetRefines ==
  ASSUME JInv, NEW c \in Connections, reset(c)
  PROVE  Abstract!Reset(c)
<1>1. /\ recent[c].phase # "sent" /\ Forget(c)
      /\ UNCHANGED <<server, states, restarts>>
      /\ inflight' = inflight \cup {Post(c, server[c], "clearState", protocol_state(c), <<>>)}
  BY DEF reset, Waiting
<1>2. Abstract!New(c)
  BY <1>1, ForgetRefines
<1>3. Wiping' = Wiping
  BY <1>1 DEF Wiping, Post
<1> QED BY <1>1, <1>2, <1>3 DEF Abstract!Reset, CallOf

LEMMA ResetServerRefines ==
  ASSUME JInv, NEW c \in Connections, reset_server(c)
  PROVE  Abstract!ResetServer(c)
<1>1. /\ server[c] # NoServer /\ Forget(c)
      /\ UNCHANGED <<server, states, restarts>>
      /\ inflight' = inflight \cup {Post(c, server[c], "clearAllStates", Null, <<>>)}
  BY DEF reset_server
<1>2. Abstract!New(c)
  BY <1>1, ForgetRefines
<1>3. Wiping \subseteq Wiping' /\ \A w \in Wiping' \ Wiping : w[2] = server[c]
  <2>1. Wiping \subseteq Wiping'
    BY <1>1 DEF Wiping
  <2>2. ASSUME NEW w \in Wiping', w \notin Wiping PROVE w[2] = server[c]
    <3>1. PICK m \in inflight' : m.method = "clearAllStates" /\ w = <<m.id, m.to>>
      BY <2>2 DEF Wiping
    <3>2. m \notin inflight
      BY <2>2, <3>1 DEF Wiping
    <3> QED BY <1>1, <3>1, <3>2 DEF Post
  <2> QED BY <2>1, <2>2
<1> QED BY <1>1, <1>2, <1>3 DEF Abstract!ResetServer

LEMMA ConnectRefines ==
  ASSUME JInv, NEW c \in Connections, NEW to \in Resolved, NEW clear \in BOOLEAN,
         connect(c, to, clear)
  PROVE  Abstract!Connect(c)
<1> DEFINE s == IF to = "own" THEN c ELSE Shared
           post == Post(c, s, "clearAllStates", Null, <<>>)
<1>1. /\ Forget(c)
      /\ server' = [server EXCEPT ![c] = s]
      /\ states' = [states EXCEPT ![c] = [i \in {} |-> Fresh]]
      /\ UNCHANGED restarts
      /\ \/ inflight' = {m \in inflight : m.to # c} \cup {post}
         \/ inflight' = {m \in inflight : m.to # c}
  BY DEF connect
<1>2. s \in Servers /\ post.to = s /\ c # Shared
  BY ServerNames DEF ServerNames, Servers, Post
<1>3. DOMAIN server = Connections /\ DOMAIN states = Servers
  BY DEF JInv, IInv, TypeOK
<1>4. server'[c] = s
  BY <1>1, <1>3
<1> HIDE DEF s, post
<1>5. \A d \in Connections \ {c} : server'[d] = server[d] /\ states'[server[d]] = states[server[d]]
  <2>1. ASSUME NEW d \in Connections \ {c} PROVE server[d] # c
    BY <1>2, ServerNames DEF ServerNames, JInv, IInv, ServersFit
  <2> QED BY <1>1, <1>3, <2>1
<1>6. Abstract!New(c)
  BY <1>1, <1>5, ForgetRefines
<1>7. \A w \in Wiping \ Wiping' : w[2] = server[c]
  <2>1. ASSUME NEW w \in Wiping, w \notin Wiping' PROVE w[2] = server[c]
    <3>1. PICK m \in inflight : m.method = "clearAllStates" /\ w = <<m.id, m.to>>
      BY <2>1 DEF Wiping
    <3>2. m \notin inflight'
      BY <2>1, <3>1 DEF Wiping
    <3>3. m.to = c
      BY <1>1, <3>2
    <3> QED BY <1>2, <3>1, <3>3 DEF JInv, OwnProcess
  <2> QED BY <2>1
<1>8. \A w \in Wiping' \ Wiping : w[2] = server'[c]
  <2>1. ASSUME NEW w \in Wiping', w \notin Wiping PROVE w[2] = s
    <3>1. PICK m \in inflight' : m.method = "clearAllStates" /\ w = <<m.id, m.to>>
      BY <2>1 DEF Wiping
    <3>2. m \notin inflight
      BY <2>1, <3>1 DEF Wiping
    <3> QED BY <1>1, <1>2, <3>1, <3>2
  <2> QED BY <1>4, <2>1
<1> QED BY <1>1, <1>2, <1>6, <1>7, <1>8 DEF Abstract!Connect

\* An error answers the command of its connection, if this still waits.
LEMMA ErrorRefines ==
  ASSUME JInv, NEW m \in inflight, HandleError(m)
  PROVE  Abstract!Fail(m.from) \/ UNCHANGED Abstract!vars
<1>1. /\ m.method = "command" /\ Answer(m, "error", Null, <<>>)
      /\ inflight' = inflight \ {m}
      /\ UNCHANGED <<server, states, calls, restarts>>
  BY DEF HandleError, Handled
<1>2. m.from \in Connections /\ IInv
  BY DEF JInv, IInv, TypeOK
<1>3. \A c \in Connections : protocol_state(c)' = protocol_state(c)
  BY <1>1, <1>2, AnswerEffect
<1>4. Sessions' = Sessions
  BY <1>1, <1>3, SessionKept DEF Sessions
<1>5. Wiping' = Wiping
  BY <1>1 DEF Wiping
<1>6. CASE Stale(m)
  <2>1. UNCHANGED recent
    BY <1>1, <1>6 DEF Answer, Stale
  <2> QED BY <1>1, <1>4, <1>5, <2>1 DEF Abstract!vars, CallOf, Sessions
<1>7. CASE ~Stale(m)
  <2>1. CallOf(m.from)[1] = "sent"
    BY <1>2, <1>7 DEF IInv, Matched, CallOf
  <2>3. \A c \in Connections : IF c = m.from
                               THEN /\ recent'[c].phase = "error"
                                    /\ recent'[c].command = <<>> /\ recent'[c].answer = <<>>
                               ELSE recent'[c] = recent[c]
    BY <1>1, <1>2, <1>7, AnswerEffect
  <2>4. \A c \in Connections :
          CallOf(c)' = IF c = m.from THEN <<"error", <<>>, <<>>>> ELSE CallOf(c)
    BY <2>3 DEF CallOf
  <2>2. LastCalls' = [LastCalls EXCEPT ![m.from] = <<"error", <<>>, <<>>>>]
    BY <1>2, <2>4 DEF LastCalls
  <2> QED BY <1>1, <1>2, <1>4, <1>5, <2>1, <2>2
          DEF Abstract!Fail, Sessions, LastCalls
<1> QED BY <1>6, <1>7

LEMMA ClearStateRefines ==
  ASSUME JInv, NEW m \in inflight, HandleClearState(m)
  PROVE  UNCHANGED Abstract!vars
<1>1. /\ m.method = "clearState" /\ inflight' = inflight \ {m}
      /\ states' = [states EXCEPT ![m.to] = Without(states[m.to], {m.state})]
      /\ UNCHANGED <<server, recent, calls, restarts>>
  BY DEF HandleClearState, Handled
<1>2. \A c \in Connections : protocol_state(c)' = protocol_state(c)
  BY <1>1 DEF protocol_state
<1>3. DOMAIN states = Servers /\ m.to \in Servers
  BY DEF JInv, IInv, TypeOK
<1>4. \A c \in Connections : SessionOf(c)' = SessionOf(c)
  <2>1. ASSUME NEW c \in Connections, server[c] = m.to, protocol_state(c) # Null
        PROVE  SessionOf(c)' = SessionOf(c)
    <3>1. protocol_state(c) # m.state
      BY <1>1, <2>1 DEF JInv, IInv, StatesPrivate
    <3>2. states'[m.to] = Without(states[m.to], {m.state})
      BY <1>1, <1>3
    <3>3. /\ protocol_state(c) \in DOMAIN states'[m.to]
             <=> protocol_state(c) \in DOMAIN states[m.to]
          /\ protocol_state(c) \in DOMAIN states[m.to]
             => states'[m.to][protocol_state(c)] = states[m.to][protocol_state(c)]
      BY <3>1, <3>2 DEF Without
    <3> QED BY <1>1, <1>2, <2>1, <3>3, SessionKept
  <2>2. ASSUME NEW c \in Connections, server[c] # m.to \/ protocol_state(c) = Null
        PROVE  SessionOf(c)' = SessionOf(c)
    <3>1. server[c] # m.to => states'[server[c]] = states[server[c]]
      BY <1>1
    <3> QED BY <1>1, <1>2, <2>2, <3>1, SessionKept
  <2> QED BY <2>1, <2>2
<1>5. Wiping' = Wiping
  BY <1>1 DEF Wiping
<1> QED BY <1>1, <1>4, <1>5 DEF Abstract!vars, CallOf

LEMMA ClearAllRefines ==
  ASSUME JInv, NEW m \in inflight, HandleClearAllStates(m)
  PROVE  Abstract!Wipe
<1> DEFINE w == <<m.id, m.to>>
           losers == {c \in Connections : server[c] = m.to /\ SessionOf(c)' = {}}
<1>1. /\ m.method = "clearAllStates" /\ inflight' = inflight \ {m}
      /\ states' = [states EXCEPT ![m.to] = [i \in {} |-> Fresh]]
      /\ UNCHANGED <<server, recent, calls, restarts>>
  BY DEF HandleClearAllStates, Handled
<1>2. \A c \in Connections : protocol_state(c)' = protocol_state(c) /\ CallOf(c)' = CallOf(c)
  BY <1>1 DEF protocol_state, CallOf
<1>3. DOMAIN states = Servers /\ m.to \in Servers /\ w[2] = m.to
  BY DEF JInv, IInv, TypeOK
<1>4. w \in Wiping /\ Wiping' = Wiping \ {w}
  <2>1. w \in Wiping
    BY <1>1 DEF Wiping
  <2>2. w \notin Wiping'
    BY <1>1 DEF Wiping, JInv, IInv, IdsFresh
  <2>3. ASSUME NEW v \in Wiping, v # w PROVE v \in Wiping'
    <3>1. PICK n \in inflight : n.method = "clearAllStates" /\ v = <<n.id, n.to>>
      BY DEF Wiping
    <3> QED BY <1>1, <2>3, <3>1 DEF Wiping
  <2>4. Wiping' \subseteq Wiping
    BY <1>1 DEF Wiping
  <2> QED BY <2>1, <2>2, <2>3, <2>4
<1>5. \A c \in Connections : SessionOf(c)' = IF c \in losers THEN {} ELSE SessionOf(c)
  <2>1. ASSUME NEW c \in Connections, server[c] = m.to, protocol_state(c) # Null
        PROVE  SessionOf(c)' = {}
    <3>1. states'[m.to] = [i \in {} |-> Fresh]
      BY <1>1, <1>3
    <3>2. DOMAIN states'[server'[c]] = {} /\ protocol_state(c)' # Null
      BY <1>1, <1>2, <2>1, <3>1
    <3> QED BY <3>2 DEF SessionOf, Held, Null
  <2>2. ASSUME NEW c \in Connections, server[c] # m.to \/ protocol_state(c) = Null
        PROVE  SessionOf(c)' = SessionOf(c)
    <3>1. server[c] # m.to => states'[server[c]] = states[server[c]]
      BY <1>1
    <3> QED BY <1>1, <1>2, <2>2, <3>1, SessionKept
  <2> QED BY <2>1, <2>2
<1> HIDE DEF w, losers
<1>6. losers \subseteq {c \in Connections : server[c] = w[2]}
  BY <1>3 DEF losers
<1>7. Sessions' = [c \in Connections |-> IF c \in losers THEN {} ELSE Sessions[c]]
  BY <1>5 DEF Sessions
<1> QED BY <1>1, <1>2, <1>4, <1>6, <1>7 DEF Abstract!Wipe, Abstract!MayLose, Sessions

LEMMA RestartRefines ==
  ASSUME JInv, Restart
  PROVE  Abstract!Restart(Shared)
<1> DEFINE losers == {c \in Connections : server[c] = Shared /\ SessionOf(c)' = {}}
<1>1. /\ inflight' = {m \in inflight : m.to # Shared}
      /\ states' = [states EXCEPT ![Shared] = [i \in {} |-> Fresh]]
      /\ restarts' = restarts + 1
      /\ UNCHANGED <<server, calls>>
  BY DEF Restart
<1>2. \A c \in Connections :
        /\ protocol_state(c)' = protocol_state(c)
        /\ CallOf(c)' = IF server[c] = Shared /\ CallOf(c)[1] = "sent"
                        THEN <<"error", <<>>, <<>>>> ELSE CallOf(c)
  <2>1. ASSUME NEW c \in Connections, server[c] = Shared, Waiting(c)
        PROVE  /\ protocol_state(c)' = protocol_state(c)
               /\ CallOf(c)' = <<"error", <<>>, <<>>>>
    <3>1. PICK r : r = recent[c]
      OBVIOUS
    <3>2. DOMAIN r = {"id", "phase", "state", "new", "command", "answer"}
      BY <3>1 DEF JInv, IInv, TypeOK, NoResult
    <3>3. recent'[c] = [r EXCEPT !.phase = "error", !.command = <<>>]
      BY <2>1, <3>1 DEF Restart
    <3>4. r.answer = <<>> /\ r.phase = "sent"
      BY <2>1, <3>1 DEF JInv, NoAnswerYet, Waiting
    <3>5. /\ recent'[c].phase = "error" /\ recent'[c].command = <<>>
          /\ recent'[c].answer = <<>> /\ recent'[c].state = r.state
      BY <3>2, <3>3, <3>4
    <3> QED BY <3>1, <3>4, <3>5 DEF protocol_state, CallOf
  <2>2. ASSUME NEW c \in Connections, ~(server[c] = Shared /\ Waiting(c))
        PROVE  protocol_state(c)' = protocol_state(c) /\ CallOf(c)' = CallOf(c)
    BY <2>2 DEF Restart, protocol_state, CallOf
  <2>3. \A c \in Connections : Waiting(c) <=> CallOf(c)[1] = "sent"
    BY DEF Waiting, CallOf
  <2> QED BY <2>1, <2>2, <2>3
<1>3. DOMAIN states = Servers /\ Shared \in Servers
  BY DEF JInv, IInv, TypeOK, Servers
<1>4. Wiping' = {v \in Wiping : v[2] # Shared}
  <2>1. ASSUME NEW v \in Wiping' PROVE v \in Wiping /\ v[2] # Shared
    BY <1>1 DEF Wiping
  <2>2. ASSUME NEW v \in Wiping, v[2] # Shared PROVE v \in Wiping'
    BY <1>1, <2>2 DEF Wiping
  <2> QED BY <2>1, <2>2
<1>5. \A c \in Connections : SessionOf(c)' = IF c \in losers THEN {} ELSE SessionOf(c)
  <2>1. ASSUME NEW c \in Connections, server[c] = Shared, protocol_state(c) # Null
        PROVE  SessionOf(c)' = {}
    <3>1. states'[Shared] = [i \in {} |-> Fresh]
      BY <1>1, <1>3
    <3>2. DOMAIN states'[server'[c]] = {} /\ protocol_state(c)' # Null
      BY <1>1, <1>2, <2>1, <3>1
    <3> QED BY <3>2 DEF SessionOf, Held, Null
  <2>2. ASSUME NEW c \in Connections, server[c] # Shared \/ protocol_state(c) = Null
        PROVE  SessionOf(c)' = SessionOf(c)
    <3>1. server[c] # Shared => states'[server[c]] = states[server[c]]
      BY <1>1
    <3> QED BY <1>1, <1>2, <2>2, <3>1, SessionKept
  <2> QED BY <2>1, <2>2
<1> HIDE DEF losers
<1>6. losers \subseteq {c \in Connections : server[c] = Shared}
  BY DEF losers
<1>7. Sessions' = [c \in Connections |-> IF c \in losers THEN {} ELSE Sessions[c]]
  BY <1>5 DEF Sessions
<1> QED BY <1>1, <1>2, <1>4, <1>6, <1>7 DEF Abstract!Restart, Abstract!MayLose, Sessions

\* A command that its connection waits for acts on the session of that
\* connection; what a forgotten one leaves behind belongs to nobody.
LEMMA CommandRefines ==
  ASSUME JInv, NEW m \in inflight, HandleCommand(m)
  PROVE  Abstract!Succeed(m.from) \/ UNCHANGED Abstract!vars
<1>1. /\ m.method = "command" /\ inflight' = inflight \ {m}
      /\ UNCHANGED <<server, calls, restarts>>
  BY DEF HandleCommand, Handled
<1>2. /\ IInv /\ m.from \in Connections /\ m.to \in Servers /\ DOMAIN states = Servers
      /\ m.id # Null
  BY DEF JInv, IInv, TypeOK, Null
<1> DEFINE Kept(dropped, new) == Without(states[m.to], IF new = m.id THEN dropped ELSE {})
           After(dropped, new, content) ==
             IF new = Null THEN states[m.to]
             ELSE [i \in DOMAIN Kept(dropped, new) \cup {new} |->
                     IF i = new THEN content ELSE Kept(dropped, new)[i]]
<1>a. PICK s \in Held(m.to, m.state) : \E r \in Results(s, m.command) :
         \E dropped \in {{}, {m.state}},
            new \in {m.id} \cup (IF r.state = s THEN {m.state} ELSE {}) :
              /\ states' = [states EXCEPT ![m.to] = After(dropped, new, r.state)]
              /\ Answer(m, "ok", new, r.answer)
  BY DEF HandleCommand
<1>b. PICK r \in Results(s, m.command) :
         \E dropped \in {{}, {m.state}},
            new \in {m.id} \cup (IF r.state = s THEN {m.state} ELSE {}) :
              /\ states' = [states EXCEPT ![m.to] = After(dropped, new, r.state)]
              /\ Answer(m, "ok", new, r.answer)
  BY <1>a
<1>c. PICK dropped \in {{}, {m.state}} :
         \E new \in {m.id} \cup (IF r.state = s THEN {m.state} ELSE {}) :
              /\ states' = [states EXCEPT ![m.to] = After(dropped, new, r.state)]
              /\ Answer(m, "ok", new, r.answer)
  BY <1>b
<1>d. PICK new \in {m.id} \cup (IF r.state = s THEN {m.state} ELSE {}) :
              /\ states' = [states EXCEPT ![m.to] = After(dropped, new, r.state)]
              /\ Answer(m, "ok", new, r.answer)
  BY <1>c
<1>3. new \in {m.id, m.state} /\ (new = Null => r.state = s)
  BY <1>2, <1>d
<1>4. states'[m.to] = After(dropped, new, r.state)
  BY <1>2, <1>d
<1>5. \A d \in Connections : d # m.from \/ Stale(m) =>
         protocol_state(d)' = protocol_state(d) /\ CallOf(d)' = CallOf(d)
  BY <1>2, <1>d, AnswerEffect DEF CallOf
<1>6. ASSUME NEW d \in Connections, d # m.from \/ Stale(m)
      PROVE  SessionOf(d)' = SessionOf(d)
  <2>1. CASE server[d] = m.to /\ protocol_state(d) # Null
    <3>1. protocol_state(d) # m.id
      BY DEF JInv, IInv, IdsFresh
    <3>2. protocol_state(d) # m.state
      <4>1. CASE Stale(m)
        BY <2>1, <4>1 DEF JInv, IInv, StatesPrivate
      <4>2. CASE ~Stale(m)
        <5>1. protocol_state(m.from) = m.state
          BY <1>2, <4>2 DEF IInv, Matched, protocol_state
        <5> QED BY <1>2, <1>6, <2>1, <4>2, <5>1 DEF IInv, StatesPrivate
      <4> QED BY <4>1, <4>2
    <3>3. \A i \in {protocol_state(d)} :
            /\ i \in DOMAIN After(dropped, new, r.state) <=> i \in DOMAIN states[m.to]
            /\ i \in DOMAIN states[m.to] => After(dropped, new, r.state)[i] = states[m.to][i]
      BY <1>3, <3>1, <3>2 DEF Without
    <3> HIDE DEF After
    <3> QED BY <1>1, <1>4, <1>5, <1>6, <2>1, <3>3, SessionKept
  <2>2. CASE server[d] # m.to \/ protocol_state(d) = Null
    <3>1. server[d] # m.to => states'[server[d]] = states[server[d]]
      BY <1>d
    <3> QED BY <1>1, <1>5, <1>6, <2>2, <3>1, SessionKept
  <2> QED BY <2>1, <2>2
<1>7. Wiping' = Wiping
  BY <1>1 DEF Wiping
<1>8. CASE Stale(m)
  BY <1>1, <1>5, <1>6, <1>7, <1>8 DEF Abstract!vars
<1>9. CASE ~Stale(m)
  <2>1. /\ recent[m.from].phase = "sent" /\ m.to = server[m.from]
        /\ m.state = protocol_state(m.from) /\ m.command = recent[m.from].command
    BY <1>2, <1>9 DEF IInv, Matched, protocol_state
  <2>2. s \in SessionOf(m.from) /\ r \in Results(s, CallOf(m.from)[2])
    BY <2>1 DEF SessionOf, CallOf
  <2>3. /\ CallOf(m.from)' = <<"ok", <<>>, r.answer>>
        /\ protocol_state(m.from)' = new
    <3>1. /\ recent'[m.from].phase = "ok" /\ recent'[m.from].command = <<>>
          /\ recent'[m.from].answer = r.answer /\ recent'[m.from].new = new
      BY <1>2, <1>9, <1>d, AnswerEffect
    <3> QED BY <3>1 DEF CallOf, protocol_state
  <2>4. SessionOf(m.from)' = {r.state}
    <3>1. SessionOf(m.from)' =
            IF new = Null THEN {Fresh} ELSE {states'[m.to][i] : i \in {new} \cap DOMAIN states'[m.to]}
      BY <1>1, <2>1, <2>3 DEF SessionOf, Held, Null
    <3>2. CASE new = Null
      <4>1. m.state = Null
        BY <1>2, <1>3, <3>2
      <4>2. s = Fresh
        BY <4>1 DEF Held
      <4> QED BY <1>3, <3>1, <3>2, <4>2
    <3>3. CASE new # Null
      <4>1. new \in DOMAIN states'[m.to] /\ states'[m.to][new] = r.state
        BY <1>4, <3>3
      <4> QED BY <3>1, <3>3, <4>1
    <3> QED BY <3>2, <3>3
  <2>5. /\ Sessions' = [Sessions EXCEPT ![m.from] = {r.state}]
        /\ LastCalls' = [LastCalls EXCEPT ![m.from] = <<"ok", <<>>, r.answer>>]
    BY <1>2, <1>5, <1>6, <2>3, <2>4 DEF Sessions, LastCalls
  <2>6. LastCalls[m.from][1] = "sent" /\ LastCalls'[m.from][1] = "ok"
    BY <1>2, <2>1, <2>5 DEF LastCalls, CallOf
  <2> QED BY <1>1, <1>2, <1>7, <2>2, <2>5, <2>6
          DEF Abstract!Succeed, Sessions, LastCalls
<1> QED BY <1>8, <1>9

\* Every connection has a private session, on which a command acts as a
\* whole or not at all, and which only a reset of its server or a new start
\* of that server can take from it (connection.py; docs/Cryptol.rst:35-54).
THEOREM SessionsImplemented == Spec => ImplementsSessions
<1>1. JInv /\ [Next]_vars => [Abstract!Next]_(Abstract!vars)
  <2> SUFFICES ASSUME JInv, [Next]_vars
               PROVE  Abstract!Next \/ UNCHANGED Abstract!vars
    OBVIOUS
  <2>1. CASE Restart
    <3>1. Shared \in Servers
      BY DEF Servers
    <3> QED BY <2>1, <3>1, RestartRefines DEF Abstract!Next
  <2>2. ASSUME NEW c \in Connections, Client(c) PROVE Abstract!Next
    <3>1. ASSUME NEW to \in Resolved \ {"ValueError"}, NEW clear \in BOOLEAN,
                 connect(c, to, clear)
          PROVE  Abstract!Next
      BY <3>1, ConnectRefines DEF Abstract!Next
    <3>2. ASSUME NEW command \in Tried, Send(c, command) PROVE Abstract!Next
      BY <3>2, SendRefines DEF Abstract!Next
    <3>3. CASE reset(c)
      BY <3>3, ResetRefines DEF Abstract!Next
    <3>4. CASE reset_server(c)
      BY <3>4, ResetServerRefines DEF Abstract!Next
    <3> QED BY <2>2, <3>1, <3>2, <3>3, <3>4 DEF Client
  <2>3. ASSUME NEW c \in Connections, Handle(c)
        PROVE  Abstract!Next \/ UNCHANGED Abstract!vars
    <3>1. PICK m \in inflight :
            HandleCommand(m) \/ HandleError(m) \/ HandleClearState(m)
            \/ HandleClearAllStates(m)
      BY <2>3 DEF Handle
    <3>2. m.from \in Connections
      BY DEF JInv, IInv, TypeOK
    <3> QED BY <3>1, <3>2, CommandRefines, ErrorRefines, ClearStateRefines, ClearAllRefines
            DEF Abstract!Next
  <2>4. CASE UNCHANGED vars
    BY <2>4 DEF vars, Abstract!vars, SessionOf, CallOf, Held, protocol_state, Wiping
  <2> QED BY <2>1, <2>2, <2>3, <2>4 DEF Next
<1> QED BY <1>1, JInvInit, JInvNext, InitRefines, PTL
        DEF Spec, ImplementsSessions, Abstract!Spec

(***************************************************************************)
(* Names for opaque values.  Induction over the natural numbers is used    *)
(* here in the form of a set that has every number whose predecessors it   *)
(* has.                                                                    *)
(***************************************************************************)
LEMMA SetInduction ==
  ASSUME NEW S \in SUBSET Nat,
         \A n \in Nat : (\A m \in Nat : m < n => m \in S) => n \in S
  PROVE  S = Nat
<1> DEFINE R == {ss \in Nat \X Nat : ss[1] < ss[2]}
           T == Nat \ S
<1>1. IsWellFoundedOn(R, Nat)
  BY NatLessThanWellFounded DEF OpToRel
<1>2. ASSUME T # {} PROVE FALSE
  <2>1. PICK x \in T : \A y \in T : <<y, x>> \notin R
    BY <1>1, <1>2, WFMin
  <2> QED BY <2>1
<1> QED BY <1>2

\* A set of numbers that is not empty has a least one.
LEMMA LeastNumber ==
  ASSUME NEW S \in SUBSET Nat, S # {}
  PROVE  Min(S) \in S
<1>1. \E x \in S : \A y \in S : x <= y
  <2> SUFFICES ASSUME \A x \in S : \E y \in S : y < x
               PROVE  FALSE
    OBVIOUS
  <2> DEFINE T == {n \in Nat : n \notin S}
  <2>1. \A n \in Nat : (\A m \in Nat : m < n => m \in T) => n \in T
    OBVIOUS
  <2>2. T = Nat
    <3> HIDE DEF T
    <3>1. T \in SUBSET Nat
      BY DEF T
    <3> QED BY <2>1, <3>1, SetInduction
  <2> QED BY <2>2
<1> QED BY <1>1 DEF Min

\* genFresh finds a name that is not in use: a set of names cannot have one
\* more of them than it has elements (Expression.hs:654-668).
LEMMA FreshNameFree ==
  ASSUME NEW names, IsFiniteSet(DOMAIN names), NEW v
  PROVE  FreshName(names, v) \notin DOMAIN names
<1> DEFINE size == Cardinality(DOMAIN names)
           free == {n \in size .. 2 * size : <<Kind[v], n>> \notin DOMAIN names}
<1>1. size \in Nat
  BY FS_CardinalityType
<1>2. free # {}
  <2> SUFFICES ASSUME free = {} PROVE FALSE
    OBVIOUS
  <2> DEFINE I == size .. 2 * size
             f == [n \in I |-> <<Kind[v], n>>]
  <2>1. IsFiniteSet(I) /\ Cardinality(I) = size + 1
    <3> HIDE DEF size, free
    <3>1. size \in Int /\ 2 * size \in Int /\ ~(size > 2 * size)
          /\ (2 * size - size) + 1 = size + 1
      BY <1>1
    <3> QED BY <3>1, FS_Interval
  <2>2. f \in [I -> DOMAIN names]
    OBVIOUS
  <2>3. \A n, k \in I : f[n] = f[k] => n = k
    OBVIOUS
  <2> HIDE DEF f, I
  <2>4. size < Cardinality(I)
    BY <1>1, <2>1
  <2>5. \E n, k \in I : n # k /\ f[n] = f[k]
    BY <2>1, <2>2, <2>4, FS_PigeonHole
  <2> QED BY <2>3, <2>5
<1>3. free \in SUBSET Nat
  BY <1>1
<1>4. Min(free) \in free
  BY <1>2, <1>3, LeastNumber
<1> QED BY <1>4 DEF FreshName

\* A new name leaves the others, and what they stand for, as they are.
LEMMA BindKeeps ==
  ASSUME NEW names, IsFiniteSet(DOMAIN names), NEW v
  PROVE  LET after == bindValToFreshName(names, v)
         IN  /\ IsFiniteSet(DOMAIN after)
             /\ FreshName(names, v) \in DOMAIN after /\ after[FreshName(names, v)] = v
             /\ \A n \in DOMAIN names : n \in DOMAIN after /\ after[n] = names[n]
<1>1. FreshName(names, v) \notin DOMAIN names
  BY FreshNameFree
<1>2. IsFiniteSet(DOMAIN names \cup {FreshName(names, v)})
  BY FS_AddElement
<1> QED BY <1>1, <1>2 DEF bindValToFreshName

\* NamesAfter is what its definition says: there is such a function.
LEMMA NamesAfterDef ==
  ASSUME NEW names, NEW V, NEW values \in Seq(V)
  PROVE  NamesAfter(names, values) =
           [k \in 0 .. Len(values) |->
              IF k = 0 THEN names
              ELSE bindValToFreshName(NamesAfter(names, values)[k - 1], values[k])]
<1> DEFINE Step(n, f) == [k \in 0 .. n |->
                            IF k = 0 THEN names ELSE bindValToFreshName(f[k - 1], values[k])]
           S == {n \in Nat : \E f : f = Step(n, f)}
<1>1. 0 \in S
  <2> DEFINE f == [k \in 0 .. 0 |-> names]
  <2>1. f = Step(0, f)
    OBVIOUS
  <2> QED BY <2>1
<1>2. ASSUME NEW n \in Nat, n \in S PROVE n + 1 \in S
  <2>1. PICK f : f = Step(n, f)
    BY <1>2
  <2> DEFINE g == [k \in 0 .. (n + 1) |->
                     IF k <= n THEN f[k] ELSE bindValToFreshName(f[n], values[n + 1])]
  <2>2. ASSUME NEW k \in 0 .. (n + 1)
        PROVE  g[k] = IF k = 0 THEN names ELSE bindValToFreshName(g[k - 1], values[k])
    <3>1. CASE k = 0
      BY <2>1, <3>1
    <3>2. CASE k # 0 /\ k <= n
      <4>1. f[k] = bindValToFreshName(f[k - 1], values[k])
        BY <2>1, <3>2
      <4>2. g[k] = f[k] /\ g[k - 1] = f[k - 1]
        BY <3>2
      <4> QED BY <3>2, <4>1, <4>2
    <3>3. CASE k = n + 1
      BY <3>3
    <3> QED BY <3>1, <3>2, <3>3
  <2>3. g = Step(n + 1, g)
    BY <2>2
  <2> HIDE DEF g, Step
  <2>4. \E h : h = Step(n + 1, h)
    BY <2>3
  <2> QED BY <2>4
<1>3. S = Nat
  <2> HIDE DEF S
  <2>1. S \in SUBSET Nat
    BY DEF S
  <2>2. \A n \in Nat : (\A m \in Nat : m < n => m \in S) => n \in S
    <3> SUFFICES ASSUME NEW n \in Nat, \A m \in Nat : m < n => m \in S
                 PROVE  n \in S
      OBVIOUS
    <3>1. CASE n = 0
      BY <1>1, <3>1
    <3>2. CASE n # 0
      <4>1. n - 1 \in Nat /\ n - 1 \in S /\ (n - 1) + 1 = n
        BY <3>2
      <4> QED BY <1>2, <4>1
    <3> QED BY <3>1, <3>2
  <2> QED BY <2>1, <2>2, SetInduction
<1>4. Len(values) \in S
  BY <1>3
<1>5. \E f : f = Step(Len(values), f)
  BY <1>4
<1> QED BY <1>5 DEF NamesAfter

\* While the parts of a result are bound, the names that were there, those of
\* earlier parts among them, keep their values.
LEMMA NamesAfterKeeps ==
  ASSUME NEW names, IsFiniteSet(DOMAIN names), NEW V, NEW values \in Seq(V)
  PROVE  LET after == NamesAfter(names, values)
         IN  \A k \in 0 .. Len(values) :
               /\ IsFiniteSet(DOMAIN after[k])
               /\ \A j \in 0 .. k : \A n \in DOMAIN after[j] :
                    n \in DOMAIN after[k] /\ after[k][n] = after[j][n]
<1> DEFINE after == NamesAfter(names, values)
           Kept(k) == /\ IsFiniteSet(DOMAIN after[k])
                      /\ \A j \in 0 .. k : \A n \in DOMAIN after[j] :
                           n \in DOMAIN after[k] /\ after[k][n] = after[j][n]
           S == {k \in Nat : k <= Len(values) => Kept(k)}
<1>0. Len(values) \in Nat
  OBVIOUS
<1>1. \A k \in 0 .. Len(values) :
        after[k] = IF k = 0 THEN names ELSE bindValToFreshName(after[k - 1], values[k])
  BY NamesAfterDef
<1> HIDE DEF after
<1>2. Kept(0)
  BY <1>0, <1>1
<1>3. ASSUME NEW k \in Nat, k > 0, k <= Len(values), Kept(k - 1) PROVE Kept(k)
  <2>1. after[k] = bindValToFreshName(after[k - 1], values[k])
    BY <1>0, <1>1, <1>3
  <2>2. /\ IsFiniteSet(DOMAIN after[k])
        /\ \A n \in DOMAIN after[k - 1] :
             n \in DOMAIN after[k] /\ after[k][n] = after[k - 1][n]
    BY <1>3, <2>1, BindKeeps
  <2>3. ASSUME NEW j \in 0 .. k, NEW n \in DOMAIN after[j]
        PROVE  n \in DOMAIN after[k] /\ after[k][n] = after[j][n]
    <3>1. CASE j = k
      BY <3>1
    <3>2. CASE j # k
      <4>1. j \in 0 .. (k - 1)
        BY <1>3, <3>2
      <4> QED BY <1>3, <2>2, <4>1
    <3> QED BY <3>1, <3>2
  <2> QED BY <2>2, <2>3
<1>4. S = Nat
  <2> HIDE DEF Kept
  <2>1. S \in SUBSET Nat
    OBVIOUS
  <2>2. \A k \in Nat : (\A m \in Nat : m < k => m \in S) => k \in S
    <3> SUFFICES ASSUME NEW k \in Nat, \A m \in Nat : m < k => m \in S,
                        k <= Len(values)
                 PROVE  Kept(k)
      OBVIOUS
    <3>1. CASE k = 0
      BY <1>2, <3>1
    <3>2. CASE k # 0
      <4>1. k - 1 \in Nat /\ k - 1 < k /\ k - 1 <= Len(values) /\ k > 0
        BY <1>0, <3>2
      <4> QED BY <1>3, <4>1
    <3> QED BY <3>1, <3>2
  <2> HIDE DEF S
  <2> QED BY <2>1, <2>2, SetInduction
<1>5. \A k \in 0 .. Len(values) : Kept(k)
  BY <1>0, <1>4
<1> QED BY <1>5 DEF after

\* What evaluating an expression does to the names: those that were there stay,
\* and each part of the result is found under the name that the client gets.
LEMMA BindAllKeeps ==
  ASSUME NEW s, IsFiniteSet(DOMAIN s.names), NEW V, NEW values \in Seq(V)
  PROVE  LET b == BindAll(s, values)
         IN  /\ IsFiniteSet(DOMAIN b.names)
             /\ \A n \in DOMAIN s.names : n \in DOMAIN b.names /\ b.names[n] = s.names[n]
             /\ DOMAIN b.new = 1 .. Len(values)
             /\ \A k \in DOMAIN b.new :
                  b.new[k] \in DOMAIN b.names /\ b.names[b.new[k]] = values[k]
<1> DEFINE after == NamesAfter(s.names, values)
           len == Len(values)
<1>0. len \in Nat
  OBVIOUS
<1>1. \A k \in 0 .. len :
        after[k] = IF k = 0 THEN s.names ELSE bindValToFreshName(after[k - 1], values[k])
  BY NamesAfterDef
<1>2. \A k \in 0 .. len :
        /\ IsFiniteSet(DOMAIN after[k])
        /\ \A j \in 0 .. k : \A n \in DOMAIN after[j] :
             n \in DOMAIN after[k] /\ after[k][n] = after[j][n]
  BY NamesAfterKeeps
<1>3. /\ BindAll(s, values).names = after[len]
      /\ BindAll(s, values).new = [k \in 1 .. len |-> FreshName(after[k - 1], values[k])]
  BY DEF BindAll
<1> HIDE DEF after, len
<1>4. ASSUME NEW k \in 1 .. len
      PROVE  LET n == FreshName(after[k - 1], values[k])
             IN  n \in DOMAIN after[len] /\ after[len][n] = values[k]
  <2>1. k \in 0 .. len /\ k - 1 \in 0 .. len /\ len \in 0 .. len /\ k # 0
    BY <1>0
  <2>2. IsFiniteSet(DOMAIN after[k - 1])
        /\ after[k] = bindValToFreshName(after[k - 1], values[k])
    BY <1>1, <1>2, <2>1
  <2>3. LET n == FreshName(after[k - 1], values[k])
        IN  n \in DOMAIN after[k] /\ after[k][n] = values[k]
    BY <2>2, BindKeeps
  <2> QED BY <1>2, <2>1, <2>3
<1>5. /\ IsFiniteSet(DOMAIN after[len])
      /\ \A n \in DOMAIN s.names : n \in DOMAIN after[len] /\ after[len][n] = s.names[n]
  BY <1>0, <1>1, <1>2
<1> QED BY <1>3, <1>4, <1>5 DEF len

(***************************************************************************)
(* Opaque values.                                                          *)
(***************************************************************************)
\* What a step does to the session of a connection and to what its script
\* knows: it leaves both, or takes the session away; it makes the session new
\* and the script forgets; or a command succeeds on it.
Undisturbed(c) == SessionOf(c)' \subseteq SessionOf(c) /\ known'[c] = known[c]
Renewed(c) == SessionOf(c)' = {Fresh} /\ known'[c] = {}
Acted(c) ==
    \E s \in SessionOf(c) : \E r \in Results(s, CallOf(c)[2]) :
        /\ CallOf(c)[1] = "sent"
        /\ SessionOf(c)' = {r.state}
        /\ known'[c] = KnownAfter(known[c], CallOf(c)[2], r.answer)

NotAsked(c) == CallOf(c)'[1] # "sent" \/ CallOf(c)' = CallOf(c)

\* The steps of AbstractSession, for one connection.
LEMMA NewStep ==
  ASSUME JInv, NEW d \in Connections, Abstract!New(d), Forget(d), NEW c \in Connections
  PROVE  (Undisturbed(c) \/ Renewed(c)) /\ NotAsked(c)
<1>1. DOMAIN known = Connections
  BY DEF JInv, IInv, TypeOK
<1>2. /\ Sessions' = [Sessions EXCEPT ![d] = {Fresh}]
      /\ LastCalls' = [LastCalls EXCEPT ![d] = <<"none", <<>>, <<>>>>]
      /\ known' = [known EXCEPT ![d] = {}]
  BY DEF Abstract!New, Abstract!NoCall, Forget, Sessions, LastCalls
<1>3. CASE c = d
  <2>1. SessionOf(c)' = {Fresh} /\ known'[c] = {} /\ CallOf(c)'[1] = "none"
    BY <1>1, <1>2, <1>3 DEF Sessions, LastCalls
  <2> QED BY <2>1 DEF Renewed, NotAsked
<1>4. CASE c # d
  <2>1. SessionOf(c)' = SessionOf(c) /\ known'[c] = known[c] /\ CallOf(c)' = CallOf(c)
    BY <1>1, <1>2, <1>4 DEF Sessions, LastCalls
  <2> QED BY <2>1 DEF Undisturbed, NotAsked
<1> QED BY <1>3, <1>4

LEMMA CommandStep ==
  ASSUME JInv, NEW m \in inflight, HandleCommand(m), NEW c \in Connections
  PROVE  (Undisturbed(c) \/ Acted(c)) /\ NotAsked(c)
<1>0. /\ IInv /\ m.from \in Connections /\ DOMAIN known = Connections
      /\ DOMAIN recent = Connections
  BY DEF JInv, IInv, TypeOK
<1>1. PICK new, answer :
        /\ Answer(m, "ok", new, answer)
        /\ known' = IF recent[m.from].id = m.id
                    THEN [known EXCEPT ![m.from] =
                            KnownAfter(known[m.from], m.command, answer)]
                    ELSE known
  BY DEF HandleCommand
<1>2. Abstract!Succeed(m.from) \/ UNCHANGED Abstract!vars
  BY CommandRefines
<1>3. CASE Stale(m)
  <2>1. UNCHANGED <<known, recent>>
    BY <1>1, <1>3 DEF Stale, Answer
  <2>2. LastCalls' = LastCalls
    BY <2>1 DEF LastCalls, CallOf
  <2>3. ~Abstract!Succeed(m.from)
    BY <1>0, <2>2 DEF Abstract!Succeed, LastCalls
  <2>4. Sessions' = Sessions
    BY <1>2, <2>3 DEF Abstract!vars, Sessions
  <2>5. SessionOf(c)' = SessionOf(c) /\ CallOf(c)' = CallOf(c)
    BY <2>2, <2>4 DEF Sessions, LastCalls
  <2> QED BY <2>1, <2>5 DEF Undisturbed, NotAsked
<1>4. CASE ~Stale(m)
  <2>1. /\ recent[m.from].phase = "sent" /\ m.command = CallOf(m.from)[2]
        /\ CallOf(m.from)[1] = "sent"
    BY <1>0, <1>4 DEF IInv, Matched, CallOf
  <2>2. /\ recent'[m.from].phase = "ok" /\ recent'[m.from].answer = answer
        /\ CallOf(m.from)'[1] = "ok" /\ CallOf(m.from)'[3] = answer
    BY <1>0, <1>1, <1>4, AnswerEffect DEF CallOf
  <2>3. LastCalls'[m.from] # LastCalls[m.from]
    BY <1>0, <2>1, <2>2 DEF LastCalls
  <2>4. Abstract!Succeed(m.from)
    BY <1>2, <2>3 DEF Abstract!vars, LastCalls
  <2>5. PICK s \in Sessions[m.from] : \E r \in Results(s, LastCalls[m.from][2]) :
          /\ LastCalls' = [LastCalls EXCEPT ![m.from] = <<"ok", <<>>, r.answer>>]
          /\ Sessions' = [Sessions EXCEPT ![m.from] = {r.state}]
    BY <2>4 DEF Abstract!Succeed, Sessions, LastCalls
  <2>6. PICK r \in Results(s, LastCalls[m.from][2]) :
          /\ LastCalls' = [LastCalls EXCEPT ![m.from] = <<"ok", <<>>, r.answer>>]
          /\ Sessions' = [Sessions EXCEPT ![m.from] = {r.state}]
    BY <2>5
  <2>7. CASE c # m.from
    <3>1. SessionOf(c)' = SessionOf(c) /\ known'[c] = known[c] /\ CallOf(c)' = CallOf(c)
      BY <1>0, <1>1, <2>6, <2>7 DEF Sessions, LastCalls
    <3> QED BY <3>1 DEF Undisturbed, NotAsked
  <2>8. CASE c = m.from
    <3>1. s \in SessionOf(c) /\ r \in Results(s, CallOf(c)[2])
      BY <2>5, <2>6, <2>8 DEF Sessions, LastCalls
    <3>2. SessionOf(c)' = {r.state} /\ CallOf(c)' = <<"ok", <<>>, r.answer>>
      BY <2>6, <2>8 DEF Sessions, LastCalls
    <3>3. r.answer = answer
      BY <2>2, <2>8, <3>2
    <3>4. known'[c] = KnownAfter(known[c], CallOf(c)[2], r.answer)
      BY <1>0, <1>1, <1>4, <2>1, <2>8, <3>3 DEF Stale
    <3> QED BY <2>1, <2>8, <3>1, <3>2, <3>4 DEF Acted, NotAsked
  <2> QED BY <2>7, <2>8
<1> QED BY <1>3, <1>4

LEMMA SessionStep ==
  ASSUME JInv, [Next]_vars, NEW c \in Connections
  PROVE  /\ Undisturbed(c) \/ Renewed(c) \/ Acted(c)
         /\ NotAsked(c) \/ CallOf(c)'[2] \in Tried
<1>1. CASE UNCHANGED vars
  BY <1>1 DEF vars, Undisturbed, NotAsked, SessionOf, CallOf, Held, protocol_state
<1>2. CASE Restart
  <2>1. Abstract!Restart(Shared) /\ UNCHANGED known
    BY <1>2, RestartRefines DEF Restart
  <2>2. /\ LastCalls' = [d \in Connections |->
                           IF server[d] = Shared /\ LastCalls[d][1] = "sent"
                           THEN <<"error", <<>>, <<>>>> ELSE LastCalls[d]]
        /\ \E losers : Sessions' = [d \in Connections |->
                                     IF d \in losers THEN {} ELSE Sessions[d]]
    BY <2>1 DEF Abstract!Restart, Abstract!MayLose, Sessions, LastCalls
  <2>3. /\ CallOf(c)' = CallOf(c) \/ CallOf(c)' = <<"error", <<>>, <<>>>>
        /\ SessionOf(c)' \subseteq SessionOf(c)
    BY <2>2 DEF Sessions, LastCalls
  <2> QED BY <2>1, <2>3 DEF Undisturbed, NotAsked
<1>3. ASSUME NEW d \in Connections,
             \/ \E to \in Resolved \ {"ValueError"}, clear \in BOOLEAN : connect(d, to, clear)
             \/ reset(d) \/ reset_server(d)
      PROVE  Abstract!New(d) /\ Forget(d)
  <2>1. ASSUME NEW to \in Resolved, NEW clear \in BOOLEAN, connect(d, to, clear)
        PROVE  Abstract!New(d) /\ Forget(d)
    BY <2>1, ConnectRefines DEF connect, Abstract!Connect
  <2>2. CASE reset(d)
    BY <2>2, ResetRefines DEF reset, Abstract!Reset
  <2>3. CASE reset_server(d)
    BY <2>3, ResetServerRefines DEF reset_server, Abstract!ResetServer
  <2> QED BY <1>3, <2>1, <2>2, <2>3
<1>4. ASSUME NEW d \in Connections, NEW command \in Tried, Send(d, command)
      PROVE  Undisturbed(c) /\ (NotAsked(c) \/ CallOf(c)'[2] \in Tried)
  <2>1. Abstract!Call(d) /\ UNCHANGED known
    BY <1>4, SendRefines DEF Send
  <2>2. PICK r \in Tried : LastCalls' = [LastCalls EXCEPT ![d] = <<"sent", r, <<>>>>]
    BY <2>1 DEF Abstract!Call, LastCalls
  <2>3. Sessions' = Sessions
    BY <2>1 DEF Abstract!Call, Sessions
  <2>4. SessionOf(c)' = SessionOf(c)
    BY <2>3 DEF Sessions
  <2>5. CallOf(c)' = CallOf(c) \/ CallOf(c)' = <<"sent", r, <<>>>>
    BY <2>2 DEF LastCalls
  <2> QED BY <2>1, <2>4, <2>5 DEF Undisturbed, NotAsked
<1>5. ASSUME NEW m \in inflight, HandleError(m)
      PROVE  Undisturbed(c) /\ NotAsked(c)
  <2>1. (Abstract!Fail(m.from) \/ UNCHANGED Abstract!vars) /\ UNCHANGED known
    BY <1>5, ErrorRefines DEF HandleError
  <2>2. /\ Sessions' = Sessions
        /\ \/ LastCalls' = LastCalls
           \/ LastCalls' = [LastCalls EXCEPT ![m.from] = <<"error", <<>>, <<>>>>]
    BY <2>1 DEF Abstract!Fail, Abstract!vars, Sessions, LastCalls
  <2>3. /\ SessionOf(c)' = SessionOf(c)
        /\ CallOf(c)' = CallOf(c) \/ CallOf(c)' = <<"error", <<>>, <<>>>>
    BY <2>2 DEF Sessions, LastCalls
  <2> QED BY <2>1, <2>3 DEF Undisturbed, NotAsked
<1>6. ASSUME NEW m \in inflight, HandleClearState(m) \/ HandleClearAllStates(m)
      PROVE  Undisturbed(c) /\ NotAsked(c)
  <2>1. (UNCHANGED Abstract!vars \/ Abstract!Wipe) /\ UNCHANGED <<known, recent>>
    BY <1>6, ClearStateRefines, ClearAllRefines DEF HandleClearState, HandleClearAllStates
  <2>2. \/ Sessions' = Sessions
        \/ \E losers : Sessions' = [d \in Connections |->
                                     IF d \in losers THEN {} ELSE Sessions[d]]
    BY <2>1 DEF Abstract!Wipe, Abstract!MayLose, Abstract!vars, Sessions
  <2>3. SessionOf(c)' \subseteq SessionOf(c)
    BY <2>2 DEF Sessions
  <2> QED BY <2>1, <2>3 DEF Undisturbed, NotAsked, CallOf
<1> QED BY <1>1, <1>2, <1>3, <1>4, <1>5, <1>6, NewStep, CommandStep
        DEF Next, Client, Handle

\* A session is a record with finitely many names, and what a connection waits
\* for is a command.
SessionOK ==
    \A c \in Connections :
        /\ \A s \in SessionOf(c) : "names" \in DOMAIN s /\ IsFiniteSet(DOMAIN s.names)
        /\ CallOf(c)[1] = "sent" => CallOf(c)[2] \in Tried

\* No command takes a name away or gives it to another value, but that loading
\* a module empties the session.
LEMMA ResultsKeep ==
  ASSUME NEW s, "names" \in DOMAIN s, IsFiniteSet(DOMAIN s.names),
         NEW command \in Tried, NEW r \in Results(s, command), NEW known0,
         \A k \in known0 : k.name \in DOMAIN s.names /\ s.names[k.name] = k.value
  PROVE  /\ "names" \in DOMAIN r.state /\ IsFiniteSet(DOMAIN r.state.names)
         /\ \A k \in KnownAfter(known0, command, r.answer) :
              k.name \in DOMAIN r.state.names /\ r.state.names[k.name] = k.value
<1>1. command \in Commands
  BY OnlyCommands DEF OnlyCommands
<1>2. command.op \in {"loadModule", "loadFile", "extSearchPath", "evalExpression", "use",
                      "focusedModule"}
  BY <1>1 DEF Commands
<1>3. CASE command.op \in {"loadModule", "loadFile"}
  <2>1. ASSUME NEW file
        PROVE  /\ "names" \in DOMAIN LoadFile(s, file)
               /\ DOMAIN LoadFile(s, file).names = {}
    BY DEF LoadFile, Fresh
  <2>2. "names" \in DOMAIN r.state /\ DOMAIN r.state.names = {}
    <3>1. CASE command.op = "loadModule"
      <4>1. Results(s, command) = {Done(LoadFile(s, f)) : f \in FindModule(s.path, command.module)}
        BY <3>1 DEF Results
      <4> QED BY <2>1, <4>1 DEF Done, Same
    <3>2. CASE command.op = "loadFile"
      <4>1. Results(s, command) = {Done(LoadFile(s, command.file))}
        BY <3>2 DEF Results
      <4> QED BY <2>1, <4>1 DEF Done, Same
    <3> QED BY <1>3, <3>1, <3>2
  <2>3. KnownAfter(known0, command, r.answer) = {}
    BY <1>3 DEF KnownAfter
  <2> QED BY <2>2, <2>3, FS_EmptySet
<1>4. CASE command.op \in {"extSearchPath", "use", "focusedModule"}
  <2>1. r.state.names = s.names /\ "names" \in DOMAIN r.state
    <3>1. CASE command.op = "extSearchPath"
      <4>1. Results(s, command) = {Done(extendSearchPath(s, command.dir))}
        BY <3>1 DEF Results
      <4>2. PICK path : extendSearchPath(s, command.dir) = [s EXCEPT !.path = path]
        BY DEF extendSearchPath
      <4> QED BY <4>1, <4>2 DEF Done, Same
    <3>2. CASE command.op = "use"
      <4>1. Results(s, command) =
              {Same(s, <<s.names[n]>>) : n \in {command.name} \cap DOMAIN s.names}
        BY <3>2 DEF Results
      <4> QED BY <4>1 DEF Same
    <3>3. CASE command.op = "focusedModule"
      <4>1. \E answer : Results(s, command) = {Same(s, answer)}
        BY <3>3 DEF Results
      <4> QED BY <4>1 DEF Same
    <3> QED BY <1>4, <3>1, <3>2, <3>3
  <2>2. KnownAfter(known0, command, r.answer) = known0
    BY <1>4 DEF KnownAfter
  <2> QED BY <2>1, <2>2
<1>5. CASE command.op = "evalExpression"
  <2> DEFINE b == BindAll(s, command.values)
  <2>1. command.values \in Seq(Values)
    <3>1. command.values \in
            {<<>>} \cup {<<v>> : v \in Values} \cup {<<v, w>> : v, w \in Values}
      BY <1>1, <1>5 DEF Commands
    <3>2. CASE command.values = <<>>
      BY <3>2
    <3>3. ASSUME NEW v \in Values, command.values = <<v>>
          PROVE  command.values \in Seq(Values)
      BY <3>3
    <3>4. ASSUME NEW v \in Values, NEW w \in Values, command.values = <<v, w>>
          PROVE  command.values \in Seq(Values)
      BY <3>4
    <3> QED BY <3>1, <3>2, <3>3, <3>4
  <2>2. /\ IsFiniteSet(DOMAIN b.names)
        /\ \A n \in DOMAIN s.names : n \in DOMAIN b.names /\ b.names[n] = s.names[n]
        /\ DOMAIN b.new = 1 .. Len(command.values)
        /\ \A k \in DOMAIN b.new :
             b.new[k] \in DOMAIN b.names /\ b.names[b.new[k]] = command.values[k]
    BY <2>1, BindAllKeeps
  <2> HIDE DEF b
  <2>3. r.state = [s EXCEPT !.names = b.names] /\ r.answer = b.new
    BY <1>5 DEF Results, b
  <2>4. r.state.names = b.names /\ "names" \in DOMAIN r.state
    BY <2>3
  <2>5. KnownAfter(known0, command, r.answer) =
          known0 \cup {[name |-> b.new[k], value |-> command.values[k]] : k \in DOMAIN b.new}
    BY <1>5, <2>3 DEF KnownAfter
  <2> QED BY <2>2, <2>4, <2>5
<1> QED BY <1>2, <1>3, <1>4, <1>5

LEMMA OpaqueInit == Init => SessionOK /\ OpaqueAlive
<1> SUFFICES ASSUME Init PROVE SessionOK /\ OpaqueAlive
  OBVIOUS
<1>1. \A c \in Connections :
        recent[c] = NoResult /\ protocol_state(c) = Null /\ known[c] = {}
  BY DEF Init, protocol_state, NoResult
<1>2. \A c \in Connections : SessionOf(c) = {Fresh} /\ CallOf(c)[1] = "none"
  BY <1>1 DEF SessionOf, Held, CallOf, NoResult
<1>3. "names" \in DOMAIN Fresh /\ DOMAIN Fresh.names = {}
  BY DEF Fresh
<1> QED BY <1>1, <1>2, <1>3, FS_EmptySet DEF SessionOK, OpaqueAlive

LEMMA OpaqueNext ==
  JInv /\ SessionOK /\ OpaqueAlive /\ [Next]_vars => SessionOK' /\ OpaqueAlive'
<1> SUFFICES ASSUME JInv, SessionOK, OpaqueAlive, [Next]_vars, NEW c \in Connections
             PROVE  /\ \A s \in SessionOf(c)' :
                         /\ "names" \in DOMAIN s /\ IsFiniteSet(DOMAIN s.names)
                         /\ \A k \in known'[c] :
                              k.name \in DOMAIN s.names /\ s.names[k.name] = k.value
                    /\ CallOf(c)'[1] = "sent" => CallOf(c)'[2] \in Tried
  BY DEF SessionOK, OpaqueAlive
<1>1. CallOf(c)'[1] = "sent" => CallOf(c)'[2] \in Tried
  BY SessionStep DEF SessionOK, NotAsked
<1>2. CASE Undisturbed(c)
  BY <1>1, <1>2 DEF Undisturbed, SessionOK, OpaqueAlive
<1>3. CASE Renewed(c)
  <2>1. "names" \in DOMAIN Fresh /\ DOMAIN Fresh.names = {}
    BY DEF Fresh
  <2> QED BY <1>1, <1>3, <2>1, FS_EmptySet DEF Renewed
<1>4. CASE Acted(c)
  <2>1. PICK s \in SessionOf(c) : \E r \in Results(s, CallOf(c)[2]) :
          /\ CallOf(c)[1] = "sent"
          /\ SessionOf(c)' = {r.state}
          /\ known'[c] = KnownAfter(known[c], CallOf(c)[2], r.answer)
    BY <1>4 DEF Acted
  <2>2. PICK r \in Results(s, CallOf(c)[2]) :
          /\ CallOf(c)[1] = "sent"
          /\ SessionOf(c)' = {r.state}
          /\ known'[c] = KnownAfter(known[c], CallOf(c)[2], r.answer)
    BY <2>1
  <2>3. /\ "names" \in DOMAIN s /\ IsFiniteSet(DOMAIN s.names) /\ CallOf(c)[2] \in Tried
        /\ \A k \in known[c] : k.name \in DOMAIN s.names /\ s.names[k.name] = k.value
    BY <2>2 DEF SessionOK, OpaqueAlive
  <2>4. /\ "names" \in DOMAIN r.state /\ IsFiniteSet(DOMAIN r.state.names)
        /\ \A k \in KnownAfter(known[c], CallOf(c)[2], r.answer) :
             k.name \in DOMAIN r.state.names /\ r.state.names[k.name] = k.value
    <3>1. PICK command, known0 : command = CallOf(c)[2] /\ known0 = known[c]
      OBVIOUS
    <3>2. /\ command \in Tried /\ r \in Results(s, command)
          /\ \A k \in known0 : k.name \in DOMAIN s.names /\ s.names[k.name] = k.value
      BY <2>3, <3>1
    <3>3. /\ "names" \in DOMAIN r.state /\ IsFiniteSet(DOMAIN r.state.names)
          /\ \A k \in KnownAfter(known0, command, r.answer) :
               k.name \in DOMAIN r.state.names /\ r.state.names[k.name] = k.value
      BY <2>3, <3>2, ResultsKeep
    <3> QED BY <3>1, <3>3
  <2> QED BY <1>1, <2>2, <2>4
<1> QED BY <1>2, <1>3, <1>4, SessionStep

\* A value that could not be sent, and that a script has under the name that the
\* server made up for it, stays there under this name until the script resets or
\* loads: no name that is made up later is the same, whatever the values of the
\* later expressions are and however many there are (Expression.hs:625-668).
THEOREM OpaqueValuesStay == Spec => []OpaqueAlive
<1>1. Spec => []JInv
  BY JInvInit, JInvNext, PTL DEF Spec
<1> QED BY <1>1, OpaqueInit, OpaqueNext, PTL DEF Spec
=============================================================================
