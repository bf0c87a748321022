-------------------------- MODULE EnrollmentProofs --------------------------
(***************************************************************************)
(* Proofs about Enrollment, for any machines, names, tokens and            *)
(* organisations and any number of requests.                               *)
(***************************************************************************)
EXTENDS Enrollment, TLAPS

\* A config without a token and without an enrollment is a config.
LEMMA EmptyIsConfig == Empty \in Config
  BY DEF Empty, Config

\* A function that is changed at one place at most keeps its type.
LEMMA UpdateType ==
  ASSUME NEW S, NEW T, NEW f \in [S -> T], NEW x \in S, NEW v \in T, NEW g,
         g = f \/ g = [f EXCEPT ![x] = v]
  PROVE  g \in [S -> T]
  OBVIOUS

-----------------------------------------------------------------------------
\* Every action keeps the types, and the row lock with the request that holds it.
LEMMA TypeStep == TypeOK /\ LockHeld /\ AgentsSound /\ [Next]_vars => TypeOK'
  <1> SUFFICES ASSUME TypeOK, LockHeld, AgentsSound, [Next]_vars PROVE TypeOK'
    OBVIOUS
  <1> USE EnrollAssumption, EmptyIsConfig DEF TypeOK, Request, NoFile, Goto, Become, fileVars
  <1>1. ASSUME NEW m \in Machine, StartUp(m) PROVE TypeOK'
    BY <1>1 DEF StartUp, tableVars, requestVars
  <1>2. ASSUME NEW m \in Machine, StartEnroll(m) PROVE TypeOK'
    <2>1. disk[m].token \in Token
      BY <1>2 DEF StartEnroll, Config
    <2>2. QED
      BY <1>2, <2>1 DEF StartEnroll, tableVars
  <1>3. ASSUME NEW m \in Machine, GiveUp(m) PROVE TypeOK'
    BY <1>3 DEF GiveUp, Exit, tableVars, requestVars
  <1>4. ASSUME NEW m \in Machine, WriteCert(m) PROVE TypeOK'
    BY <1>4 DEF WriteCert, tableVars, requestVars
  <1>5. ASSUME NEW m \in Machine, WriteKey(m) PROVE TypeOK'
    BY <1>5 DEF WriteKey, tableVars, requestVars
  <1>6. ASSUME NEW m \in Machine, WriteCA(m) PROVE TypeOK'
    <2>1. [token |-> NoToken, host |-> hostId[current[m]]] \in Config
      BY <1>6 DEF WriteCA, AgentsSound, AgentSound, Enrolling, Config
    <2>2. QED
      BY <1>6, <2>1 DEF WriteCA, tableVars, requestVars
  <1>7. ASSUME NEW m \in Machine, Refresh(m) PROVE TypeOK'
    BY <1>7 DEF Refresh, tableVars, requestVars
  <1>8. ASSUME NEW m \in Machine, Save(m) PROVE TypeOK'
    <2>1. \/ disk' = disk \/ disk' = [disk EXCEPT ![m] = mem[m]]
          \/ disk' = [disk EXCEPT ![m] = Empty]
      BY <1>8, Zenon DEF Save
    <2>2. disk' \in [Machine -> Config]
      <3>1. mem[m] \in Config
        OBVIOUS
      <3>2. QED
        BY <2>1, <3>1, UpdateType
    <2>3. QED
      BY <1>8, <2>2 DEF Save, tableVars, requestVars
  <1>9. ASSUME NEW m \in Machine, Crash(m) PROVE TypeOK'
    <2>1. /\ cert' = cert \/ cert' = [cert EXCEPT ![m] = NoFile]
          /\ key' = key \/ key' = [key EXCEPT ![m] = NoFile]
          /\ ca' = ca \/ ca' = [ca EXCEPT ![m] = NoFile]
          /\ disk' = disk \/ disk' = [disk EXCEPT ![m] = Empty]
      BY <1>9, Zenon DEF Crash
    <2>2. /\ cert' \in [Machine -> Request \cup {0}] /\ key' \in [Machine -> Request \cup {0}]
          /\ ca' \in [Machine -> Request \cup {0}] /\ disk' \in [Machine -> Config]
      BY <2>1, UpdateType
    <2>3. pc' \in [Machine -> {"down", "enroll", "cert", "key", "ca", "save", "up", "resave"}]
      BY <1>9 DEF Crash, Exit
    <2>4. QED
      BY <1>9, <2>2, <2>3 DEF Crash, Exit, tableVars, requestVars
  <1>10. ASSUME NEW m \in Machine, NEW t \in Token, Configure(m, t) PROVE TypeOK'
    <2>1. [token |-> t, host |-> NoHost] \in Config
      BY DEF Config
    <2>2. QED
      BY <1>10, <2>1 DEF Configure, tableVars, requestVars
  <1>11. ASSUME NEW r \in Request, Lookup(r) PROVE TypeOK'
    <2>1. r \in 1..sent /\ token[r] \in Token
      BY <1>11 DEF Lookup
    <2>2. CASE UNCHANGED lock /\ Become(r, "over")
      BY <1>11, <2>1, <2>2 DEF Lookup, agentVars
    <2>3. CASE lock' = [lock EXCEPT ![token[r]] = r] /\ Become(r, "consume")
      <3>1. lock' \in [Token -> Request \cup {0}] /\ step' = [step EXCEPT ![r] = "consume"]
        BY <2>3
      <3>2. step[r] = "lookup" /\ lock[token[r]] = 0
        BY <1>11 DEF Lookup
      <3>3. \A t \in Token : lock'[t] = IF t = token[r] THEN r ELSE lock[t]
        BY <2>3
      <3>4. \A s \in Request : step'[s] = IF s = r THEN "consume" ELSE step[s]
        BY <3>1
      <3>5. \A s \in Request : step'[s] = "consume" <=> \E t \in Token : lock'[t] = s
        <4>1. TAKE s \in Request
        <4>2. CASE s = r
          BY <2>1, <3>3, <3>4, <4>2
        <4>3. CASE s # r
          <5>1. \A t \in Token : lock'[t] = s <=> lock[t] = s
            BY <2>1, <3>2, <3>3, <4>3
          <5>2. QED
            BY <3>4, <4>3, <5>1
        <4>4. QED
          BY <4>2, <4>3
      <3>6. QED
        BY <1>11, <2>1, <3>1, <3>2, <3>4, <3>5 DEF Lookup, agentVars
    <2>4. QED
      BY <1>11, <2>2, <2>3 DEF Lookup
  <1>12. ASSUME NEW r \in Request, Consume(r) PROVE TypeOK'
    BY <1>12 DEF Consume, LockHeld, agentVars
  <1>13. ASSUME NEW r \in Request, UpsertHost(r) PROVE TypeOK'
    <2>1. r \in 1..sent /\ from[r] \in Machine /\ token[r] \in Token
      <3>1. step[r] = "upsert"
        BY <1>13 DEF UpsertHost
      <3>2. r \in Request /\ ~(r > sent)
        BY <3>1
      <3>3. r \in 1..sent
        BY <3>2
      <3>4. QED
        BY <3>3
    <2> DEFINE HostRow == [id : Machine, org : {OrgOf[t] : t \in Token},
                           name : {Hostname[m] : m \in Machine}]
    <2>2. Row(r) \in HostRow /\ \A h \in hosts : h.id \in Machine
      BY <2>1 DEF Row
    <2>3. hosts' \subseteq HostRow
      <3>1. hosts' = hosts \/ hosts' = hosts \cup {Row(r)}
        BY <1>13 DEF UpsertHost
      <3>2. hosts \subseteq HostRow
        OBVIOUS
      <3> HIDE DEF HostRow, TypeOK
      <3>3. QED
        BY <2>2, <3>1, <3>2
    <2>4. hostId' \in [Request -> Machine \cup {NoHost}]
      <3>1. \/ hostId' = hostId \/ hostId' = [hostId EXCEPT ![r] = from[r]]
            \/ \E h \in hosts : hostId' = [hostId EXCEPT ![r] = h.id]
        BY <1>13, Zenon DEF UpsertHost, SameName
      <3>2. \E i \in Machine \cup {NoHost} : hostId' = hostId \/ hostId' = [hostId EXCEPT ![r] = i]
        BY <2>1, <2>2, <3>1
      <3>3. QED
        BY <3>2, UpdateType
    <2>5. step' = [step EXCEPT ![r] = "answer"] \/ step' = [step EXCEPT ![r] = "over"]
      BY <1>13 DEF UpsertHost
    <2>6. /\ step' \in [Request -> {"none", "lookup", "consume", "upsert", "answer", "over"}]
          /\ \A s \in Request : step'[s] = "consume" <=> step[s] = "consume"
          /\ \A s \in Request : step'[s] = "none" <=> step[s] = "none"
      <3>1. step[r] = "upsert"
        BY <1>13 DEF UpsertHost
      <3>2. CASE step' = [step EXCEPT ![r] = "answer"]
        BY <3>1, <3>2
      <3>3. CASE step' = [step EXCEPT ![r] = "over"]
        BY <3>1, <3>3
      <3>4. QED
        BY <2>5, <3>2, <3>3
    <2>7. UNCHANGED <<used, lock, sent, from, token, accepted, agentVars>>
      BY <1>13 DEF UpsertHost
    <2>8. QED
      BY <2>3, <2>4, <2>6, <2>7 DEF agentVars
  <1>14. ASSUME NEW r \in Request, Answer(r) PROVE TypeOK'
    BY <1>14 DEF Answer, tableVars
  <1>15. ASSUME NEW r \in Request, Break(r) PROVE TypeOK'
    BY <1>15 DEF Break, agentVars
  <1>16. CASE UNCHANGED vars
    BY <1>16 DEF vars, tableVars, requestVars, agentVars
  <1> QED
    BY <1>1, <1>2, <1>3, <1>4, <1>5, <1>6, <1>7, <1>8, <1>9, <1>10,
       <1>11, <1>12, <1>13, <1>14, <1>15, <1>16 DEF Next

-----------------------------------------------------------------------------
(* Tokens.                                                                 *)

TokensSound == LockHeld /\ Spent /\ TokenOnce

\* The steps of an agent touch no token, except that a call of Enroll begins a new
\* request.
LEMMA TokensOfAgents ==
  ASSUME TypeOK, TokensSound, NEW m \in Machine,
         StartEnroll(m) \/ UNCHANGED <<used, lock, token, step, accepted>>
  PROVE  TokensSound'
  <1> USE DEF TokensSound, LockHeld, Spent, TokenOnce
  <1>1. CASE StartEnroll(m)
    <2>1. sent + 1 \in Request /\ step[sent + 1] = "none" /\ sent + 1 \notin accepted
      BY <1>1, EnrollAssumption DEF StartEnroll, TypeOK, Request
    <2>2. /\ token' = [token EXCEPT ![sent + 1] = disk[m].token]
          /\ step' = [step EXCEPT ![sent + 1] = "lookup"]
          /\ UNCHANGED <<used, lock, accepted>>
      BY <1>1 DEF StartEnroll, Become, tableVars
    <2>3. \A r \in Request : r # sent + 1 => token'[r] = token[r] /\ step'[r] = step[r]
      BY <2>2 DEF TypeOK
    <2>4. step'[sent + 1] = "lookup" /\ accepted \subseteq Request
      BY <2>1, <2>2, EnrollAssumption DEF TypeOK, Request
    <2>5. LockHeld'
      BY <2>1, <2>2, <2>3, <2>4
    <2>6. Spent' /\ TokenOnce'
      BY <2>1, <2>2, <2>3, <2>4
    <2>7. QED
      BY <2>5, <2>6
  <1>2. CASE UNCHANGED <<used, lock, token, step, accepted>>
    BY <1>2
  <1>3. QED
    BY <1>1, <1>2

\* Every action keeps the use of tokens sound.
LEMMA TokenStep == TypeOK /\ TokensSound /\ [Next]_vars => TokensSound'
  <1> SUFFICES ASSUME TypeOK, TokensSound, [Next]_vars PROVE TokensSound'
    OBVIOUS
  <1>0. accepted \subseteq Request
    BY EnrollAssumption DEF TypeOK, Request
  <1>1. ASSUME NEW m \in Machine,
               \/ StartUp(m) \/ StartEnroll(m) \/ GiveUp(m) \/ WriteCert(m) \/ WriteKey(m)
               \/ WriteCA(m) \/ Refresh(m) \/ Save(m) \/ Crash(m)
               \/ \E t \in Token : Configure(m, t)
        PROVE  TokensSound'
    <2>1. StartEnroll(m) \/ UNCHANGED <<used, lock, token, step, accepted>>
      BY <1>1 DEF StartUp, GiveUp, WriteCert, WriteKey, WriteCA, Refresh, Save, Crash,
                  Configure, tableVars, requestVars
    <2>2. QED
      BY <2>1, TokensOfAgents
  <1>2. ASSUME NEW r \in Request, Lookup(r) PROVE TokensSound'
    <2> USE <1>0 DEF TokensSound, LockHeld, Spent, TokenOnce, Become
    <2>1. /\ step[r] = "lookup" /\ lock[token[r]] = 0 /\ UNCHANGED <<used, token, accepted>>
          /\ token[r] \in Token
      BY <1>2 DEF Lookup, TypeOK, Request
    <2>2. CASE UNCHANGED lock /\ Become(r, "over")
      <3>1. \A s \in Request : step'[s] = IF s = r THEN "over" ELSE step[s]
        BY <2>2 DEF TypeOK
      <3>2. QED
        BY <2>1, <2>2, <3>1
    <2>3. CASE token[r] \notin used /\ lock' = [lock EXCEPT ![token[r]] = r] /\ Become(r, "consume")
      <3>1. /\ \A s \in Request : step'[s] = IF s = r THEN "consume" ELSE step[s]
            /\ \A t \in Token : lock'[t] = IF t = token[r] THEN r ELSE lock[t]
        BY <2>3 DEF TypeOK
      <3>2. 0 \notin Request
        BY EnrollAssumption DEF Request
      <3>3. LockHeld'
        BY <2>1, <2>3, <3>1, <3>2
      <3>4. Spent' /\ TokenOnce'
        BY <2>1, <3>1
      <3>5. QED
        BY <3>3, <3>4
    <2>4. QED
      BY <1>2, <2>2, <2>3 DEF Lookup
  <1>3. ASSUME NEW r \in Request, Consume(r) PROVE TokensSound'
    <2> USE <1>0 DEF TokensSound, LockHeld, Spent, TokenOnce, Become
    <2>1. /\ step[r] = "consume" /\ UNCHANGED token /\ used' = used \cup {token[r]}
          /\ accepted' = accepted \cup {r} /\ token[r] \in Token /\ token[r] \notin used
      BY <1>3 DEF Consume, TypeOK, Request
    <2>2. /\ \A s \in Request : step'[s] = IF s = r THEN "upsert" ELSE step[s]
          /\ \A t \in Token : lock'[t] = IF t = token[r] THEN 0 ELSE lock[t]
      BY <1>3 DEF Consume, TypeOK
    <2>3. lock[token[r]] = r /\ 0 \notin Request
      BY <2>1, EnrollAssumption DEF Request
    <2>4. LockHeld'
      BY <2>1, <2>2, <2>3
    <2>5. Spent'
      BY <2>1, <2>2
    <2>6. TokenOnce'
      BY <2>1
    <2>7. QED
      BY <2>4, <2>5, <2>6
  <1>4. ASSUME NEW r \in Request, UpsertHost(r) \/ Answer(r) PROVE TokensSound'
    <2> USE <1>0 DEF TokensSound, LockHeld, Spent, TokenOnce, Become
    <2>1. /\ step[r] \in {"upsert", "answer"} /\ UNCHANGED <<used, lock, token, accepted>>
          /\ \/ step' = [step EXCEPT ![r] = "answer"]
             \/ step' = [step EXCEPT ![r] = "over"]
      BY <1>4 DEF UpsertHost, Answer, tableVars
    <2>2. \E l \in {"answer", "over"} : \A s \in Request : step'[s] = IF s = r THEN l ELSE step[s]
      BY <2>1 DEF TypeOK
    <2>3. QED
      BY <2>1, <2>2
  <1>5. ASSUME NEW r \in Request, Break(r) PROVE TokensSound'
    <2> USE <1>0 DEF TokensSound, LockHeld, Spent, TokenOnce, Become
    <2>1. /\ UNCHANGED <<used, token, accepted>>
          /\ \A s \in Request : step'[s] = IF s = r THEN "over" ELSE step[s]
          /\ \A t \in Token : lock'[t] = IF lock[t] = r THEN 0 ELSE lock[t]
      BY <1>5 DEF Break, TypeOK
    <2>2. 0 \notin Request
      BY EnrollAssumption DEF Request
    <2>3. LockHeld'
      BY <2>1, <2>2
    <2>4. Spent' /\ TokenOnce'
      BY <2>1
    <2>5. QED
      BY <2>3, <2>4
  <1>6. CASE UNCHANGED vars
    BY <1>6 DEF vars, tableVars, requestVars, TokensSound, LockHeld, Spent, TokenOnce
  <1>7. QED
    BY <1>1, <1>2, <1>3, <1>4, <1>5, <1>6 DEF Next

-----------------------------------------------------------------------------
(* Agents, their files and their rows.                                     *)

\* Rows stay, accepted requests stay accepted, and a request keeps what it asked.
LEMMA RecordsStay ==
  ASSUME TypeOK, [Next]_vars
  PROVE  /\ hosts \subseteq hosts' /\ accepted \subseteq accepted'
         /\ \A r \in 1..sent : from'[r] = from[r] /\ token'[r] = token[r]
  <1>1. ASSUME NEW m \in Machine, StartEnroll(m)
        PROVE  \A r \in 1..sent : from'[r] = from[r] /\ token'[r] = token[r]
    BY <1>1, EnrollAssumption DEF StartEnroll, TypeOK, Request
  <1>2. CASE UNCHANGED vars
    BY <1>2 DEF vars, tableVars, requestVars
  <1>3. ASSUME NEW m \in Machine,
               \/ StartUp(m) \/ StartEnroll(m) \/ GiveUp(m) \/ WriteCert(m) \/ WriteKey(m)
               \/ WriteCA(m) \/ Refresh(m) \/ Save(m) \/ Crash(m)
               \/ \E t \in Token : Configure(m, t)
        PROVE  UNCHANGED <<hosts, accepted>> /\ (StartEnroll(m) \/ UNCHANGED <<from, token>>)
    BY <1>3 DEF StartUp, StartEnroll, GiveUp, WriteCert, WriteKey, WriteCA, Refresh, Save, Crash,
                Configure, tableVars, requestVars
  <1>4. ASSUME NEW r \in Request,
               Lookup(r) \/ Consume(r) \/ UpsertHost(r) \/ Answer(r) \/ Break(r)
        PROVE  hosts \subseteq hosts' /\ accepted \subseteq accepted' /\ UNCHANGED <<from, token>>
    BY <1>4 DEF Lookup, Consume, UpsertHost, Answer, Break, tableVars
  <1>5. QED
    BY <1>1, <1>2, <1>3, <1>4 DEF Next

\* A machine the server knows by a request stays known by it.
LEMMA StaysRegistered ==
  ASSUME TypeOK, [Next]_vars, NEW CONSTANT m, NEW CONSTANT r, NEW CONSTANT id, Registered(m, r, id)
  PROVE  Registered(m, r, id)'
  <1>1. r \in 1..sent
    BY DEF Registered, TypeOK
  <1>2. QED
    BY <1>1, RecordsStay DEF Registered

\* A request that is over, or that waits with its answer, keeps the id it returned.
LEMMA IdStays ==
  ASSUME TypeOK, [Next]_vars, NEW r \in 1..sent, step[r] \in {"answer", "over"}
  PROVE  /\ hostId'[r] = hostId[r] /\ step'[r] \in {"answer", "over"}
         /\ step[r] = "over" => step'[r] = "over"
  <1>0. r \in Request /\ r # sent + 1
    BY EnrollAssumption DEF TypeOK, Request
  <1>1. ASSUME NEW m \in Machine, StartEnroll(m) PROVE hostId' = hostId /\ step'[r] = step[r]
    BY <1>0, <1>1 DEF StartEnroll, Become, TypeOK
  <1>2. ASSUME NEW m \in Machine,
               \/ StartUp(m) \/ GiveUp(m) \/ WriteCert(m) \/ WriteKey(m)
               \/ WriteCA(m) \/ Refresh(m) \/ Save(m) \/ Crash(m)
               \/ \E t \in Token : Configure(m, t)
        PROVE  UNCHANGED <<hostId, step>>
    BY <1>2 DEF StartUp, GiveUp, WriteCert, WriteKey, WriteCA, Refresh, Save, Crash,
                Configure, requestVars
  <1>3. ASSUME NEW s \in Request, Lookup(s) \/ Consume(s) \/ Answer(s) \/ Break(s)
        PROVE  hostId' = hostId /\ (step'[r] = step[r] \/ step'[r] = "over")
    <2>1. s = r => step[s] \notin {"lookup", "consume"}
      OBVIOUS
    <2>2. hostId' = hostId
      BY <1>3 DEF Lookup, Consume, Answer, Break
    <2>3. CASE s # r
      BY <1>0, <1>3, <2>3 DEF Lookup, Consume, Answer, Break, Become, TypeOK
    <2>4. CASE s = r
      BY <1>0, <1>3, <2>1, <2>4 DEF Lookup, Consume, Answer, Break, Become, TypeOK
    <2>5. QED
      BY <2>2, <2>3, <2>4
  <1>4. ASSUME NEW s \in Request, UpsertHost(s) PROVE hostId'[r] = hostId[r] /\ step'[r] = step[r]
    <2>1. s # r
      BY <1>4 DEF UpsertHost
    <2>2. QED
      BY <1>0, <1>4, <2>1 DEF UpsertHost, SameName, Become, TypeOK
  <1>5. CASE UNCHANGED vars
    BY <1>5 DEF vars, requestVars
  <1>6. QED
    BY <1>1, <1>2, <1>3, <1>4, <1>5 DEF Next

\* Steps of others leave an agent as it is.
LEMMA OthersLeaveSound ==
  ASSUME TypeOK, TypeOK', [Next]_vars, NEW n \in Machine, AgentSound(n),
         pc'[n] = pc[n], current'[n] = current[n], mem'[n] = mem[n], disk'[n] = disk[n],
         cert'[n] = cert[n], key'[n] = key[n], ca'[n] = ca[n], sent' >= sent
  PROVE  AgentSound(n)'
  <1> DEFINE c == current[n]
  <1>1. ASSUME pc[n] \in {"enroll", "cert", "key", "ca", "save"}
        PROVE  c \in 1..sent /\ c \in 1..sent' /\ from'[c] = n
    <2>1. c \in 1..sent /\ from[c] = n
      BY <1>1 DEF AgentSound, Enrolling
    <2>2. sent \in Nat /\ sent' \in Nat
      BY EnrollAssumption DEF TypeOK
    <2>3. QED
      BY <2>1, <2>2, RecordsStay
  <1>2. ASSUME pc[n] \in {"cert", "key", "ca", "save"}
        PROVE  /\ step'[c] = "over" /\ hostId'[c] = hostId[c]
               /\ Registered(n, c, hostId[c]) /\ Registered(n, current[n], hostId[current[n]])'
    <2>1. step[c] = "over" /\ Registered(n, c, hostId[c])
      BY <1>2 DEF AgentSound, Enrolling
    <2>2. step'[c] = "over" /\ hostId'[c] = hostId[c]
      BY <1>1, <1>2, <2>1, IdStays
    <2>3. QED
      BY <1>1, <1>2, <2>1, <2>2, RecordsStay DEF Registered, TypeOK
  <1>3. Enrolling(n)'
    BY <1>1, <1>2 DEF AgentSound, Enrolling
  <1>4. Loadable(n) => Loadable(n)'
    BY DEF Loadable, NoFile
  <1>5. ASSUME NEW id, Registered(n, cert[n], id) PROVE Registered(n, cert[n], id)'
    <2>1. cert[n] \in accepted /\ cert[n] \in 1..sent
      BY <1>5 DEF Registered, TypeOK
    <2>2. /\ cert'[n] = cert[n] /\ cert[n] \in accepted' /\ hosts \subseteq hosts'
          /\ from'[cert[n]] = from[cert[n]] /\ token'[cert[n]] = token[cert[n]]
      BY <2>1, RecordsStay
    <2>3. QED
      BY <1>5, <2>2 DEF Registered
  <1>6. Backed(n, disk[n])' /\ (pc[n] \in {"up", "resave"} => Backed(n, mem[n]))'
    BY <1>4, <1>5 DEF AgentSound, Backed, Enrolled
  <1>7. QED
    BY <1>3, <1>6 DEF AgentSound

\* Every action keeps every agent sound.
LEMMA AgentStep == TypeOK /\ TypeOK' /\ AnswerKnown /\ AgentsSound /\ [Next]_vars => AgentsSound'
  <1> SUFFICES ASSUME TypeOK, TypeOK', AnswerKnown, AgentsSound, [Next]_vars,
                      NEW n \in Machine
               PROVE  AgentSound(n)'
    BY DEF AgentsSound
  <1> AgentSound(n)
    BY DEF AgentsSound
  <1> USE DEF Goto
  \* What another agent does changes nothing of n's.
  <1>a. ASSUME NEW m \in Machine, m # n, sent' >= sent,
               \A k \in Machine \ {m} :
                 /\ pc'[k] = pc[k] /\ current'[k] = current[k] /\ mem'[k] = mem[k]
                 /\ disk'[k] = disk[k] /\ cert'[k] = cert[k] /\ key'[k] = key[k] /\ ca'[k] = ca[k]
        PROVE  AgentSound(n)'
    BY <1>a, OthersLeaveSound
  <1>b. sent \in Nat /\ 1..sent \subseteq Request
    BY EnrollAssumption DEF TypeOK, Request
  <1>1. ASSUME NEW m \in Machine, StartUp(m) PROVE AgentSound(n)'
    <2>1. CASE m = n
      BY <1>1, <2>1 DEF StartUp, tableVars, requestVars, fileVars, AgentSound, Enrolling, Backed,
                        Loadable, Registered, TypeOK
    <2>2. CASE m # n
      BY <1>1, <1>a, <1>b, <2>2 DEF StartUp, requestVars, fileVars, TypeOK
    <2>3. QED
      BY <2>1, <2>2
  <1>2. ASSUME NEW m \in Machine, StartEnroll(m) PROVE AgentSound(n)'
    <2>1. CASE m = n
      <3>1. /\ pc'[n] = "enroll" /\ disk' = disk /\ ~Enrolled(disk[n]) /\ current'[n] = sent + 1
            /\ sent' = sent + 1 /\ from'[sent + 1] = n
        BY <1>2, <1>b, <2>1, EnrollAssumption DEF StartEnroll, TypeOK, Request
      <3>2. QED
        BY <1>b, <3>1 DEF AgentSound, Enrolling, Backed, Enrolled
    <2>2. CASE m # n
      BY <1>2, <1>a, <1>b, <2>2 DEF StartEnroll, fileVars, TypeOK
    <2>3. QED
      BY <2>1, <2>2
  <1>3. ASSUME NEW m \in Machine, GiveUp(m) PROVE AgentSound(n)'
    <2>1. CASE m = n
      BY <1>3, <2>1 DEF GiveUp, tableVars, requestVars, fileVars, Exit, AgentSound, Enrolling, Backed,
                        Loadable, Registered, Enrolled, TypeOK
    <2>2. CASE m # n
      BY <1>3, <1>a, <1>b, <2>2 DEF GiveUp, Exit, requestVars, fileVars, TypeOK
    <2>3. QED
      BY <2>1, <2>2
  <1>4. ASSUME NEW m \in Machine, WriteCert(m) PROVE AgentSound(n)'
    <2>1. CASE m = n
      BY <1>4, <2>1 DEF WriteCert, tableVars, requestVars, fileVars, AgentSound, Enrolling, Backed,
                        Loadable, Registered, Enrolled, TypeOK
    <2>2. CASE m # n
      BY <1>4, <1>a, <1>b, <2>2 DEF WriteCert, requestVars, fileVars, TypeOK
    <2>3. QED
      BY <2>1, <2>2
  <1>5. ASSUME NEW m \in Machine, WriteKey(m) PROVE AgentSound(n)'
    <2>1. CASE m = n
      BY <1>5, <2>1 DEF WriteKey, tableVars, requestVars, fileVars, AgentSound, Enrolling, Backed,
                        Loadable, Registered, Enrolled, TypeOK
    <2>2. CASE m # n
      BY <1>5, <1>a, <1>b, <2>2 DEF WriteKey, requestVars, fileVars, TypeOK
    <2>3. QED
      BY <2>1, <2>2
  <1>6. ASSUME NEW m \in Machine, WriteCA(m) PROVE AgentSound(n)'
    <2>1. CASE m = n
      BY <1>6, <2>1 DEF WriteCA, tableVars, requestVars, fileVars, AgentSound, Enrolling, Backed,
                        Loadable, Registered, Enrolled, TypeOK
    <2>2. CASE m # n
      BY <1>6, <1>a, <1>b, <2>2 DEF WriteCA, requestVars, fileVars, TypeOK
    <2>3. QED
      BY <2>1, <2>2
  <1>7. ASSUME NEW m \in Machine, Refresh(m) PROVE AgentSound(n)'
    <2>1. CASE m = n
      BY <1>7, <2>1 DEF Refresh, tableVars, requestVars, fileVars, AgentSound, Enrolling, Backed,
                        Loadable, Registered, Enrolled, TypeOK
    <2>2. CASE m # n
      BY <1>7, <1>a, <1>b, <2>2 DEF Refresh, requestVars, fileVars, TypeOK
    <2>3. QED
      BY <2>1, <2>2
  <1>8. ASSUME NEW m \in Machine, Save(m) PROVE AgentSound(n)'
    <2>1. CASE m = n
      <3>1. /\ pc'[n] = "up" /\ UNCHANGED <<tableVars, requestVars, mem, fileVars>>
            /\ disk'[n] \in {disk[n], mem[n], Empty}
        BY <1>8, <2>1 DEF Save, TypeOK
      <3>2. Backed(n, mem[n])
        BY <1>8, <2>1, <1>b DEF Save, AgentSound, Enrolling, Backed, Loadable, NoFile
      <3>3. ~Enrolled(Empty)
        BY DEF Enrolled, Empty
      <3>4. QED
        BY <3>1, <3>2, <3>3 DEF tableVars, requestVars, fileVars, AgentSound, Enrolling, Backed,
                                Loadable, Registered, Enrolled
    <2>2. CASE m # n
      BY <1>8, <1>a, <1>b, <2>2 DEF Save, requestVars, fileVars, TypeOK
    <2>3. QED
      BY <2>1, <2>2
  <1>9. ASSUME NEW m \in Machine, Crash(m) PROVE AgentSound(n)'
    <2>1. CASE m = n
      <3>1. /\ pc'[n] = "down" /\ UNCHANGED <<tableVars, requestVars>>
            /\ disk'[n] \in {disk[n], Empty}
        BY <1>9, <2>1 DEF Crash, Exit, TypeOK
      <3>2. ~Enrolled(Empty)
        BY DEF Enrolled, Empty
      <3>3. Enrolled(disk[n]) => UNCHANGED fileVars
        <4>1. Enrolled(disk[n]) => pc[n] \notin {"cert", "key", "ca"}
          BY DEF AgentSound, Enrolling
        <4>2. QED
          BY <1>9, <2>1, <4>1 DEF Crash, fileVars
      <3>4. Enrolling(n)'
        BY <3>1 DEF Enrolling
      <3>5. Backed(n, disk[n])'
        BY <3>1, <3>2, <3>3 DEF tableVars, requestVars, fileVars, AgentSound, Backed,
                                Loadable, Registered, Enrolled
      <3>6. QED
        BY <3>1, <3>4, <3>5 DEF AgentSound
    <2>2. CASE m # n
      BY <1>9, <1>a, <1>b, <2>2 DEF Crash, Exit, requestVars, fileVars, TypeOK
    <2>3. QED
      BY <2>1, <2>2
  <1>10. ASSUME NEW m \in Machine, NEW t \in Token, Configure(m, t) PROVE AgentSound(n)'
    <2>1. CASE m = n
      BY <1>10, <2>1 DEF Configure, tableVars, requestVars, fileVars, AgentSound, Enrolling, Backed,
                         Enrolled, TypeOK
    <2>2. CASE m # n
      BY <1>10, <1>a, <1>b, <2>2 DEF Configure, requestVars, fileVars, TypeOK
    <2>3. QED
      BY <2>1, <2>2
  <1>11. ASSUME NEW r \in Request, Lookup(r) \/ Consume(r) \/ UpsertHost(r) \/ Break(r)
         PROVE  AgentSound(n)'
    <2>1. UNCHANGED <<sent, agentVars>>
      BY <1>11 DEF Lookup, Consume, UpsertHost, Break
    <2>2. QED
      BY <1>b, <2>1, OthersLeaveSound DEF agentVars, fileVars
  <1>12. ASSUME NEW r \in Request, Answer(r) PROVE AgentSound(n)'
    <2>1. CASE from[r] = n
      <3>1. /\ pc[n] = "enroll" /\ current[n] = r /\ step[r] = "answer" /\ pc'[n] = "cert"
            /\ step'[r] = "over"
            /\ UNCHANGED <<tableVars, sent, from, token, hostId, accepted, current, mem, disk, fileVars>>
        BY <1>12, <2>1 DEF Answer, Become, TypeOK
      <3>2. Registered(n, r, hostId[r])
        BY <2>1, <3>1 DEF AnswerKnown
      <3>3. QED
        BY <3>1, <3>2 DEF tableVars, fileVars, AgentSound, Enrolling, Backed,
                          Loadable, Registered, Enrolled
    <2>2. CASE from[r] # n
      BY <1>12, <1>b, <2>2, OthersLeaveSound DEF Answer, fileVars, TypeOK
    <2>3. QED
      BY <2>1, <2>2
  <1>13. CASE UNCHANGED vars
    BY <1>13, <1>b, OthersLeaveSound DEF vars, requestVars, agentVars, fileVars
  <1>14. QED
    BY <1>1, <1>2, <1>3, <1>4, <1>5, <1>6, <1>7, <1>8, <1>9, <1>10, <1>11, <1>12, <1>13 DEF Next

\* An answer is ready only for a machine the server knows.
LEMMA AnswerStep == TypeOK /\ Spent /\ AnswerKnown /\ [Next]_vars => AnswerKnown'
  <1> SUFFICES ASSUME TypeOK, Spent, AnswerKnown, [Next]_vars,
                      NEW r \in Request, step'[r] = "answer"
               PROVE  Registered(from[r], r, hostId[r])'
    BY DEF AnswerKnown
  <1>1. CASE step[r] = "answer"
    <2>1. Registered(from[r], r, hostId[r]) /\ r \in 1..sent
      BY <1>1 DEF AnswerKnown, Registered, TypeOK
    <2>2. hostId'[r] = hostId[r] /\ from'[r] = from[r]
      BY <1>1, <2>1, IdStays, RecordsStay
    <2>3. Registered(from[r], r, hostId[r])'
      BY <2>1, <2>2, RecordsStay DEF Registered
    <2>4. QED
      BY <2>3
  <1>2. CASE step[r] # "answer"
    <2>1. UpsertHost(r)
      <3>1. ASSUME NEW m \in Machine, StartEnroll(m) PROVE FALSE
        BY <3>1, <1>2 DEF StartEnroll, Become, TypeOK
      <3>2. ASSUME NEW m \in Machine,
                   \/ StartUp(m) \/ GiveUp(m) \/ WriteCert(m) \/ WriteKey(m)
                   \/ WriteCA(m) \/ Refresh(m) \/ Save(m) \/ Crash(m)
                   \/ \E t \in Token : Configure(m, t)
            PROVE  FALSE
        BY <3>2, <1>2 DEF StartUp, GiveUp, WriteCert, WriteKey, WriteCA, Refresh, Save, Crash,
                    Configure, requestVars
      <3>3. ASSUME NEW s \in Request, Lookup(s) \/ Consume(s) \/ Answer(s) \/ Break(s)
            PROVE  FALSE
        <4>1. step' = step \/ \E l \in {"over", "consume", "upsert"} : step' = [step EXCEPT ![s] = l]
          BY <3>3 DEF Lookup, Consume, Answer, Break, Become
        <4>2. QED
          BY <4>1, <1>2 DEF TypeOK
      <3>4. ASSUME NEW s \in Request, UpsertHost(s) PROVE s = r
        BY <3>4, <1>2 DEF UpsertHost, Become, TypeOK
      <3>5. CASE UNCHANGED vars
        BY <3>5, <1>2 DEF vars, requestVars
      <3>6. QED
        BY <3>1, <3>2, <3>3, <3>4, <3>5 DEF Next
    <2>2. /\ step[r] = "upsert" /\ r \in accepted /\ r \in Request
          /\ UNCHANGED <<from, token, accepted>>
      BY <2>1 DEF UpsertHost, Spent
    <2>3. CASE \E h \in SameName(r) : hostId' = [hostId EXCEPT ![r] = h.id] /\ UNCHANGED hosts
      BY <2>2, <2>3 DEF SameName, Registered, TypeOK
    <2>4. CASE hosts' = hosts \cup {Row(r)} /\ hostId' = [hostId EXCEPT ![r] = from[r]]
      <3>1. Row(r).id = from[r] /\ Row(r).name = Hostname[from[r]] /\ Row(r).org = OrgOf[token[r]]
        BY DEF Row
      <3>2. hostId'[r] = from[r] /\ Row(r) \in hosts'
        BY <2>2, <2>4 DEF TypeOK
      <3>3. QED
        BY <2>2, <3>1, <3>2 DEF Registered
    <2>5. CASE Become(r, "over")
      BY <2>2, <2>5, <1>2 DEF Become, TypeOK
    <2>6. QED
      BY <2>1, <2>3, <2>4, <2>5 DEF UpsertHost
  <1>3. QED
    BY <1>1, <1>2

-----------------------------------------------------------------------------
\* In the first state nothing has been sent and no machine is enrolled.
LEMMA InitIInv == Init => IInv
  <1> SUFFICES ASSUME Init PROVE IInv
    OBVIOUS
  <1>1. TypeOK
    BY EnrollAssumption, EmptyIsConfig DEF Init, TypeOK, Request, NoFile
  <1>2. LockHeld /\ Spent /\ TokenOnce /\ AnswerKnown
    BY EnrollAssumption DEF Init, LockHeld, Spent, TokenOnce, AnswerKnown, Request
  <1>3. AgentsSound
    BY DEF Init, AgentsSound, AgentSound, Enrolling, Backed, Enrolled, Empty
  <1>4. QED
    BY <1>1, <1>2, <1>3 DEF IInv

\* The types, the tokens and the agents stay sound through every enrollment.
THEOREM Inductive == Spec => []IInv
  <1>1. IInv /\ [Next]_vars => IInv'
    BY TypeStep, TokenStep, AnswerStep, AgentStep DEF IInv, TokensSound
  <1>2. QED
    BY InitIInv, <1>1, PTL DEF Spec

\* Tables, locks, requests and agents stay consistent for any number of each.
THEOREM TypeCorrect == Spec => []TypeOK
  <1>1. IInv => TypeOK
    BY DEF IInv
  <1>2. QED
    BY Inductive, <1>1, PTL

\* No token is accepted twice, from however many machines at once it is sent
\* (ValidateToken's SELECT ... FOR UPDATE).
THEOREM TokensAcceptedOnce == Spec => []TokenOnce
  <1>1. IInv => TokenOnce
    BY DEF IInv
  <1>2. QED
    BY Inductive, <1>1, PTL

\* Whatever earlier starts broke off, an enrolled config has a certificate, its key
\* and a CA to start from.
THEOREM EnrolledAgentsStart == Spec => []StartsAgain
  <1>1. IInv => StartsAgain
    BY DEF IInv, AgentsSound, AgentSound, Backed, StartsAgain
  <1>2. QED
    BY Inductive, <1>1, PTL

\* An enrolled agent is known to the server under its id, by a token it has spent.
THEOREM EnrolledHostsKnown == Spec => []HostKnown
  <1>1. IInv => HostKnown
    BY DEF IInv, AgentsSound, AgentSound, Backed, HostKnown
  <1>2. QED
    BY Inductive, <1>1, PTL
=============================================================================
