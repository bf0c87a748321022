----------------------------- MODULE Enrollment -----------------------------
(***************************************************************************)
(* How a machine becomes a host: the agent's first start                   *)
(* (cmd/agent/main.go, internal/transport/enrollment.go), the server's     *)
(* handleEnroll (itam-server/internal/api/enroll.go), and the files an     *)
(* agent starts from afterwards.                                           *)
(*                                                                         *)
(* Administrators make tokens and write one into a machine's config; the   *)
(* same token may be in the config of several machines.  Each call of      *)
(* Enroll makes a key pair and one request, and both have its number.      *)
(* Server and agent are on different machines: an answer may be lost or    *)
(* late, and either side may die between any two steps.                    *)
(*                                                                         *)
(* os.WriteFile empties a file and then writes it with one call, so a      *)
(* crash leaves it as it was, empty, or written.  An empty config file is  *)
(* a config without a token and without an enrollment.  The certificate of *)
(* an enrolled host and its row share an id; agent_credentials, which      *)
(* nothing reads, and the JWTs are left out.                               *)
(***************************************************************************)
EXTENDS Naturals, FiniteSets

CONSTANTS
  Machine,      \* machines; DeriveHostUUID of a machine is the machine itself
  Hostname,     \* the name of each of them
  Token,        \* enrollment tokens
  OrgOf,        \* the organisation each is for
  NoToken, NoHost,
  MaxRequests   \* bound: calls of Enroll

ASSUME EnrollAssumption ==
  /\ NoToken \notin Token /\ NoHost \notin Machine /\ MaxRequests \in Nat
  /\ DOMAIN Hostname = Machine /\ DOMAIN OrgOf = Token

Request == 1..MaxRequests
NoFile == 0    \* a file that is missing or empty

VARIABLES
  used,      \* the rows of enrollment_tokens with used_at
  lock,      \* the request that has the row FOR UPDATE, or 0
  hosts,     \* the table hosts: id, org and name
  sent,      \* requests so far
  from,      \* each request's machine
  token,     \* its token
  step,      \* where the server is with it
  hostId,    \* what UpsertHost returned
  accepted,  \* the requests whose token was accepted
  pc,        \* where each agent is
  current,   \* the request of its call of Enroll
  mem,       \* its config: enrollment token, host id
  disk,      \* the config file
  cert, key, ca \* agent.crt, agent.key and ca.crt: the call each is from

tableVars == <<used, lock, hosts>>
requestVars == <<sent, from, token, step, hostId, accepted>>
fileVars == <<cert, key, ca>>
agentVars == <<pc, current, mem, disk, fileVars>>
vars == <<tableVars, requestVars, agentVars>>

Config == [token : Token \cup {NoToken}, host : Machine \cup {NoHost}]
Empty == [token |-> NoToken, host |-> NoHost]
Enrolled(cfg) == cfg.host # NoHost       \* Enrolled.CertPath is not ""

Goto(m, l) == pc' = [pc EXCEPT ![m] = l]
Become(r, s) == step' = [step EXCEPT ![r] = s]

\* The agent's process is over, and with it what it had in memory.
Exit(m) ==
  /\ Goto(m, "down")
  /\ current' = [current EXCEPT ![m] = 0] /\ mem' = [mem EXCEPT ![m] = Empty]

-----------------------------------------------------------------------------
(* The agent's start and transport.Enroll                                  *)

\* The certificate is the key's, and the CA can be read (transport.New).
Loadable(m) == cert[m] = key[m] /\ cert[m] # NoFile /\ ca[m] # NoFile

\* An enrolled agent, or one without a token, goes straight to work.
StartUp(m) ==
  /\ pc[m] = "down"
  /\ IF Enrolled(disk[m]) THEN Loadable(m) ELSE disk[m].token = NoToken
  /\ mem' = [mem EXCEPT ![m] = disk[m]]
  /\ Goto(m, "up")
  /\ UNCHANGED <<tableVars, requestVars, current, disk, fileVars>>

\* "Enrollment: only runs once; subsequent starts skip this block."
StartEnroll(m) ==
  /\ pc[m] = "down" /\ ~Enrolled(disk[m]) /\ disk[m].token # NoToken
  /\ sent < MaxRequests /\ sent' = sent + 1
  /\ from' = [from EXCEPT ![sent'] = m] /\ token' = [token EXCEPT ![sent'] = disk[m].token]
  /\ Become(sent', "lookup")
  /\ mem' = [mem EXCEPT ![m] = disk[m]] /\ current' = [current EXCEPT ![m] = sent']
  /\ Goto(m, "enroll")
  /\ UNCHANGED <<tableVars, hostId, accepted, disk, fileVars>>

\* A refusal, an error, no answer in time: log.Fatalf.
GiveUp(m) ==
  /\ pc[m] = "enroll"
  /\ Exit(m)
  /\ UNCHANGED <<tableVars, requestVars, disk, fileVars>>

WriteCert(m) ==
  /\ pc[m] = "cert" /\ cert' = [cert EXCEPT ![m] = current[m]] /\ Goto(m, "key")
  /\ UNCHANGED <<tableVars, requestVars, current, mem, disk, key, ca>>

\* Mutant of WriteKey: a key that is there already is kept.
WriteKeyOnce(m) ==
  /\ pc[m] = "key" /\ Goto(m, "ca")
  /\ key' = IF key[m] = NoFile THEN [key EXCEPT ![m] = current[m]] ELSE key
  /\ UNCHANGED <<tableVars, requestVars, current, mem, disk, cert, ca>>

WriteKey(m) ==
  /\ pc[m] = "key" /\ key' = [key EXCEPT ![m] = current[m]] /\ Goto(m, "ca")
  /\ UNCHANGED <<tableVars, requestVars, current, mem, disk, cert, ca>>

\* After ca.crt the config in memory is an enrolled one, without its token.
WriteCA(m) ==
  /\ pc[m] = "ca" /\ ca' = [ca EXCEPT ![m] = current[m]] /\ Goto(m, "save")
  /\ mem' = [mem EXCEPT ![m] = [token |-> NoToken, host |-> hostId[current[m]]]]
  /\ UNCHANGED <<tableVars, requestVars, current, disk, cert, key>>

\* A refreshed token is about to be saved.
Refresh(m) ==
  /\ pc[m] = "up" /\ Enrolled(mem[m])
  /\ Goto(m, "resave")
  /\ UNCHANGED <<tableVars, requestVars, current, mem, disk, fileVars>>

\* config.Save; after a refresh an error is ignored, whatever is left of the file.
Save(m) ==
  /\ pc[m] \in {"save", "resave"}
  /\ \/ disk' = [disk EXCEPT ![m] = mem[m]]
     \/ pc[m] = "resave" /\ disk' \in {disk, [disk EXCEPT ![m] = Empty]}
  /\ Goto(m, "up")
  /\ UNCHANGED <<tableVars, requestVars, current, mem, fileVars>>

\* The agent dies, or cannot write a file and gives up (log.Fatalf); the file it
\* was writing may be left empty.
Crash(m) ==
  /\ pc[m] # "down" /\ Exit(m)
  /\ cert' \in {cert, IF pc[m] = "cert" THEN [cert EXCEPT ![m] = NoFile] ELSE cert}
  /\ key' \in {key, IF pc[m] = "key" THEN [key EXCEPT ![m] = NoFile] ELSE key}
  /\ ca' \in {ca, IF pc[m] = "ca" THEN [ca EXCEPT ![m] = NoFile] ELSE ca}
  /\ disk' \in {disk, IF pc[m] \in {"save", "resave"} THEN [disk EXCEPT ![m] = Empty] ELSE disk}
  /\ UNCHANGED <<tableVars, requestVars>>

\* The operator gives an agent that does not start, or did not enroll, a token.
Configure(m, t) ==
  /\ pc[m] = "down" /\ ~Enrolled(disk[m])
  /\ disk' = [disk EXCEPT ![m] = [token |-> t, host |-> NoHost]]
  /\ UNCHANGED <<tableVars, requestVars, pc, current, mem, fileVars>>

-----------------------------------------------------------------------------
(* handleEnroll                                                            *)

\* Mutant of Lookup: SELECT without FOR UPDATE.
LookupUnlocked(r) ==
  /\ step[r] = "lookup"
  /\ token[r] \notin used /\ Become(r, "consume")
  /\ UNCHANGED <<tableVars, sent, from, token, hostId, accepted, agentVars>>

\* ValidateToken: SELECT ... FOR UPDATE waits for another request's transaction.
\* A token that is used, or by now expired or revoked, is refused, and ROLLBACK.
Lookup(r) ==
  /\ step[r] = "lookup" /\ lock[token[r]] = 0
  /\ \/ token[r] \notin used
        /\ lock' = [lock EXCEPT ![token[r]] = r] /\ Become(r, "consume")
     \/ UNCHANGED lock /\ Become(r, "over")
  /\ UNCHANGED <<used, hosts, sent, from, token, hostId, accepted, agentVars>>

\* UPDATE ... SET used_at, COMMIT.
Consume(r) ==
  /\ step[r] = "consume"
  /\ used' = used \cup {token[r]}
  /\ lock' = [lock EXCEPT ![token[r]] = 0]
  /\ accepted' = accepted \cup {r}
  /\ Become(r, "upsert")
  /\ UNCHANGED <<hosts, sent, from, token, hostId, agentVars>>

SameName(r) == {h \in hosts : h.org = OrgOf[token[r]] /\ h.name = Hostname[from[r]]}
Row(r) == [id |-> from[r], org |-> OrgOf[token[r]], name |-> Hostname[from[r]]]

\* Mutant of UpsertHost: an error is logged and the agent's own id is used.
UpsertHostOrLog(r) ==
  /\ step[r] = "upsert"
  /\ \/ /\ \E h \in SameName(r) : hostId' = [hostId EXCEPT ![r] = h.id]
        /\ UNCHANGED hosts
     \/ /\ SameName(r) = {} /\ hostId' = [hostId EXCEPT ![r] = from[r]]
        /\ hosts' = IF \E h \in hosts : h.id = from[r] THEN hosts ELSE hosts \cup {Row(r)}
  /\ Become(r, "answer")
  /\ UNCHANGED <<used, lock, sent, from, token, accepted, agentVars>>

\* INSERT ... ON CONFLICT (hostname, org_id) DO UPDATE RETURNING id.  When only the
\* id is taken, by a row of another organisation, the statement fails.
UpsertHost(r) ==
  /\ step[r] = "upsert"
  /\ \/ /\ \E h \in SameName(r) : hostId' = [hostId EXCEPT ![r] = h.id]
        /\ Become(r, "answer") /\ UNCHANGED hosts
     \/ /\ SameName(r) = {} /\ \A h \in hosts : h.id # from[r]
        /\ hosts' = hosts \cup {Row(r)} /\ hostId' = [hostId EXCEPT ![r] = from[r]]
        /\ Become(r, "answer")
     \/ /\ SameName(r) = {} /\ \E h \in hosts : h.id = from[r]
        /\ Become(r, "over") /\ UNCHANGED <<hosts, hostId>>
  /\ UNCHANGED <<used, lock, sent, from, token, accepted, agentVars>>

\* The key is signed for that id, and the answer reaches the call that waits for it.
Answer(r) ==
  /\ step[r] = "answer" /\ pc[from[r]] = "enroll" /\ current[from[r]] = r
  /\ Become(r, "over") /\ Goto(from[r], "cert")
  /\ UNCHANGED <<tableVars, sent, from, token, hostId, accepted, current, mem, disk, fileVars>>

\* Mutant of Break: no deferred Rollback, the transaction stays open.
BreakInTransaction(r) ==
  /\ step[r] \notin {"none", "over"}
  /\ Become(r, "over")
  /\ UNCHANGED <<tableVars, sent, from, token, hostId, accepted, agentVars>>

\* A statement fails, the client is gone, the answer is lost, the server dies: an
\* open transaction is rolled back.
Break(r) ==
  /\ step[r] \notin {"none", "over"}
  /\ Become(r, "over")
  /\ lock' = [t \in Token |-> IF lock[t] = r THEN 0 ELSE lock[t]]
  /\ UNCHANGED <<used, hosts, sent, from, token, hostId, accepted, agentVars>>

-----------------------------------------------------------------------------
Init ==
  /\ used = {} /\ lock = [t \in Token |-> 0] /\ hosts = {}
  /\ sent = 0 /\ accepted = {}
  /\ from = [r \in Request |-> NoHost] /\ token = [r \in Request |-> NoToken]
  /\ step = [r \in Request |-> "none"] /\ hostId = [r \in Request |-> NoHost]
  /\ pc = [m \in Machine |-> "down"] /\ current = [m \in Machine |-> 0]
  /\ mem = [m \in Machine |-> Empty] /\ disk = [m \in Machine |-> Empty]
  /\ cert = [m \in Machine |-> NoFile] /\ key = [m \in Machine |-> NoFile]
  /\ ca = [m \in Machine |-> NoFile]

Next ==
  \/ \E m \in Machine : \/ StartUp(m) \/ StartEnroll(m) \/ GiveUp(m)
                        \/ WriteCert(m) \/ WriteKey(m) \/ WriteCA(m)
                        \/ Refresh(m) \/ Save(m) \/ Crash(m)
                        \/ \E t \in Token : Configure(m, t)
  \/ \E r \in Request : \/ Lookup(r) \/ Consume(r) \/ UpsertHost(r)
                        \/ Answer(r) \/ Break(r)

Spec == Init /\ [][Next]_vars

-----------------------------------------------------------------------------
\* Every variable has its type; the row lock of a token is held by a request that
\* is about to use it up, and by no other.
TypeOK ==
  /\ used \subseteq Token
  /\ lock \in [Token -> Request \cup {0}]
  /\ hosts \subseteq [id : Machine, org : {OrgOf[t] : t \in Token},
                      name : {Hostname[m] : m \in Machine}]
  /\ sent \in 0..MaxRequests /\ accepted \subseteq 1..sent
  /\ from \in [Request -> Machine \cup {NoHost}] /\ token \in [Request -> Token \cup {NoToken}]
  /\ step \in [Request -> {"none", "lookup", "consume", "upsert", "answer", "over"}]
  /\ hostId \in [Request -> Machine \cup {NoHost}]
  /\ pc \in [Machine -> {"down", "enroll", "cert", "key", "ca", "save", "up", "resave"}]
  /\ current \in [Machine -> Request \cup {0}]
  /\ mem \in [Machine -> Config] /\ disk \in [Machine -> Config]
  /\ cert \in [Machine -> Request \cup {0}] /\ key \in [Machine -> Request \cup {0}]
  /\ ca \in [Machine -> Request \cup {0}]
  /\ \A r \in Request : step[r] = "consume" <=> \E t \in Token : lock[t] = r
  /\ \A r \in Request : step[r] = "none" <=> r > sent
  /\ \A r \in 1..sent : from[r] \in Machine /\ token[r] \in Token

\* "It marks the token as used atomically so replay attacks are impossible"
\* (enrollment/token.go): of all requests with a token, from however many machines,
\* at once or one after the other, at most one is accepted.
TokenOnce ==
  \A r \in accepted, s \in accepted : token[r] = token[s] => r = s

\* An agent whose config says it is enrolled can start: wherever earlier starts
\* broke off, agent.crt, agent.key and ca.crt are of one enrollment.
StartsAgain == \A m \in Machine : Enrolled(disk[m]) => Loadable(m)

\* The server has accepted m's request r and knows the machine as id.
Registered(m, r, id) ==
  /\ r \in accepted /\ from[r] = m
  /\ \E h \in hosts : h.id = id /\ h.name = Hostname[m] /\ h.org = OrgOf[token[r]]

\* An enrolled agent's host id, in its certificate, its tokens and its scans, is a
\* row of hosts with this machine's name, of the organisation whose token it spent
\* for its certificate: no failure between the steps of handleEnroll leaves an agent
\* with an id the server does not know.
HostKnown ==
  \A m \in Machine : Enrolled(disk[m]) => Registered(m, cert[m], disk[m].host)

-----------------------------------------------------------------------------
(* What these invariants rest on (EnrollmentProofs).                       *)

\* Exactly the request about to use a token up has its row, and finds it unused.
LockHeld ==
  /\ \A r \in Request, t \in Token : lock[t] = r <=> step[r] = "consume" /\ token[r] = t
  /\ \A r \in Request : step[r] = "consume" => token[r] \notin used

\* An accepted request is past that, and its token is used.
Spent ==
  /\ \A r \in accepted : token[r] \in used /\ step[r] \in {"upsert", "answer", "over"}
  /\ \A r \in Request : step[r] \in {"upsert", "answer"} => r \in accepted

AnswerKnown ==
  \A r \in Request : step[r] = "answer" => Registered(from[r], r, hostId[r])

\* While an agent works off an answer its config is not yet an enrolled one, and
\* what it has written is from this call.
Enrolling(m) ==
  /\ pc[m] \in {"enroll", "cert", "key", "ca", "save"} =>
       ~Enrolled(disk[m]) /\ current[m] \in 1..sent /\ from[current[m]] = m
  /\ pc[m] \in {"cert", "key", "ca", "save"} =>
       step[current[m]] = "over" /\ Registered(m, current[m], hostId[current[m]])
  /\ pc[m] \in {"key", "ca", "save"} => cert[m] = current[m]
  /\ pc[m] \in {"ca", "save"} => key[m] = current[m]
  /\ pc[m] = "save" =>
       ca[m] = current[m] /\ mem[m] = [token |-> NoToken, host |-> hostId[current[m]]]

\* A config that is enrolled, on disk or in a running agent, has its files and row.
Backed(m, cfg) == Enrolled(cfg) => Loadable(m) /\ Registered(m, cert[m], cfg.host)

AgentSound(m) ==
  Enrolling(m) /\ Backed(m, disk[m]) /\ (pc[m] \in {"up", "resave"} => Backed(m, mem[m]))

AgentsSound == \A m \in Machine : AgentSound(m)

IInv == TypeOK /\ LockHeld /\ Spent /\ TokenOnce /\ AnswerKnown /\ AgentsSound

-----------------------------------------------------------------------------
\* "one row per enrolled endpoint" (migrations/001_schema.sql): two enrolled
\* machines have two host ids.
OwnRow ==
  \A m, n \in Machine : Enrolled(disk[m]) /\ disk[m].host = disk[n].host => m = n
=============================================================================
